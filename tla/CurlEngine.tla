----------------------------- MODULE CurlEngine -----------------------------
(***************************************************************************)
(* The download engine built on the multi interface of libcurl: main_loop  *)
(* and its callbacks in curl.c, with the life of a connection that it      *)
(* shares with the native engine in common.c.                              *)
(*                                                                         *)
(* libcurl connects, follows redirects and reads replies.  The program     *)
(* sees it through write_callback and through one message for each         *)
(* transfer that has ended, for whatever reason.  Only curl_multi_perform  *)
(* moves transfers on, so they never interleave with the handlers.         *)
(***************************************************************************)
EXTENDS Integers, FiniteSets

CONSTANTS
    N,           \* n_comics, the length of the list of comics
    Limit,       \* thread_limit
    Regexp,      \* comics found in two stages: a page, then what it names
    Modes,       \* how the program may be run: "get", or "links" (-l)
    BuildFails   \* callers of build_request that may fail: "start", "html"

Comics == 1 .. N

ASSUME CurlAssumption ==
    /\ N \in Nat \ {0} /\ Limit \in 1 .. N
    /\ Regexp \subseteq Comics
    /\ Modes \subseteq {"get", "links"}
    /\ BuildFails \subseteq {"start", "html"}

VARIABLES
    mode,         \* what the command line says
    pc,           \* where main_loop is
    primed,       \* how many comics the first loop has tried to start
    head,         \* the next comic to start, N + 1 when none is left
    outstanding,  \* the count of connections the loop believes are open
    gotit,        \* the count of comics, or links, the program has got
    handle,       \* conn->curl: "none" when null; the transfer is "running",
                  \* or has ended with status 200 ("ok") or another ("error")
    broken,       \* the transfer ended before the whole body had come
    out,          \* conn->out is open
    matched,      \* conn->matched: the second stage has begun
    got,          \* conn->gotit
    exts          \* how often an extension was appended to conn->outname

transfers == <<handle, broken, out>>
vars == <<mode, pc, primed, head, outstanding, gotit, handle, broken, out,
          matched, got, exts>>

LinksOnly == mode = "links"

Open == {c \in Comics : handle[c] # "none"}

-----------------------------------------------------------------------------
(* Connections.                                                            *)

\* build_request, after which the transfer is in the multi handle.
BuildRequest(c, ok) ==
    /\ handle' = [handle EXCEPT ![c] = IF ok THEN "running" ELSE "none"]
    /\ broken' = [broken EXCEPT ![c] = FALSE]
    /\ out' = [out EXCEPT ![c] = FALSE]

Outcomes(caller) == IF caller \in BuildFails THEN BOOLEAN ELSE {TRUE}

ReleaseConnection(c) ==
    /\ handle' = [handle EXCEPT ![c] = "none"]
    /\ out' = [out EXCEPT ![c] = FALSE]
    /\ UNCHANGED broken

CloseConnection(c) ==
    /\ ReleaseConnection(c)
    /\ outstanding' = outstanding - 1
    /\ gotit' = gotit + 1
    /\ got' = [got EXCEPT ![c] = TRUE]

\* Mutant: a failed connection is not counted out.
FailConnectionUncounted(c) ==
    /\ ReleaseConnection(c)
    /\ UNCHANGED <<outstanding, gotit, got>>

FailConnection(c) ==
    /\ ReleaseConnection(c)
    /\ outstanding' = outstanding - 1
    /\ UNCHANGED <<gotit, got>>

-----------------------------------------------------------------------------
(* Starting comics: first thread_limit calls of start_next_comic, then one *)
(* at the top of every turn of the loop, which its result may end.         *)

Starting == pc \in {"prime", "top"}

\* Mutant: the loop ends when nothing more can be started.
GoesOnNot(rc) == rc

\* The condition of the loop, rc being what start_next_comic returned.
GoesOn(rc) == rc \/ outstanding' # 0

StartReturns(rc) ==
    \/ /\ pc = "prime"
       /\ primed' = primed + 1
       /\ pc' = IF primed' = Limit THEN "first" ELSE "prime"
    \/ /\ pc = "top"
       /\ pc' = IF GoesOn(rc) THEN "perform" ELSE "done"
       /\ UNCHANGED primed

CanStart == head <= N /\ outstanding < Limit

\* A comic whose url is the link that is wanted, counted twice.
StartLink ==
    /\ Starting /\ CanStart /\ LinksOnly /\ head \notin Regexp
    /\ gotit' = gotit + 2
    /\ got' = [got EXCEPT ![head] = TRUE]
    /\ head' = head + 1
    /\ UNCHANGED <<mode, pc, primed, outstanding, transfers, matched, exts>>

\* Mutant: a comic counts as outstanding before its request is built.
StartedAlways(ok) == outstanding + (IF ok THEN 1 ELSE 1)

Started(ok) == outstanding + (IF ok THEN 1 ELSE 0)

StartComic ==
    /\ Starting /\ CanStart /\ (~LinksOnly \/ head \in Regexp)
    /\ \E ok \in Outcomes("start") :
         /\ BuildRequest(head, ok)
         /\ outstanding' = Started(ok)
         /\ IF ok THEN StartReturns(TRUE) ELSE UNCHANGED <<pc, primed>>
    /\ head' = head + 1
    /\ UNCHANGED <<mode, gotit, matched, got, exts>>

StartNone ==
    /\ Starting /\ ~CanStart
    /\ UNCHANGED <<mode, head, outstanding, gotit, transfers, matched, got, exts>>
    /\ StartReturns(head <= N)

-----------------------------------------------------------------------------
(* curl_multi_perform, called once before the loop and once in every turn. *)

Performing == pc \in {"first", "perform"}

FirstStage(c) == c \in Regexp /\ ~matched[c]

\* Mutant: the file is opened by every call.
WriteAgain(c) ==
    /\ Performing /\ handle[c] = "running"
    /\ out' = [out EXCEPT ![c] = TRUE]
    /\ exts' = [exts EXCEPT ![c] = @ + (IF FirstStage(c) THEN 0 ELSE 1)]
    /\ UNCHANGED <<mode, pc, primed, head, outstanding, gotit, handle, broken, matched, got>>

\* write_callback when it opens the file, which for an image appends an
\* extension to the name.  Later calls only write.
Write(c) ==
    /\ Performing /\ handle[c] = "running" /\ ~out[c]
    /\ out' = [out EXCEPT ![c] = TRUE]
    /\ exts' = [exts EXCEPT ![c] = @ + (IF FirstStage(c) THEN 0 ELSE 1)]
    /\ UNCHANGED <<mode, pc, primed, head, outstanding, gotit, handle, broken, matched, got>>

\* A transfer ends, and a message for it waits in the multi handle.  The
\* server may have answered 200 and then broken off, or timed out.
Finish(c) ==
    /\ Performing /\ handle[c] = "running"
    /\ \/ handle' = [handle EXCEPT ![c] = "error"] /\ UNCHANGED broken
       \/ /\ handle' = [handle EXCEPT ![c] = "ok"]
          /\ \E b \in BOOLEAN : broken' = [broken EXCEPT ![c] = b]
    /\ UNCHANGED <<mode, pc, primed, head, outstanding, gotit, out, matched, got, exts>>

\* curl_multi_perform returns.
PerformReturns ==
    /\ Performing
    /\ pc' = IF pc = "first" THEN "top" ELSE "messages"
    /\ UNCHANGED <<mode, primed, head, outstanding, gotit, transfers, matched, got, exts>>

-----------------------------------------------------------------------------
(* msg_done, once for every transfer that has ended.                       *)

Ended == {c \in Comics : handle[c] \in {"ok", "error"}}

\* process_html, links wanted: the connection is released before
\* close_connection, which then does not count it as closed.
HtmlLink(c) ==
    /\ LinksOnly
    /\ ReleaseConnection(c)
    /\ matched' = [matched EXCEPT ![c] = TRUE]
    /\ got' = [got EXCEPT ![c] = TRUE]
    /\ gotit' = gotit + 1
    /\ UNCHANGED outstanding

\* process_html: a new transfer for the image, or none, and nobody is told.
HtmlOpen(c) ==
    /\ ~LinksOnly
    /\ \E ok \in Outcomes("html") : BuildRequest(c, ok)
    /\ matched' = [matched EXCEPT ![c] = TRUE]
    /\ UNCHANGED <<outstanding, gotit, got>>

\* msg_done looks at the status of the reply and not at the result of the
\* transfer.  process_html fails when the page does not match the regexp.
MsgDone(c) ==
    /\ pc = "messages" /\ c \in Ended
    /\ \/ handle[c] = "error" /\ FailConnection(c) /\ UNCHANGED matched
       \/ /\ handle[c] = "ok" /\ FirstStage(c)
          /\ \/ FailConnection(c) /\ UNCHANGED matched
             \/ HtmlLink(c)
             \/ HtmlOpen(c)
       \/ /\ handle[c] = "ok" /\ ~FirstStage(c)
          /\ CloseConnection(c) /\ UNCHANGED matched
    /\ UNCHANGED <<mode, pc, primed, head, exts>>

\* curl_multi_info_read has no message left.
NoMessage ==
    /\ pc = "messages" /\ Ended = {}
    /\ pc' = "top"
    /\ UNCHANGED <<mode, primed, head, outstanding, gotit, transfers, matched, got, exts>>

Terminating == pc = "done" /\ UNCHANGED vars

-----------------------------------------------------------------------------
Init ==
    /\ mode \in Modes
    /\ pc = "prime" /\ primed = 0 /\ head = 1
    /\ outstanding = 0 /\ gotit = 0
    /\ handle = [c \in Comics |-> "none"]
    /\ broken = [c \in Comics |-> FALSE]
    /\ out = [c \in Comics |-> FALSE]
    /\ matched = [c \in Comics |-> FALSE]
    /\ got = [c \in Comics |-> FALSE]
    /\ exts = [c \in Comics |-> 0]

Next ==
    \/ StartLink \/ StartComic \/ StartNone
    \/ PerformReturns \/ NoMessage
    \/ \E c \in Comics : Write(c) \/ Finish(c) \/ MsgDone(c)
    \/ Terminating

\* The program keeps running, and libcurl ends every transfer: build_request
\* sets CURLOPT_LOW_SPEED_LIMIT and CURLOPT_LOW_SPEED_TIME.
Spec ==
    /\ Init /\ [][Next]_vars
    /\ WF_vars(Next)
    /\ \A c \in Comics : SF_vars(Finish(c))

-----------------------------------------------------------------------------
\* Types; in particular primed never passes Limit, nor head the end of the list.
TypeOK ==
    /\ mode \in Modes
    /\ pc \in {"prime", "first", "top", "perform", "messages", "done"}
    /\ primed \in 0 .. Limit /\ head \in 1 .. N + 1
    /\ outstanding \in Int /\ gotit \in Nat
    /\ handle \in [Comics -> {"none", "running", "ok", "error"}]
    /\ broken \in [Comics -> BOOLEAN] /\ out \in [Comics -> BOOLEAN]
    /\ matched \in [Comics -> BOOLEAN] /\ got \in [Comics -> BOOLEAN]
    /\ exts \in [Comics -> Nat]

\* Two things after which the count of open connections does not come back: a
\* page whose image cannot be requested, and a page that gives a link.
HandledFaults ==
    /\ "html" \notin BuildFails
    /\ LinksOnly => Regexp = {}

\* Types; and outstanding, by which comics are started and the loop ends, is the
\* number of transfers that libcurl holds.
OutstandingExact == TypeOK /\ (HandledFaults => outstanding = Cardinality(Open))

\* add_outname allocates room for one extension; over both stages, and all
\* the calls of write_callback, no more than one is appended.
OneExtension == \A c \in Comics : exts[c] <= 1

\* A comic counts as got only when all of its image has come.
GotWhole == \A c \in Comics : got[c] => ~broken[c]

\* main_loop returns.
Termination == <>(pc = "done")

\* main_loop returns, after the faults that are handled: every connection
\* that was counted in is counted out.
LoopEnds == HandledFaults => Termination

Status(c) ==
    IF c >= head THEN "queued"
    ELSE IF c \in Open THEN "active"
    ELSE IF got[c] THEN "got" ELSE "missed"

Abstract == INSTANCE Downloads WITH
                status <- [c \in Comics |-> Status(c)],
                running <- pc # "done"

\* The engine keeps the promises of Downloads, whatever fails: comics are taken
\* in order, no more than thread_limit at once, what is got stays got and what
\* is missed stays missed, and main_loop returns only when all are resolved.
ImplementsDownloads == Abstract!SafeSpec
=============================================================================
