---------------------------- MODULE CurlThreads ----------------------------
(***************************************************************************)
(* The curl engine built with MULTI_THREADED (curl.c): a thread for each   *)
(* comic, all at once.  They share gotit and outstanding without a lock:   *)
(* here a thread reads a counter in one step and writes it in another.     *)
(***************************************************************************)
EXTENDS Integers, Sequences, FiniteSets

CONSTANTS
    N,         \* n_comics
    Settings   \* the comics with a regexp; whether links_only is open
Comics == 1 .. N
CurlThreadsAssumption ==
    /\ N \in Nat
    /\ \A s \in Settings : s.staged \subseteq Comics /\ s.links \in BOOLEAN

VARIABLES
    setting,
    main,     \* "join", or "over": main_loop has returned
    at,       \* where the thread of a comic is: "start", "perform" or "end"
    todo,     \* what it is about to add, to which of the counters
    seen,     \* what it has read of the first of them
    status,   \* its http_status_code, which nothing initializes
    open,     \* the comics that have conn->curl
    matched,  \* conn->matched
    got,      \* the comics with conn->gotit
    count     \* gotit and outstanding

vars == <<setting, main, at, todo, seen, status, open, matched, got, count>>

NotSeen == -1000
Gotit == <<"gotit", 1>>
Opened == <<"outstanding", 1>>
Closed == <<"outstanding", -1>>

Ready(c, place) == at[c] = place /\ todo[c] = <<>>
Goto(c, place, adds) ==
    /\ at' = [at EXCEPT ![c] = place]
    /\ todo' = [todo EXCEPT ![c] = adds]

\* ++ and --, in two steps.
ReadCount(c) ==
    /\ todo[c] # <<>> /\ seen[c] = NotSeen
    /\ seen' = [seen EXCEPT ![c] = count[Head(todo[c])[1]]]
    /\ UNCHANGED <<setting, main, at, todo, status, open, matched, got, count>>

WriteCount(c) ==
    /\ todo[c] # <<>> /\ seen[c] # NotSeen
    /\ count' = [count EXCEPT ![Head(todo[c])[1]] = seen[c] + Head(todo[c])[2]]
    /\ todo' = [todo EXCEPT ![c] = Tail(@)]
    /\ seen' = [seen EXCEPT ![c] = NotSeen]
    /\ UNCHANGED <<setting, main, at, status, open, matched, got>>

\* start_one_comic.  Whatever it returns, the transfer is performed next.
Start(c) ==
    /\ Ready(c, "start")
    /\ \/ /\ setting.links /\ c \notin setting.staged
          /\ got' = got \cup {c}
          /\ Goto(c, "perform", <<Gotit, Gotit>>) /\ UNCHANGED open
       \/ /\ ~(setting.links /\ c \notin setting.staged) /\ UNCHANGED got
          /\ \/ open' = open \cup {c} /\ Goto(c, "perform", <<Opened>>)
             \/ UNCHANGED open /\ Goto(c, "perform", <<>>)
    /\ UNCHANGED <<setting, main, seen, status, matched, count>>

\* curl_easy_perform, and the status of the reply.  Without a handle neither
\* does anything, and the status is what it was.
Perform(c) ==
    /\ Ready(c, "perform")
    /\ \/ c \in open /\ \E s \in {"200", "other"} : status' = [status EXCEPT ![c] = s]
       \/ c \notin open /\ UNCHANGED status
    /\ at' = [at EXCEPT ![c] = "status"]
    /\ UNCHANGED <<setting, main, todo, seen, open, matched, got, count>>

FirstStage(c) == c \in setting.staged /\ c \notin matched

\* Mutant: the comic is counted whatever the status is.
CloseAny(c) ==
    /\ Ready(c, "status") /\ ~FirstStage(c)
    /\ IF c \in open
       THEN open' = open \ {c} /\ Goto(c, "end", <<Gotit, Closed>>)
            /\ got' = (IF status[c] = "200" THEN got \cup {c} ELSE got)
       ELSE Goto(c, "end", <<>>) /\ UNCHANGED <<open, got>>
    /\ UNCHANGED <<setting, main, seen, status, matched, count>>

\* close_connection, which counts an open connection only.
Close(c) ==
    /\ Ready(c, "status") /\ status[c] = "200" /\ ~FirstStage(c)
    /\ IF c \in open
       THEN open' = open \ {c} /\ got' = got \cup {c} /\ Goto(c, "end", <<Gotit, Closed>>)
       ELSE Goto(c, "end", <<>>) /\ UNCHANGED <<open, got>>
    /\ UNCHANGED <<setting, main, seen, status, matched, count>>

\* process_html fails, as it does when there is no page: fail_connection.
HtmlFails(c) ==
    /\ Ready(c, "status") /\ status[c] = "200" /\ FirstStage(c)
    /\ open' = open \ {c}
    /\ Goto(c, "end", IF c \in open THEN <<Closed>> ELSE <<>>)
    /\ UNCHANGED <<setting, main, seen, status, matched, got, count>>

\* process_html matches.  The connection is released, and opened again for the
\* image unless only the link is wanted, or build_request fails.
Html(c) ==
    /\ Ready(c, "status") /\ status[c] = "200" /\ FirstStage(c) /\ c \in open
    /\ matched' = matched \cup {c}
    /\ \/ setting.links /\ got' = got \cup {c} /\ open' = open \ {c}
          /\ Goto(c, "perform", <<Gotit>>)
       \/ ~setting.links /\ open' \in {open, open \ {c}} /\ Goto(c, "perform", <<>>)
          /\ UNCHANGED got
    /\ UNCHANGED <<setting, main, seen, status, count>>

\* Any other status: the thread ends and the connection stays as it is.
NotOk(c) ==
    /\ Ready(c, "status") /\ status[c] = "other"
    /\ Goto(c, "end", <<>>)
    /\ UNCHANGED <<setting, main, seen, status, open, matched, got, count>>

Thread(c) ==
    \/ ReadCount(c) \/ WriteCount(c) \/ Start(c) \/ Perform(c) \/ Close(c)
    \/ HtmlFails(c) \/ Html(c) \/ NotOk(c)

\* main_loop joins all threads.
Join ==
    /\ main = "join" /\ \A c \in Comics : Ready(c, "end")
    /\ main' = "over"
    /\ UNCHANGED <<setting, at, todo, seen, status, open, matched, got, count>>

Init ==
    /\ setting \in Settings /\ main = "join"
    /\ at = [c \in Comics |-> "start"] /\ todo = [c \in Comics |-> <<>>]
    /\ seen = [c \in Comics |-> NotSeen] /\ status \in [Comics -> {"200", "other"}]
    /\ open = {} /\ matched = {} /\ got = {} /\ count = [gotit |-> 0, outstanding |-> 0]

Next == Join \/ \E c \in Comics : Thread(c)

Spec == Init /\ [][Next]_vars

-----------------------------------------------------------------------------
\* The count is never more than the comics that were got, however the threads
\* run into each other: it is only ever too low.  (Links are counted twice.  A comic
\* is got as conn->gotit says, also when its body broke off after a status of 200.)
CountHonest == ~setting.links => count.gotit <= Cardinality(got)

ReportLast == main = "over" => \A c \in Comics : Ready(c, "end")

Finished == main = "over"
=============================================================================
