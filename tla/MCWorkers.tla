----------------------------- MODULE MCWorkers -----------------------------
(***************************************************************************)
(* The three programs that download with threads, each on its own: lang    *)
(* says which one a behaviour is of.  They share the names of what they    *)
(* have in common.                                                         *)
(***************************************************************************)
EXTENDS Integers, Sequences, FiniteSets

CONSTANT N   \* how many comics are on the list

VARIABLES
    lang, setting, main, at, seen, got, count,   \* of each
    todo, status, open, matched,                 \* of CurlThreads
    late, cur, done,                             \* of GoComics
    next, sema, lock                             \* of PyComics

ofAll == <<lang, setting, main, at, seen, got, count>>
ofCurl == <<todo, status, open, matched>>
ofGo == <<late, cur, done>>
ofPy == <<next, sema, lock>>
vars == <<ofAll, ofCurl, ofGo, ofPy>>

Comics == 1 .. N

CurlSettings == {[staged |-> staged, links |-> links] :
                    staged \in {{}, {1, 2}}, links \in BOOLEAN}
GoSettings == {[staged |-> {1, 2}, go |-> go, limit |-> limit, slash |-> slash] :
                  go \in {{}, {1}}, limit \in -1 .. 2, slash \in BOOLEAN}
PySettings == {[skip |-> skip, nthreads |-> nthreads, links |-> links, raises |-> raises] :
                  skip \in {{}, {N}}, nthreads \in 1 .. 2,
                  links \in BOOLEAN, raises \in BOOLEAN}

Curl == INSTANCE CurlThreads WITH Settings <- CurlSettings
Go == INSTANCE GoComics WITH Settings <- GoSettings
Py == INSTANCE PyComics WITH Settings <- PySettings

ASSUME WorkersAssumption ==
    Curl!CurlThreadsAssumption /\ Go!GoComicsAssumption /\ Py!PyComicsAssumption

InCurl == lang = "curl" /\ UNCHANGED <<lang, ofGo, ofPy>>
InGo == lang = "go" /\ UNCHANGED <<lang, ofCurl, ofPy>>
InPy == lang = "py" /\ UNCHANGED <<lang, ofCurl, ofGo>>

NoCurl == todo = <<>> /\ status = <<>> /\ open = {} /\ matched = {}
NoGo == late = {} /\ cur = 0 /\ done = 0
NoPy == next = 0 /\ sema = 0 /\ lock = 0

Init ==
    \/ lang = "curl" /\ Curl!Init /\ NoGo /\ NoPy
    \/ lang = "go" /\ Go!Init /\ NoCurl /\ NoPy
    \/ lang = "py" /\ Py!Init /\ NoCurl /\ NoGo

Main ==
    \/ InCurl /\ Curl!Join
    \/ InGo /\ Go!Main
    \/ InPy /\ Py!Main

Worker(c) ==
    \/ InCurl /\ Curl!Thread(c)
    \/ InGo /\ Go!Routine(c)
    \/ InPy /\ Py!Thread(c)

Next == Main \/ \E c \in Comics : Worker(c)

\* Every thread that can run does; those that compete for the lock of the
\* Python version get it if it is released again and again.
Spec ==
    /\ Init /\ [][Next]_vars
    /\ WF_vars(Main)
    /\ \A c \in Comics : WF_vars(Worker(c)) /\ SF_vars(InPy /\ Py!Lock(c))

-----------------------------------------------------------------------------
\* No version reports more comics than its threads had got, though they count
\* without a lock (common.c:109, get-comics.go:348, get-comics.py:231).  With
\* libcurl a transfer that breaks off after a 200 is got as well.
CountHonest ==
    CASE lang = "curl" -> Curl!CountHonest
      [] lang = "go" -> Go!CountHonest
      [] lang = "py" -> Py!CountHonest

\* No more downloads at a time than the limit allows, whoever starts the next
\* one (get-comics.go:435-446, get-comics.py:321-329).
AtMostLimit ==
    CASE lang = "curl" -> TRUE
      [] lang = "go" -> Go!AtMostLimit
      [] lang = "py" -> Py!AtMostLimit

\* When main goes on to its report, no thread that it started is still running
\* (curl.c:81, get-comics.go:440, get-comics.py:331).
ReportLast ==
    main = "over" =>
        CASE lang = "curl" -> Curl!ReportLast
          [] lang = "go" -> Go!ReportLast
          [] lang = "py" -> Py!ReportLast

\* The program ends, unless what it waits for is never given back: no goroutine
\* is allowed, or so many threads were ended by exceptions that none is left.
Ends ==
    <>(CASE lang = "curl" -> Curl!Finished
         [] lang = "go" -> Go!Finished
         [] lang = "py" -> Py!Finished)
=============================================================================
