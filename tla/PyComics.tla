------------------------------ MODULE PyComics ------------------------------
(***************************************************************************)
(* get-comics.py: a thread for each comic, no more than nthreads at a time *)
(* as a semaphore counts them; a lock around the file of links.  What a    *)
(* thread has taken is not given back when an exception ends it.           *)
(***************************************************************************)
EXTENDS Integers, FiniteSets

CONSTANTS
    N,         \* Comic.total
    Settings   \* the comics not for today; nthreads; whether links are wanted;
               \* whether requests.get may raise an exception
Comics == 1 .. N
PyComicsAssumption ==
    /\ N \in Nat \ {0}
    /\ \A s \in Settings : /\ s.nthreads \in Nat \ {0} /\ s.skip \subseteq Comics
                           /\ s.links \in BOOLEAN /\ s.raises \in BOOLEAN

VARIABLES
    setting,
    main,    \* "start", "join", or "over": the links are closed, got is printed
    next,    \* the comic main comes to next
    sema,    \* the value of the semaphore
    lock,    \* the comic whose thread has links_lock, or 0
    at,      \* where the thread of a comic is
    seen,    \* what it has read of Comic.got
    got,     \* the comics whose file, or link, is written
    count    \* Comic.got

vars == <<setting, main, next, sema, lock, at, seen, got, count>>

NotSeen == -1
Goto(c, place) == at' = [at EXCEPT ![c] = place]

\* The loop over the comics.
Skip ==
    /\ main = "start" /\ next \in setting.skip
    /\ next' = next + 1
    /\ UNCHANGED <<setting, main, sema, lock, at, seen, got, count>>

StartThread ==
    /\ main = "start" /\ next \in Comics \ setting.skip /\ sema > 0
    /\ sema' = sema - 1 /\ Goto(next, "get") /\ next' = next + 1
    /\ UNCHANGED <<setting, main, lock, seen, got, count>>

AllStarted ==
    /\ main = "start" /\ next > N
    /\ main' = "join"
    /\ UNCHANGED <<setting, next, sema, lock, at, seen, got, count>>

Ended(c) == at[c] \in {"none", "done", "dead"}

\* Mutant: it does not wait.
JoinNone ==
    /\ main = "join" /\ main' = "over"
    /\ UNCHANGED <<setting, next, sema, lock, at, seen, got, count>>

\* The loop over the threads tests the comic that the loop before it left
\* behind: when that is skipped none is waited for.
Join ==
    /\ main = "join" /\ (N \in setting.skip \/ \A c \in Comics : Ended(c))
    /\ main' = "over"
    /\ UNCHANGED <<setting, next, sema, lock, at, seen, got, count>>

\* What is got, of either stage: it is written; a link is; or there is nothing
\* to write; or an exception.
Get(c) ==
    /\ at[c] = "get"
    /\ \/ ~setting.links /\ Goto(c, "count") /\ got' = got \cup {c}
       \/ setting.links /\ Goto(c, "lock") /\ UNCHANGED got
       \/ Goto(c, "release") /\ UNCHANGED got
       \/ setting.raises /\ Goto(c, "dead") /\ UNCHANGED got
    /\ UNCHANGED <<setting, main, next, sema, lock, seen, count>>

Lock(c) ==
    /\ at[c] = "lock" /\ lock = 0
    /\ lock' = c /\ Goto(c, "write")
    /\ UNCHANGED <<setting, main, next, sema, seen, got, count>>

\* Writing to the closed file raises an exception, with the lock held.
WriteLink(c) ==
    /\ at[c] = "write"
    /\ IF main = "over" THEN Goto(c, "dead") /\ UNCHANGED <<lock, got>>
       ELSE Goto(c, "count") /\ lock' = 0 /\ got' = got \cup {c}
    /\ UNCHANGED <<setting, main, next, sema, seen, count>>

\* Comic.got += 1, in two steps.
ReadGot(c) ==
    /\ at[c] = "count" /\ seen[c] = NotSeen
    /\ seen' = [seen EXCEPT ![c] = count]
    /\ UNCHANGED <<setting, main, next, sema, lock, at, got, count>>

WriteGot(c) ==
    /\ at[c] = "count" /\ seen[c] # NotSeen
    /\ count' = seen[c] + 1 /\ seen' = [seen EXCEPT ![c] = NotSeen]
    /\ Goto(c, "release")
    /\ UNCHANGED <<setting, main, next, sema, lock, got>>

\* Mutant: the thread ends without it.
ReleaseNot(c) ==
    /\ at[c] = "release"
    /\ Goto(c, "done")
    /\ UNCHANGED <<setting, main, next, sema, lock, seen, got, count>>

Release(c) ==
    /\ at[c] = "release"
    /\ sema' = sema + 1 /\ Goto(c, "done")
    /\ UNCHANGED <<setting, main, next, lock, seen, got, count>>

Main == Skip \/ StartThread \/ AllStarted \/ Join
Thread(c) == Get(c) \/ Lock(c) \/ WriteLink(c) \/ ReadGot(c) \/ WriteGot(c) \/ Release(c)

Init ==
    /\ setting \in Settings /\ main = "start" /\ next = 1
    /\ sema = setting.nthreads /\ lock = 0 /\ at = [c \in Comics |-> "none"]
    /\ seen = [c \in Comics |-> NotSeen] /\ got = {} /\ count = 0

Next == Main \/ \E c \in Comics : Thread(c)

Spec == Init /\ [][Next]_vars

-----------------------------------------------------------------------------
CountHonest == count <= Cardinality(got)

Dead == {c \in Comics : at[c] = "dead"}
AtMostLimit == Cardinality({c \in Comics : ~Ended(c)}) <= setting.nthreads

ReportLast == main = "over" /\ N \notin setting.skip => \A c \in Comics : Ended(c)

\* Unless so many threads die that the semaphore is used up, main comes to its
\* end; and unless the links are closed under them, so do the threads.
Finished ==
    /\ main = "over" \/ Cardinality(Dead) >= setting.nthreads
    /\ N \notin setting.skip => \A c \in Comics : Ended(c)
=============================================================================
