------------------------------ MODULE GoComics ------------------------------
(***************************************************************************)
(* get-comics.go: a goroutine for each comic, no more than thread_limit at *)
(* a time; main starts the next one when it receives from an unbuffered    *)
(* channel on which each of them sends when it is done.  They share got.   *)
(***************************************************************************)
EXTENDS Integers, FiniteSets

CONSTANTS
    N,         \* total
    Settings   \* the comics with a regexp, and of them the gocomics; the limit of
               \* the command line or the configuration; whether a match may be "/"
Comics == 1 .. N
GoComicsAssumption ==
    /\ N \in Nat
    /\ \A s \in Settings : /\ s.limit \in Int /\ s.slash \in BOOLEAN
                           /\ s.go \subseteq s.staged /\ s.staged \subseteq Comics

VARIABLES
    setting,
    late,   \* the gocomics that were read before gocomics-regexp was
    main,   \* "start", "wait" or "over"; "crashed", with all goroutines
    cur,    \* the comics that were started
    done,   \* alldone, the times that main has received
    at,     \* where the goroutine of a comic is
    seen,   \* what it has read of got
    got,    \* the comics whose file is written
    count   \* got

vars == <<setting, late, main, cur, done, at, seen, got, count>>

NotSeen == -1

Alive == main # "crashed"
Goto(c, place) == at' = [at EXCEPT ![c] = place]

\* go get_comic
Go(c) == Goto(c, "page")

\* Mutant: one more than the limit is started.
StartFirstOneMore ==
    /\ main = "start" /\ cur <= setting.limit /\ cur < N
    /\ Go(cur + 1) /\ cur' = cur + 1
    /\ UNCHANGED <<setting, late, main, done, seen, got, count>>

StartFirst ==
    /\ main = "start" /\ cur < setting.limit /\ cur < N
    /\ Go(cur + 1) /\ cur' = cur + 1
    /\ UNCHANGED <<setting, late, main, done, seen, got, count>>

AllFirst ==
    /\ main = "start" /\ ~(cur < setting.limit /\ cur < N)
    /\ main' = "wait"
    /\ UNCHANGED <<setting, late, cur, done, at, seen, got, count>>

\* main receives what set_done sends, which runs in a panic as well, and starts
\* the next.
Receive(c) ==
    /\ main = "wait" /\ done < N /\ at[c] \in {"send", "panic"}
    /\ done' = done + 1
    /\ at' = [d \in Comics |-> IF d = c THEN IF at[c] = "send" THEN "gone" ELSE "dying"
                               ELSE IF d = cur + 1 THEN "page" ELSE at[d]]
    /\ cur' = IF cur < N THEN cur + 1 ELSE cur
    /\ UNCHANGED <<setting, late, main, seen, got, count>>

Report ==
    /\ main = "wait" /\ done = N
    /\ main' = "over"
    /\ UNCHANGED <<setting, late, cur, done, at, seen, got, count>>

\* The first stage: an image is found, or none; or the first stage is not there.
\* Of the match "/" the second character is looked at: a panic, in which the
\* deferred set_done sends before the program dies.
Page(c) ==
    /\ Alive /\ at[c] = "page"
    /\ \/ c \in setting.staged \ late /\ (Goto(c, "image") \/ Goto(c, "send"))
       \/ c \in setting.staged \ late /\ setting.slash /\ Goto(c, "panic")
       \/ c \notin setting.staged \ late /\ Goto(c, "image")
    /\ UNCHANGED <<setting, late, main, cur, done, seen, got, count>>

\* The panic ends the program, unless main is faster.
Die(c) ==
    /\ main \in {"start", "wait"} /\ at[c] = "dying"
    /\ main' = "crashed"
    /\ UNCHANGED <<setting, late, cur, done, at, seen, got, count>>

\* gethttp of the image, or of the page of a late gocomic: written, or not.
Image(c) ==
    /\ Alive /\ at[c] = "image"
    /\ \/ Goto(c, "count") /\ got' = got \cup {c}
       \/ Goto(c, "send") /\ UNCHANGED got
    /\ UNCHANGED <<setting, late, main, cur, done, seen, count>>

\* got += 1, in two steps.
ReadGot(c) ==
    /\ Alive /\ at[c] = "count" /\ seen[c] = NotSeen
    /\ seen' = [seen EXCEPT ![c] = count]
    /\ UNCHANGED <<setting, late, main, cur, done, at, got, count>>

WriteGot(c) ==
    /\ Alive /\ at[c] = "count" /\ seen[c] # NotSeen
    /\ count' = seen[c] + 1 /\ seen' = [seen EXCEPT ![c] = NotSeen]
    /\ Goto(c, "send")
    /\ UNCHANGED <<setting, late, main, cur, done, got>>

Main == StartFirst \/ AllFirst \/ Report \/ \E c \in Comics : Receive(c)
Routine(c) == Page(c) \/ Die(c) \/ Image(c) \/ ReadGot(c) \/ WriteGot(c)

\* The map of the configuration is walked in any order: gocomics that are read
\* before gocomics-url make strftime panic.
Init ==
    /\ setting \in Settings /\ late \in {{}, setting.go}
    /\ main \in IF setting.go = {} THEN {"start"} ELSE {"start", "crashed"}
    /\ cur = 0 /\ done = 0 /\ at = [c \in Comics |-> "none"]
    /\ seen = [c \in Comics |-> NotSeen] /\ got = {} /\ count = 0

Next == Main \/ \E c \in Comics : Routine(c)

Spec == Init /\ [][Next]_vars

-----------------------------------------------------------------------------
CountHonest == count <= Cardinality(got)

\* The comics whose goroutine is there, until main has received from it.
Ended == {"gone", "dying"}
Running == {c \in Comics : at[c] \notin Ended \cup {"none"}}
AtMostLimit == Running # {} => Cardinality(Running) <= setting.limit

ReportLast == main = "over" => \A c \in Comics : at[c] \in Ended

\* With no thread allowed nothing is started and main waits for ever.
Finished == setting.limit > 0 => main \in {"over", "crashed"}
=============================================================================
