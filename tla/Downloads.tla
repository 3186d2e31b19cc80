----------------------------- MODULE Downloads -----------------------------
(***************************************************************************)
(* What the download engine of get-comics promises, with no sockets in it. *)
(*                                                                         *)
(* A list of comics is taken in order.  Each comic is queued, then active  *)
(* (it owns one of the Limit download slots), then either got or missed;   *)
(* nothing ever leaves got or missed.  The program stops only when every   *)
(* comic has been resolved.  Engine.tla implements this module.            *)
(***************************************************************************)
EXTENDS Integers, FiniteSets

CONSTANTS
    N,      \* how many comics are on the list (n_comics)
    Limit   \* how many may be downloaded at once (thread_limit)

Comics == 1 .. N

VARIABLES
    status,   \* "queued", "active", "got" or "missed", for each comic
    running   \* FALSE once the main loop has returned

vars == <<status, running>>

With(s) == {c \in Comics : status[c] = s}
Resolved == With("got") \cup With("missed")

\* The comic at the head of the list: every earlier one has left the queue.
AtHead(c) == status[c] = "queued" /\ \A d \in 1 .. c - 1 : status[d] # "queued"

Init ==
    /\ status = [c \in Comics |-> "queued"]
    /\ running = TRUE

\* The head of the list gets a download slot.
Start(c) ==
    /\ running /\ AtHead(c)
    /\ Cardinality(With("active")) < Limit
    /\ status' = [status EXCEPT ![c] = "active"]
    /\ UNCHANGED running

\* The head of the list needs no slot: it is only a link, or it cannot start.
Pass(c, verdict) ==
    /\ running /\ AtHead(c)
    /\ Cardinality(With("active")) < Limit
    /\ verdict \in {"got", "missed"}
    /\ status' = [status EXCEPT ![c] = verdict]
    /\ UNCHANGED running

\* A download is complete.
Deliver(c) ==
    /\ running /\ status[c] = "active"
    /\ status' = [status EXCEPT ![c] = "got"]
    /\ UNCHANGED running

\* Failures come one at a time, or several at once when they time out.
Miss(set) ==
    /\ running /\ set # {} /\ \A c \in set : status[c] = "active"
    /\ status' = [c \in Comics |-> IF c \in set THEN "missed" ELSE status[c]]
    /\ UNCHANGED running

\* The main loop returns.
Stop ==
    /\ running /\ Resolved = Comics
    /\ running' = FALSE
    /\ UNCHANGED status

Terminating == ~running /\ UNCHANGED vars

Next ==
    \/ \E c \in Comics : Start(c) \/ Deliver(c)
    \/ \E c \in Comics, verdict \in {"got", "missed"} : Pass(c, verdict)
    \/ \E set \in SUBSET Comics : Miss(set)
    \/ Stop
    \/ Terminating

\* The promise that can be kept whatever the network does, and the promise
\* that every run ends.
SafeSpec == Init /\ [][Next]_vars
Spec == SafeSpec /\ WF_vars(Next)

-----------------------------------------------------------------------------
TypeOK ==
    /\ status \in [Comics -> {"queued", "active", "got", "missed"}]
    /\ running \in BOOLEAN

\* thread_limit: never more than Limit comics are being downloaded.
AtMostLimit == Cardinality(With("active")) <= Limit

\* The list is taken in order: everything queued comes after everything that
\* was ever started.
InOrder ==
    \A c, d \in Comics : c < d /\ status[c] = "queued" => status[d] = "queued"

\* Every comic on the list is resolved, and then the program stops.
EveryComicResolved == <>(Resolved = Comics /\ ~running)
=============================================================================
