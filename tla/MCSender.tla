------------------------------ MODULE MCSender ------------------------------
(***************************************************************************)
(* The builds and urls with which TLC checks Sender.tla.                   *)
(***************************************************************************)
EXTENDS Sender

Base == [win |-> FALSE, tls |-> FALSE, bufsize |-> 40, imgsize |-> 8,
         path |-> <<"a">>, match |-> <<>>, referer |-> <<>>,
         fails |-> FALSE, resets |-> FALSE, parts |-> FALSE]

\* Every image url of up to three characters, in a buffer that holds any, and
\* in every one that is too short for some.
Images ==
    {[Base EXCEPT !.match = match, !.imgsize = size] :
        match \in UNION {[1 .. n -> Chars] : n \in 1 .. 3}, size \in 3 .. 11}

\* What the network does, on each platform, with TLS and without.
Networks ==
    {[Base EXCEPT !.win = win, !.tls = tls, !.fails = fails, !.resets = resets,
                  !.match = match, !.parts = TRUE] :
        win \in BOOLEAN, tls \in BOOLEAN, fails \in BOOLEAN, resets \in BOOLEAN,
        match \in {<<>>, <<"b", " ">>}}

\* Buffers around the length of a request, with and without a referer.
Lengths ==
    {[Base EXCEPT !.bufsize = size, !.path = url, !.referer = referer] :
        size \in 18 .. 26, url \in {<<"a">>, <<"a", " ", "a">>},
        referer \in {<<>>, <<"a", "b", "a">>}}

MCSettings == Images \cup Networks \cup Lengths
=============================================================================
