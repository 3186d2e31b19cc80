----------------------------- MODULE MCRequests -----------------------------
(***************************************************************************)
(* The webs with which TLC checks Requests.tla.  The machine "y" serves    *)
(* both names; "a" also has a server on port 8080, "b" is for https, and   *)
(* nobody knows "c".                                                       *)
(***************************************************************************)
EXTENDS Requests, TLC

U(scheme, name, port) == [scheme |-> scheme, name |-> name, port |-> port]

A == U("http", "a", 0)
A8080 == U("http", "a", 8080)
B == U("https", "b", 0)
C == U("http", "c", 0)

TwoNames == {"a", "b", "c"}
TwoAddrs == [n \in TwoNames |-> CASE n = "a" -> <<"x", "y">>
                                  [] n = "b" -> <<"y">>
                                  [] n = "c" -> <<>>]
NoBase == <<>>

Full(u) == [kind |-> "full", url |-> u]
Rooted(u) == [kind |-> "rooted", url |-> u]
Path(u) == [kind |-> "path", url |-> u]

Build(ipv4, tls, reuse, down, links) ==
    [ipv4 |-> ipv4, tls |-> tls, reuse |-> reuse, down |-> down,
     first |-> {A, B}, links |-> links]

\* With OpenSSL, with and without persistent connections, with mbedTLS and with
\* no TLS, and machines that stop to answer; and the build for IPV4.
WebSettings ==
    {Build(FALSE, "openssl", TRUE, TRUE, {Full(A8080), Path(A)}),
     Build(FALSE, "openssl", FALSE, TRUE, {Full(A8080)}),
     Build(FALSE, "mbedtls", TRUE, FALSE, {Full(B)}),
     Build(FALSE, "none", TRUE, TRUE, {Rooted(A8080), Full(C)})}
      \cup {Build(TRUE, "openssl", TRUE, down, {Full(A8080)}) : down \in BOOLEAN}

Symmetry == Permutations(Conns)
=============================================================================
