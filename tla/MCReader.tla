------------------------------ MODULE MCReader ------------------------------
(***************************************************************************)
(* The replies with which TLC checks Reader.tla.  The same content "xyz"   *)
(* is sent with a Content-Length, until the server closes, in two chunks   *)
(* (the second line has the space Apache adds), and gzipped.               *)
(***************************************************************************)
EXTENDS Reader

Content == <<"x", "y", "z">>
Plain == <<"S", "E">> \o Content

Base == [chunked |-> FALSE, gzip |-> FALSE, length |-> 3, closes |-> FALSE,
         body |-> Content, bytes |-> Plain]

Sized == Base
Unsized == [Base EXCEPT !.length = 0, !.closes = TRUE]
Gzipped == [Base EXCEPT !.gzip = TRUE]
Chunked ==
    [Base EXCEPT !.chunked = TRUE, !.length = 0,
       !.bytes = <<"S", "E", "2", "CR", "LF", "x", "y", "CR", "LF",
                   "1", "SP", "CR", "LF", "z", "CR", "LF",
                   "0", "CR", "LF", "CR", "LF">>]
ChunkedGzipped == [Chunked EXCEPT !.gzip = TRUE]

SizedReplies == {Sized, Gzipped}
ChunkedReplies == {Chunked, ChunkedGzipped}
AllReplies == SizedReplies \cup ChunkedReplies \cup {Unsized}

Link(bufsize, tls, maxRecord, reuse, replies, cuts) ==
    [bufsize |-> bufsize, tls |-> tls, maxRecord |-> maxRecord,
     reuse |-> reuse, replies |-> replies, cuts |-> cuts]

\* Sized replies in a buffer shorter than a reply, page and image on one
\* connection, over TCP, or TLS with records that fit the buffer; chunked
\* replies in a buffer that holds them, each on a connection of its own; and
\* every kind of reply, cut anywhere, in a small buffer, with records longer
\* than it.
MCSettings ==
    {Link(4, tls, 2, TRUE, SizedReplies, FALSE) : tls \in BOOLEAN}
        \cup {Link(25, tls, 4, FALSE, ChunkedReplies, FALSE) : tls \in BOOLEAN}
        \cup {Link(7, TRUE, 9, TRUE, AllReplies, TRUE)}
=============================================================================
