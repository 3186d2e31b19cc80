------------------------------- MODULE Reader -------------------------------
(***************************************************************************)
(* How the native engine reads replies (http.c): one connection, its       *)
(* buffer, and the state functions that find the end of a reply header and *)
(* of a sized, unsized, chunked or gzipped body, whatever segments the     *)
(* bytes arrive in.  A comic of two stages sends a second request, on the  *)
(* same connection when it can.                                            *)
(*                                                                         *)
(* A token stands for a piece of a reply that matters as a whole: "S" the  *)
(* status line and header, "E" the empty line that ends the header, "CR",  *)
(* "LF", "SP" and the digits of chunk lines, and "w" to "z" the data.      *)
(* Everything is written into the buffer, counted and compared token by    *)
(* token, as the code does byte by byte.                                   *)
(***************************************************************************)
EXTENDS Integers, Sequences

CONSTANTS
    Settings,  \* the connections to consider, see Setting
    TwoStage,  \* the comic has a regexp: a page, then the image it names
    MaxOut     \* bound: a file is not observed beyond this length

Digits == <<"0", "1", "2", "3", "4">>
Tokens == {"S", "E", "CR", "LF", "SP", "w", "x", "y", "z"}
            \cup {Digits[i] : i \in DOMAIN Digits}

\* A reply: what its header says (length is 0 without a Content-Length), the
\* content, the bytes that are sent, and whether the server then closes.
Reply == [chunked: BOOLEAN, gzip: BOOLEAN, length: Nat, closes: BOOLEAN,
          body: Seq(Tokens), bytes: Seq(Tokens)]

\* How a comic is read: BUFSIZE in tokens; whether data is read through the
\* TLS library, and the longest record that decrypts at a time; whether the
\* image is on the host of the page and REUSE_SOCKET is set; what its servers may
\* send, and whether they may close, or fall silent, before all is sent.
Setting == [bufsize: Nat \ {0}, tls: BOOLEAN, maxRecord: Nat \ {0},
            reuse: BOOLEAN, replies: SUBSET Reply, cuts: BOOLEAN]

ASSUME ReaderAssumption ==
    /\ Settings \subseteq Setting /\ MaxOut \in Nat /\ TwoStage \in BOOLEAN

VARIABLES
    setting,  \* the one that is considered
    phase,    \* "write": a request is due; "read": waiting for POLLIN;
              \* "parse": inside conn->func; "over"
    result,   \* "none", then "got" or "failed"
    stage,    \* 2 once the page has named the image (conn->matched)
    reply,    \* what the server answers to each of the two requests
    wire,     \* what the server has sent and the program has not read
    server,   \* "sends"; "silent", or "closed": after what is on the wire
    pending,  \* decrypted data that waits inside the TLS library
    buf,      \* conn->buf; "-" is a byte of the request or never written
    curp,     \* conn->curp, conn->endp: offsets into buf
    endp,
    rlen,     \* conn->rlen, the room left for the next read
    length,   \* conn->length, of the body or of the chunk
    cstate,   \* conn->cstate
    func,     \* conn->func
    out       \* what has been written to the file of this stage

network == <<setting, reply, wire, server, pending>>
buffer == <<buf, curp, endp, rlen>>
vars == <<setting, phase, result, stage, reply, wire, server, pending, buf, curp, endp,
          rlen, length, cstate, func, out>>

Bufsize == setting.bufsize

Min2(m, n) == IF m < n THEN m ELSE n
Prefix(s, n) == SubSeq(s, 1, n)
Rest(s, n) == SubSeq(s, n + 1, Len(s))

Body == reply[stage].body

\* The data from curp on, n tokens of it.
Data(n) == [i \in 1 .. n |-> buf[curp + i - 1]]
Unread == endp - curp

\* Writing to the file; nothing is remembered beyond MaxOut.
Written(data) == Prefix(out \o data, Min2(MaxOut, Len(out) + Len(data)))

-----------------------------------------------------------------------------
(* Sending the request, receiving what arrives.                            *)

\* Mutant: write_request does not reset the buffer.
WriteRequestKeepsBuf ==
    /\ phase = "write"
    /\ phase' = "read"
    /\ buf' = [i \in 0 .. Bufsize - 1 |-> "-"]
    /\ length' = 0
    /\ func' = "read_reply"
    /\ wire' = IF server = "sends" THEN wire \o reply[stage].bytes ELSE wire
    /\ server' = IF server = "sends" /\ reply[stage].closes THEN "closed" ELSE server
    /\ UNCHANGED <<result, stage, setting, reply, pending, curp, endp, rlen, cstate, out>>

\* write_request when the whole request is sent: reset_buf, and the reply is
\* read from the start of the buffer.  endp keeps its old value.
WriteRequest ==
    /\ phase = "write"
    /\ phase' = "read"
    /\ buf' = [i \in 0 .. Bufsize - 1 |-> "-"]
    /\ curp' = 0 /\ rlen' = Bufsize /\ length' = 0
    /\ func' = "read_reply"
    /\ wire' = IF server = "sends" THEN wire \o reply[stage].bytes ELSE wire
    /\ server' = IF server = "sends" /\ reply[stage].closes THEN "closed" ELSE server
    /\ UNCHANGED <<result, stage, setting, reply, pending, endp, cstate, out>>

\* How many of n tokens recv or SSL_read give: at most rlen.
RoomFor(n) == Min2(rlen, n)

\* recv or SSL_read put tokens at curp.
Receive(tokens) ==
    /\ buf' = [i \in 0 .. Bufsize - 1 |->
                 IF i \in curp .. curp + Len(tokens) - 1
                 THEN tokens[i - curp + 1] ELSE buf[i]]
    /\ endp' = curp + Len(tokens)
    /\ rlen' = rlen - Len(tokens)
    /\ phase' = "parse"

\* read_conn: some of what was sent has arrived.
RecvTcp ==
    /\ phase = "read" /\ ~setting.tls
    /\ \E n \in 1 .. RoomFor(Len(wire)) :
         /\ Receive(Prefix(wire, n))
         /\ wire' = Rest(wire, n)
    /\ UNCHANGED <<result, stage, setting, reply, server, pending, curp, length, cstate, func, out>>

\* read_conn over TLS: poll() sees the socket, SSL_read gives what is left of
\* the record it has decrypted, or the start of the next record.
RecvTls ==
    /\ phase = "read" /\ setting.tls /\ rlen > 0
    /\ \/ /\ pending # <<>> /\ (wire # <<>> \/ server = "closed")
          /\ LET n == RoomFor(Len(pending))
             IN Receive(Prefix(pending, n)) /\ pending' = Rest(pending, n)
          /\ UNCHANGED wire
       \/ /\ pending = <<>>
          /\ \E m \in 1 .. Min2(setting.maxRecord, Len(wire)) :
               LET n == RoomFor(m)
               IN /\ Receive(Prefix(wire, n))
                  /\ pending' = SubSeq(wire, n + 1, m)
                  /\ wire' = Rest(wire, m)
    /\ UNCHANGED <<result, stage, setting, reply, server, curp, length, cstate, func, out>>

\* conn->func returned nonzero: fail_connection.
Fail ==
    /\ phase' = "over" /\ result' = "failed"
    /\ UNCHANGED <<stage, setting, reply, wire, server, pending, buffer, length, cstate, func, out>>

\* read_conn when nothing is read: the connection was closed, or there is no
\* room.  endp stays where it was.  A reply that ends in its header, or before
\* it, fails.
RecvNothing ==
    /\ phase = "read"
    /\ \/ server = "closed" /\ wire = <<>> /\ pending = <<>>
       \/ rlen = 0 /\ (wire # <<>> \/ server = "closed")
    /\ \/ func = "read_reply" /\ Fail
       \/ /\ func # "read_reply"
          /\ phase' = "parse"
          /\ UNCHANGED <<result, stage, network, buffer, length, cstate, func, out>>

\* Nothing will arrive any more: timeout_connections.  poll() does not know
\* what waits inside the TLS library.
Timeout ==
    /\ phase = "read" /\ wire = <<>> /\ server # "closed"
    /\ Fail

\* The server closes or falls silent before it has sent everything.
Cut ==
    /\ setting.cuts /\ phase = "read" /\ server = "sends"
    /\ \E n \in 0 .. Len(wire) : wire' = Prefix(wire, n)
    /\ server' \in {"closed", "silent"}
    /\ UNCHANGED <<phase, result, stage, setting, reply, pending, buffer, length, cstate, func, out>>

-----------------------------------------------------------------------------
(* The state functions.  Those of a body end in one of three ways.         *)

\* Mutant: reset_buf forgets the room.
ResetBufKeepsRoom == curp' = 0 /\ rlen' = rlen

ResetBuf == curp' = 0 /\ rlen' = Bufsize

\* Wait for more data in an empty buffer.
More ==
    /\ ResetBuf
    /\ phase' = "read"
    /\ UNCHANGED <<result, stage, network, buf, endp, func, cstate>>

(***************************************************************************)
(* The body is complete and file is what was written.  A page is searched  *)
(* for the image: a whole page names it, a damaged one may.  The request   *)
(* for the image is then due, on this connection or on another.            *)
(***************************************************************************)
Complete(file) ==
    /\ \/ /\ TwoStage /\ stage = 1
          /\ \/ /\ stage' = 2 /\ phase' = "write" /\ out' = <<>>
                /\ IF setting.reuse THEN UNCHANGED <<wire, server, pending>>
                   ELSE wire' = <<>> /\ server' = "sends" /\ pending' = <<>>
                /\ UNCHANGED result
             \/ /\ file # Body
                /\ phase' = "over" /\ result' = "failed" /\ out' = file
                /\ UNCHANGED <<stage, wire, server, pending>>
       \/ /\ ~TwoStage \/ stage = 2
          /\ phase' = "over" /\ result' = "got" /\ out' = file
          /\ UNCHANGED <<stage, wire, server, pending>>
    /\ UNCHANGED <<setting, reply, buf, endp, rlen, cstate, func>>

\* The function the body is read with.
BodyFunc(r) ==
    IF r.chunked THEN "read_file_chunked"
    ELSE IF r.gzip THEN "read_file_gzip"
    ELSE IF r.length = 0 THEN "read_file_unsized" ELSE "read_file"

HeaderEnds == {p \in 0 .. endp - 1 : buf[p] = "E"}

\* read_reply: the end of the header is not there yet.
ReplyPartial ==
    /\ phase = "parse" /\ func = "read_reply" /\ HeaderEnds = {}
    /\ \/ /\ rlen > 0
          /\ curp' = endp /\ phase' = "read"
          /\ UNCHANGED <<result, stage, network, buf, endp, rlen, length, cstate, func, out>>
       \/ rlen = 0 /\ Fail

\* read_reply: the header is complete, and says how the body is sent.  What
\* follows it in the buffer is read as body at once.
ReplyHeader ==
    /\ phase = "parse" /\ func = "read_reply" /\ HeaderEnds # {}
    /\ \/ buf[0] # "S" /\ Fail
       \/ /\ buf[0] = "S"
          /\ \E p \in HeaderEnds :
               /\ \A q \in HeaderEnds : p <= q
               /\ curp' = p + 1
               /\ phase' = IF p + 1 < endp THEN "parse" ELSE "read"
          /\ func' = BodyFunc(reply[stage])
          /\ length' = IF reply[stage].chunked THEN 0 ELSE reply[stage].length
          /\ cstate' = "CS_DIGITS"
          /\ UNCHANGED <<result, stage, network, buf, endp, rlen, out>>

\* Mutants: off by one; what is read is not counted.
LeftAfterLess(n) == length - n - 1
LeftAfterNone(n) == IF n > 0 THEN length ELSE 0

\* What is left of the body, or the chunk, after n tokens.
LeftAfter(n) == length - n

\* read_file: a body of Content-Length bytes.
ReadFile ==
    /\ phase = "parse" /\ func = "read_file"
    /\ \/ Unread = 0 /\ Fail
       \/ /\ Unread > 0
          /\ length' = LeftAfter(Unread)
          /\ \/ length' <= 0 /\ Complete(Written(Data(Unread))) /\ UNCHANGED curp
             \/ length' > 0 /\ out' = Written(Data(Unread)) /\ More

\* read_file_unsized: a body that ends when the server closes.
ReadUnsized ==
    /\ phase = "parse" /\ func = "read_file_unsized"
    /\ UNCHANGED length
    /\ \/ Unread = 0 /\ Complete(out) /\ UNCHANGED curp
       \/ Unread > 0 /\ out' = Written(Data(Unread)) /\ More

\* write_output_gzipped: inflate accepts data that goes on where it stopped,
\* and says when the stream has ended.
Wanted(data) == Min2(Len(Body) - Len(out), Len(data))
Inflates(data) == Prefix(data, Wanted(data)) = SubSeq(Body, Len(out) + 1, Len(out) + Wanted(data))
Inflated(data) == out \o Prefix(data, Wanted(data))
StreamEnd(data) == Len(out) + Len(data) >= Len(Body)

\* read_file_gzip.
ReadGzip ==
    /\ phase = "parse" /\ func = "read_file_gzip"
    /\ LET data == Data(Unread)
       IN \/ (Unread = 0 \/ ~Inflates(data)) /\ Fail
          \/ /\ Unread > 0 /\ Inflates(data)
             /\ length' = LeftAfter(Unread)
             /\ \/ /\ length' <= 0 \/ StreamEnd(data)
                   /\ Complete(Inflated(data)) /\ UNCHANGED curp
                \/ /\ length' > 0 /\ ~StreamEnd(data)
                   /\ out' = Inflated(data) /\ More

-----------------------------------------------------------------------------
(* read_file_chunked, one token of the chunk lines at a step.              *)

Chunking == phase = "parse" /\ func = "read_file_chunked"

\* The function was called with nothing to read.
ChunkEmpty == Chunking /\ curp >= endp /\ Fail

\* INC_CURP: on to the next byte, or return when there is none.
IncCurp ==
    /\ curp' = curp + 1
    /\ phase' = IF curp + 1 = endp THEN "read" ELSE "parse"
    /\ UNCHANGED <<result, stage, network, buf, endp, rlen, func, out>>

\* A byte that the state does not allow.
ChunkBad ==
    /\ Chunking /\ curp < endp
    /\ LET byte == buf[curp]
       IN \/ cstate \in {"CS_START_CR", "CS_END_CR"} /\ byte \notin {"CR", "SP"}
          \/ cstate = "CS_START_CR" /\ byte = "SP"
          \/ cstate \in {"CS_START_LF", "CS_END_LF"} /\ byte # "LF"
    /\ Fail

\* The line end that closes the chunk before this one.
ChunkStart ==
    /\ Chunking /\ curp < endp
    /\ \/ cstate = "CS_START_CR" /\ buf[curp] = "CR" /\ cstate' = "CS_START_LF"
       \/ cstate = "CS_START_LF" /\ buf[curp] = "LF" /\ cstate' = "CS_DIGITS"
    /\ IncCurp /\ UNCHANGED length

ChunkDigit ==
    /\ Chunking /\ curp < endp /\ cstate = "CS_DIGITS"
    /\ \/ \E i \in DOMAIN Digits :
            /\ buf[curp] = Digits[i]
            /\ length' = length * 16 + i - 1
            /\ IncCurp /\ UNCHANGED cstate
       \/ /\ \A i \in DOMAIN Digits : buf[curp] # Digits[i]
          /\ cstate' = "CS_END_CR"
          /\ UNCHANGED <<phase, result, stage, network, buffer, length, func, out>>

ChunkLineEnd ==
    /\ Chunking /\ curp < endp /\ cstate = "CS_END_CR"
    /\ \/ buf[curp] = "SP" /\ UNCHANGED cstate
       \/ buf[curp] = "CR" /\ cstate' = "CS_END_LF"
    /\ IncCurp /\ UNCHANGED length

\* The end of a chunk line: a block follows, in this buffer or the next, or
\* this was the last chunk.  The line end after the last chunk stays unread.
ChunkLine ==
    /\ Chunking /\ curp < endp /\ cstate = "CS_END_LF" /\ buf[curp] = "LF"
    /\ curp' = curp + 1
    /\ UNCHANGED length
    /\ \/ /\ length > 0 /\ func' = "read_chunkblock"
          /\ UNCHANGED <<phase, result, stage, network, buf, endp, rlen, cstate, out>>
       \/ length = 0 /\ Complete(out)

\* Mutant: all that is in the buffer is written.
ChunkBytesAll == Unread

\* How much of the buffer is data of this chunk.
ChunkBytes == Min2(Unread, length)

\* read_chunkblock: the data of a chunk.
ChunkBlock ==
    /\ phase = "parse" /\ func = "read_chunkblock"
    /\ LET bytes == ChunkBytes
           data == Data(bytes)
           gzip == reply[stage].gzip
       IN \/ gzip /\ bytes > 0 /\ ~Inflates(data) /\ Fail
          \/ /\ ~gzip \/ Inflates(data)
             /\ out' = IF gzip THEN Inflated(data) ELSE Written(data)
             /\ length' = LeftAfter(bytes)
             /\ \/ length' > 0 /\ More
                \/ /\ length' <= 0
                   /\ cstate' = "CS_START_CR" /\ func' = "read_file_chunked"
                   /\ \/ /\ endp > curp + bytes
                         /\ curp' = curp + bytes
                         /\ UNCHANGED <<phase, rlen>>
                      \/ /\ endp = curp + bytes
                         /\ phase' = "read"
                         /\ IF rlen = 0 THEN ResetBuf
                            ELSE curp' = curp + bytes /\ UNCHANGED rlen
                   /\ UNCHANGED <<result, stage, network, buf, endp>>

-----------------------------------------------------------------------------
Init ==
    /\ phase = "write" /\ result = "none" /\ stage = 1
    /\ setting \in Settings /\ reply \in [1 .. 2 -> setting.replies]
    /\ ~TwoStage => reply[1] = reply[2]
    /\ wire = <<>> /\ server = "sends" /\ pending = <<>>
    /\ buf = [i \in 0 .. Bufsize - 1 |-> "-"]
    /\ curp = 0 /\ endp = 0 /\ rlen = Bufsize /\ length = 0
    /\ cstate = "CS_NONE" /\ func = "none" /\ out = <<>>

Terminating == phase = "over" /\ UNCHANGED vars

Next ==
    \/ WriteRequest \/ RecvTcp \/ RecvTls \/ RecvNothing \/ Timeout \/ Cut
    \/ ReplyPartial \/ ReplyHeader \/ ReadFile \/ ReadUnsized \/ ReadGzip
    \/ ChunkEmpty \/ ChunkBad \/ ChunkStart \/ ChunkDigit \/ ChunkLineEnd
    \/ ChunkLine \/ ChunkBlock
    \/ Terminating

\* What was sent arrives, and a connection that stays silent times out.
Spec == Init /\ [][Next]_vars /\ WF_vars(Next)

-----------------------------------------------------------------------------
TypeOK ==
    /\ setting \in Settings
    /\ phase \in {"write", "read", "parse", "over"}
    /\ result \in {"none", "got", "failed"}
    /\ stage \in 1 .. 2 /\ reply \in [1 .. 2 -> setting.replies]
    /\ wire \in Seq(Tokens) /\ server \in {"sends", "silent", "closed"}
    /\ pending \in Seq(Tokens)
    /\ buf \in [0 .. Bufsize - 1 -> Tokens \cup {"-"}]
    /\ curp \in Nat /\ endp \in Nat /\ rlen \in Nat /\ length \in Int
    /\ cstate \in {"CS_NONE", "CS_START_CR", "CS_START_LF", "CS_DIGITS",
                   "CS_END_CR", "CS_END_LF"}
    /\ func \in {"none", "read_reply", "read_file", "read_file_unsized",
                 "read_file_gzip", "read_file_chunked", "read_chunkblock"}
    /\ out \in Seq(Tokens)

\* Types; and whatever can still arrive lands right behind the last byte that was
\* received, or at the start of an empty buffer, and fits to the end of it.
\* (After the end of the connection rlen may exceed the room: the last data is
\* then handled again without having been received.)
ReadsFit ==
    /\ TypeOK
    /\ endp <= Bufsize /\ curp <= endp
    /\ phase = "read" /\ ~(server = "closed" /\ wire = <<>> /\ pending = <<>>)
         => curp + rlen = Bufsize /\ curp \in {0, endp}

\* The file holds the body a server sent in whole, from its start: no segment, chunk
\* line or reuse of the connection makes it lose, repeat or add a byte.
FileIsBody ==
    ~setting.cuts /\ (phase # "over" \/ result = "got") =>
        Len(out) <= Len(Body) /\ out = Prefix(Body, Len(out))

\* A comic that counts as got has its whole body in the file.
GotWhole == ~setting.cuts /\ result = "got" => out = Body

\* A connection over which a whole reply was sent in time is not failed.
NoFalseFailure == ~setting.cuts => result # "failed"

\* Where the empty line of a reply is: the length of its header.
HeaderLength(r) ==
    CHOOSE h \in DOMAIN r.bytes : r.bytes[h] = "E" /\ \A i \in 1 .. h - 1 : r.bytes[i] # "E"

\* What of a reply may be in the buffer when a record of it is received: the
\* header; of a chunked one, which is read through, all that came before.
Kept(r) == IF r.chunked THEN Len(r.bytes) ELSE HeaderLength(r)
RecordsFit == \A s \in 1 .. 2 : Kept(reply[s]) + setting.maxRecord <= Bufsize

\* poll() watches the socket and not the TLS library, so no decrypted data may
\* be left there while the program waits, when a record fits behind what is kept.
PendingRead == RecordsFit /\ phase = "read" => pending = <<>>

\* The body ends: the comic is got or failed.
Finished == <>(result # "none")

\* A body with a Content-Length does end, even when the server closes before
\* it has sent all of it and stale data is handled in place of the rest.
SizedFinishes ==
    (\A s \in 1 .. 2 : BodyFunc(reply[s]) \in {"read_file", "read_file_gzip"})
        => Finished
=============================================================================
