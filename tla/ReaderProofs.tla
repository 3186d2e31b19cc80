---------------------------- MODULE ReaderProofs ----------------------------
(***************************************************************************)
(* What is proved about Reader.tla, whatever the buffer, the segments and  *)
(* the TLS records.  ReaderInv is about conn->buf and its offsets, for all *)
(* replies and connections.  SizedInv follows a whole reply with a         *)
(* Content-Length from the wire to the file.  What is read until the       *)
(* server closes, and chunks, are left to TLC.                             *)
(***************************************************************************)
EXTENDS Reader, TLAPS

\* Nothing will be received any more.
Ended == server = "closed" /\ wire = <<>> /\ pending = <<>>

\* The buffer holds tokens up to n.
Filled(n) == \A i \in 0 .. n - 1 : buf[i] \in Tokens

BufferInv ==
    /\ curp <= endp /\ endp <= Bufsize
    /\ phase = "parse" \/ (phase = "read" /\ func # "read_reply") => Filled(endp)
    /\ phase = "read" /\ func = "read_reply" => Filled(curp)
    /\ phase = "parse" /\ ~Ended => endp + rlen = Bufsize
    /\ phase = "read" /\ ~Ended => curp + rlen = Bufsize /\ curp \in {0, endp}
    /\ func = "read_chunkblock" => length > 0

ReaderInv == TypeOK /\ BufferInv

\* A reply with a Content-Length, sent as http.c expects it: a header that leaves
\* room in the buffer, then the body.
SizedReply(r) ==
    LET h == HeaderLength(r)
    IN /\ ~r.chunked /\ r.length = Len(r.body) /\ r.length > 0
       /\ h \in 1 .. Bufsize - 1 /\ Len(r.bytes) = h + r.length
       /\ r.bytes[1] = "S" /\ r.bytes[h] = "E"
       /\ \A i \in 1 .. h - 1 : r.bytes[i] # "E"
       /\ \A i \in 1 .. r.length : r.bytes[h + i] = r.body[i]

\* The servers send whole replies with a length, and one that closes is not asked
\* for more; MaxOut lets a file be observed to its end.
WholeSized ==
    /\ ~setting.cuts
    /\ \A s \in 1 .. 2 : SizedReply(reply[s]) /\ reply[s].length <= MaxOut
    /\ TwoStage /\ setting.reuse => ~reply[1].closes

\* The TLS library keeps nothing back, or is not there.
NothingHidden == ~setting.tls \/ RecordsFit

Sent == reply[stage].bytes
H == HeaderLength(reply[stage])
L == Len(Body)

\* The program has received g tokens of this reply: the rest is in the TLS library
\* and on the wire.
Consumed(g) ==
    /\ g \in 0 .. Len(Sent) /\ Len(pending) + Len(wire) = Len(Sent) - g
    /\ \A i \in 1 .. Len(pending) : pending[i] = Sent[g + i]
    /\ \A i \in 1 .. Len(wire) : wire[i] = Sent[g + Len(pending) + i]

\* The first n tokens of the reply are in the buffer.
Holds(n) == \A i \in 0 .. n - 1 : buf[i] = Sent[i + 1]

\* A file that holds the first k tokens of the body.
FirstOf(file, k) == Len(file) = k /\ \A i \in 1 .. k : file[i] = Body[i]

WriteInv ==
    phase = "write" => wire = <<>> /\ pending = <<>> /\ server = "sends" /\ out = <<>>

ServerInv ==
    phase \in {"read", "parse"} =>
        server = IF reply[stage].closes THEN "closed" ELSE "sends"

HeaderInv ==
    /\ phase = "read" /\ func = "read_reply" =>
         out = <<>> /\ curp < H /\ Consumed(curp) /\ Holds(curp)
    /\ phase = "parse" /\ func = "read_reply" => out = <<>> /\ Consumed(endp) /\ Holds(endp)

\* length says what is still to come of the body, and the file has the rest.
BodyInv ==
    LET k == L - length
    IN phase \in {"read", "parse"} /\ func # "read_reply" =>
         /\ func \in {"read_file", "read_file_gzip"}
         /\ length \in 1 .. L /\ FirstOf(out, k)
         /\ phase = "read" => curp <= H /\ Consumed(H + k)
         /\ phase = "parse" =>
              /\ Unread > 0 /\ Consumed(H + k + Unread)
              /\ \A i \in 0 .. Unread - 1 : buf[curp + i] = Body[k + i + 1]

ResultInv ==
    /\ phase # "over" => result = "none"
    /\ result = "got" => out = Body
    /\ NothingHidden => result # "failed"
    /\ NothingHidden => pending = <<>>
    /\ ~setting.tls => pending = <<>>

SizedInv == WriteInv /\ ServerInv /\ HeaderInv /\ BodyInv /\ ResultInv

-----------------------------------------------------------------------------
(* The operators.                                                          *)

LEMMA Types ==
    ASSUME TypeOK
    PROVE  /\ setting \in Setting /\ Bufsize \in Nat \ {0} /\ MaxOut \in Nat
           /\ setting.maxRecord \in Nat \ {0}
           /\ \A s \in 1 .. 2 : reply[s] \in Reply
           /\ reply[stage] \in Reply /\ Body \in Seq(Tokens)
           /\ reply[stage].bytes \in Seq(Tokens) /\ reply[stage].length \in Nat
<1>1. setting \in Setting /\ reply \in [1 .. 2 -> setting.replies] /\ stage \in 1 .. 2
  BY ReaderAssumption DEF TypeOK
<1>2. setting.replies \subseteq Reply /\ setting.bufsize \in Nat \ {0}
      /\ setting.maxRecord \in Nat \ {0}
  BY <1>1 DEF Setting
<1>3. \A s \in 1 .. 2 : reply[s] \in Reply
  BY <1>1, <1>2
<1>. QED
  BY <1>1, <1>2, <1>3, ReaderAssumption DEF Bufsize, Body, Reply

LEMMA Pieces ==
    ASSUME NEW S, NEW s \in Seq(S)
    PROVE  /\ \A n \in Int : n <= Len(s) => Prefix(s, n) \in Seq(S)
           /\ \A n \in 0 .. Len(s) : Len(Prefix(s, n)) = n /\ Rest(s, n) \in Seq(S)
           /\ \A n, m \in 0 .. Len(s) : n <= m => SubSeq(s, n + 1, m) \in Seq(S)
<1>1. ASSUME NEW n \in Int, n <= Len(s)
      PROVE  Prefix(s, n) \in Seq(S)
  BY <1>1 DEF Prefix
<1>2. ASSUME NEW n \in 0 .. Len(s)
      PROVE  Len(Prefix(s, n)) = n /\ Rest(s, n) \in Seq(S)
  BY <1>2 DEF Prefix, Rest
<1>3. ASSUME NEW n \in 0 .. Len(s), NEW m \in 0 .. Len(s), n <= m
      PROVE  SubSeq(s, n + 1, m) \in Seq(S)
  BY <1>3
<1>. QED
  BY <1>1, <1>2, <1>3

LEMMA DataType ==
    ASSUME TypeOK, NEW n \in Int, \A i \in 0 .. curp + n - 1 : buf[i] \in Tokens
    PROVE  /\ Data(n) \in Seq(Tokens)
           /\ n >= 0 => Len(Data(n)) = n
<1>1. \A i \in 1 .. n : buf[curp + i - 1] \in Tokens
  BY DEF TypeOK
<1>2. CASE n >= 0
  BY <1>1, <1>2 DEF Data
<1>3. CASE n < 0
  <2>1. Data(n) = <<>>
    BY <1>3 DEF Data
  <2>. QED
    BY <1>3, <2>1
<1>. QED
  BY <1>2, <1>3

LEMMA WrittenType ==
    ASSUME TypeOK, NEW data \in Seq(Tokens)
    PROVE  Written(data) \in Seq(Tokens) /\ Inflated(data) \in Seq(Tokens)
<1>1. out \in Seq(Tokens) /\ Body \in Seq(Tokens) /\ MaxOut \in Nat
  BY Types DEF TypeOK
<1>2. out \o data \in Seq(Tokens) /\ Len(out \o data) = Len(out) + Len(data)
  BY <1>1
<1>3. Min2(MaxOut, Len(out) + Len(data)) \in Int
      /\ Min2(MaxOut, Len(out) + Len(data)) <= Len(out \o data)
  BY <1>1, <1>2 DEF Min2
<1>4. Written(data) \in Seq(Tokens)
  BY <1>2, <1>3, Pieces DEF Written
<1>5. Wanted(data) \in Int /\ Wanted(data) <= Len(data)
  BY <1>1 DEF Wanted, Min2
<1>6. Prefix(data, Wanted(data)) \in Seq(Tokens)
  BY <1>5, Pieces
<1>. QED
  BY <1>1, <1>4, <1>6 DEF Inflated

-----------------------------------------------------------------------------
(* The invariant, by the actions.                                          *)

LEMMA InitReader == Init => ReaderInv
<1>. SUFFICES ASSUME Init PROVE ReaderInv
  OBVIOUS
<1>1. setting \in Setting /\ setting.bufsize \in Nat \ {0}
  BY ReaderAssumption DEF Init, Setting
<1>2. TypeOK
  BY <1>1 DEF Init, TypeOK, Bufsize
<1>3. BufferInv
  BY <1>1 DEF Init, BufferInv, Bufsize, Ended
<1>. QED
  BY <1>2, <1>3 DEF ReaderInv

LEMMA WriteRequestReader ==
    ASSUME ReaderInv, WriteRequest
    PROVE  ReaderInv'
<1>1. TypeOK /\ BufferInv /\ Bufsize \in Nat \ {0} /\ reply[stage].bytes \in Seq(Tokens)
  BY Types DEF ReaderInv
<1>2. Bufsize' = Bufsize
  BY DEF WriteRequest, Bufsize
<1>3. TypeOK'
  BY <1>1, <1>2 DEF WriteRequest, TypeOK
<1>4. BufferInv'
  BY <1>1, <1>2 DEF WriteRequest, BufferInv, Filled, Ended, TypeOK
<1>. QED
  BY <1>3, <1>4 DEF ReaderInv

\* recv and SSL_read put what they receive behind the data, or at the start.
LEMMA ReceiveReader ==
    ASSUME ReaderInv, phase = "read", ~Ended, NEW tokens \in Seq(Tokens),
           tokens # <<>>, Len(tokens) <= rlen, Receive(tokens),
           wire' \in Seq(Tokens), pending' \in Seq(Tokens),
           UNCHANGED <<result, stage, setting, reply, server, curp, length, cstate, func, out>>
    PROVE  ReaderInv'
<1>1. TypeOK /\ BufferInv /\ Bufsize \in Nat \ {0}
  BY Types DEF ReaderInv
<1>2. Bufsize' = Bufsize
  BY DEF Bufsize
<1>3. /\ curp \in Nat /\ endp \in Nat /\ rlen \in Nat /\ curp + rlen = Bufsize
      /\ curp \in {0, endp} /\ Len(tokens) \in Nat
  BY <1>1 DEF TypeOK, BufferInv
<1>4. buf' \in [0 .. Bufsize - 1 -> Tokens \cup {"-"}]
  <2>1. \A i \in 0 .. Bufsize - 1 : i \in curp .. curp + Len(tokens) - 1 =>
          tokens[i - curp + 1] \in Tokens
    BY <1>1, <1>3
  <2>2. buf \in [0 .. Bufsize - 1 -> Tokens \cup {"-"}]
    BY <1>1 DEF TypeOK
  <2>. QED
    BY <2>1, <2>2 DEF Receive
<1>5. TypeOK'
  BY SMTT(60), <1>1, <1>2, <1>3, <1>4 DEF TypeOK, Receive
<1>6. \A i \in 0 .. curp - 1 : buf[i] \in Tokens
  BY <1>1, <1>3 DEF BufferInv, Filled
<1>7. \A i \in 0 .. endp' - 1 : buf'[i] \in Tokens
  <2>1. SUFFICES ASSUME NEW i \in 0 .. endp' - 1 PROVE buf'[i] \in Tokens
    OBVIOUS
  <2>2. i \in 0 .. Bufsize - 1 /\ endp' = curp + Len(tokens)
    BY <1>1, <1>3, <2>1 DEF Receive
  <2>3. CASE i \in curp .. curp + Len(tokens) - 1
    <3>1. buf'[i] = tokens[i - curp + 1]
      BY <2>2, <2>3 DEF Receive
    <3>2. i - curp + 1 \in 1 .. Len(tokens)
      BY <1>3, <2>3
    <3>. QED
      BY <3>1, <3>2
  <2>4. CASE i \notin curp .. curp + Len(tokens) - 1
    <3>1. buf'[i] = buf[i]
      BY <2>2, <2>4 DEF Receive
    <3>2. i \in 0 .. curp - 1
      BY <1>3, <2>2, <2>4
    <3>. QED
      BY <1>6, <3>1, <3>2
  <2>. QED
    BY <2>3, <2>4
<1>8. /\ phase' = "parse" /\ curp' = curp /\ func' = func /\ length' = length
      /\ endp' = curp + Len(tokens) /\ endp' + rlen' = Bufsize
  BY <1>3 DEF Receive
<1>9. /\ curp' <= endp' /\ endp' <= Bufsize' /\ endp' + rlen' = Bufsize'
      /\ func' = "read_chunkblock" => length' > 0
  BY <1>1, <1>2, <1>3, <1>8 DEF BufferInv
<1>10. Filled(endp)'
  BY <1>7 DEF Filled
<1>11. BufferInv'
  BY <1>8, <1>9, <1>10 DEF BufferInv
<1>. QED
  BY <1>5, <1>11 DEF ReaderInv

LEMMA RecvTcpReader ==
    ASSUME ReaderInv, RecvTcp
    PROVE  ReaderInv'
<1>1. TypeOK
  BY DEF ReaderInv
<1>2. PICK n \in 1 .. RoomFor(Len(wire)) : Receive(Prefix(wire, n)) /\ wire' = Rest(wire, n)
  BY DEF RecvTcp
<1>3. /\ wire \in Seq(Tokens) /\ rlen \in Nat /\ n \in 0 .. Len(wire) /\ n <= rlen /\ n > 0
      /\ wire # <<>>
  BY <1>1 DEF TypeOK, RoomFor, Min2
<1>4. /\ Prefix(wire, n) \in Seq(Tokens) /\ Len(Prefix(wire, n)) = n
      /\ Rest(wire, n) \in Seq(Tokens)
  BY <1>3, Pieces
<1>5. Prefix(wire, n) # <<>> /\ ~Ended
  BY <1>3, <1>4 DEF Ended
<1>. QED
  BY <1>1, <1>2, <1>3, <1>4, <1>5, ReceiveReader DEF RecvTcp, TypeOK

LEMMA RecvTlsReader ==
    ASSUME ReaderInv, RecvTls
    PROVE  ReaderInv'
<1>1. TypeOK /\ setting.maxRecord \in Nat /\ rlen \in Nat /\ rlen > 0
      /\ wire \in Seq(Tokens) /\ pending \in Seq(Tokens)
  BY Types DEF ReaderInv, TypeOK, RecvTls
<1>2. CASE /\ pending # <<>> /\ UNCHANGED wire
           /\ LET n == RoomFor(Len(pending))
              IN Receive(Prefix(pending, n)) /\ pending' = Rest(pending, n)
  <2>. DEFINE n == RoomFor(Len(pending))
  <2>1. n \in 0 .. Len(pending) /\ n <= rlen /\ n > 0
    BY <1>1, <1>2 DEF RoomFor, Min2
  <2>. HIDE DEF n
  <2>2. /\ Prefix(pending, n) \in Seq(Tokens) /\ Len(Prefix(pending, n)) = n
        /\ Rest(pending, n) \in Seq(Tokens)
    BY <1>1, <2>1, Pieces
  <2>3. Prefix(pending, n) # <<>> /\ ~Ended
    BY <1>2, <2>1, <2>2 DEF Ended
  <2>4. Receive(Prefix(pending, n)) /\ pending' = Rest(pending, n)
    BY <1>2 DEF n
  <2>. QED
    BY <1>1, <1>2, <2>1, <2>2, <2>3, <2>4, ReceiveReader DEF RecvTls
<1>3. ASSUME NEW m \in 1 .. Min2(setting.maxRecord, Len(wire)),
             LET n == RoomFor(m)
             IN /\ Receive(Prefix(wire, n)) /\ pending' = SubSeq(wire, n + 1, m)
                /\ wire' = Rest(wire, m)
      PROVE  ReaderInv'
  <2>. DEFINE n == RoomFor(m)
  <2>1. /\ m \in 0 .. Len(wire) /\ n \in 0 .. Len(wire) /\ n <= m /\ n <= rlen /\ n > 0
        /\ wire # <<>>
    BY <1>1, <1>3 DEF RoomFor, Min2
  <2>2. Receive(Prefix(wire, n)) /\ pending' = SubSeq(wire, n + 1, m) /\ wire' = Rest(wire, m)
    BY <1>3
  <2>. HIDE DEF n
  <2>3. /\ Prefix(wire, n) \in Seq(Tokens) /\ Len(Prefix(wire, n)) = n
        /\ Rest(wire, m) \in Seq(Tokens) /\ SubSeq(wire, n + 1, m) \in Seq(Tokens)
    BY <1>1, <2>1, Pieces
  <2>4. Prefix(wire, n) # <<>> /\ ~Ended
    BY <2>1, <2>3 DEF Ended
  <2>. QED
    BY <1>1, <2>1, <2>2, <2>3, <2>4, ReceiveReader DEF RecvTls
<1>. QED
  BY <1>2, <1>3 DEF RecvTls

LEMMA FailReader ==
    ASSUME ReaderInv, Fail
    PROVE  ReaderInv'
BY DEF ReaderInv, Fail, TypeOK, BufferInv, Bufsize, Body, Filled, buffer

LEMMA RecvNothingReader ==
    ASSUME ReaderInv, RecvNothing
    PROVE  ReaderInv'
<1>1. CASE Fail
  BY <1>1, FailReader
<1>2. CASE /\ func # "read_reply" /\ phase' = "parse"
           /\ UNCHANGED <<result, stage, network, buffer, length, cstate, func, out>>
  <2>1. TypeOK' /\ Bufsize' = Bufsize /\ Ended' = Ended
    BY <1>2 DEF ReaderInv, TypeOK, network, buffer, Bufsize, Ended
  <2>2. ~Ended => endp + rlen = Bufsize
    BY Types DEF ReaderInv, BufferInv, TypeOK, RecvNothing, Ended
  <2>3. BufferInv'
    BY <1>2, <2>1, <2>2 DEF ReaderInv, BufferInv, RecvNothing, network, buffer, Filled
  <2>. QED
    BY <2>1, <2>3 DEF ReaderInv
<1>. QED
  BY <1>1, <1>2 DEF RecvNothing

LEMMA CutReader ==
    ASSUME ReaderInv, Cut
    PROVE  ReaderInv'
<1>1. PICK n \in 0 .. Len(wire) : wire' = Prefix(wire, n)
  BY DEF Cut
<1>2. wire \in Seq(Tokens) /\ wire' \in Seq(Tokens) /\ ~Ended /\ Bufsize' = Bufsize
  BY <1>1, Pieces DEF ReaderInv, TypeOK, Cut, Ended, Bufsize
<1>3. TypeOK'
  BY <1>2 DEF ReaderInv, TypeOK, Cut, buffer, Bufsize
<1>4. BufferInv'
  BY <1>2 DEF ReaderInv, BufferInv, Cut, buffer, Filled
<1>. QED
  BY <1>3, <1>4 DEF ReaderInv

LEMMA TimeoutReader ==
    ASSUME ReaderInv, Timeout
    PROVE  ReaderInv'
BY FailReader DEF Timeout

\* Waiting for more in an empty buffer keeps what the buffer promises.
LEMMA MoreReader ==
    ASSUME ReaderInv, phase = "parse", func # "read_reply", More,
           out' \in Seq(Tokens), length' \in Int, func = "read_chunkblock" => length' > 0
    PROVE  ReaderInv'
<1>1. TypeOK /\ BufferInv /\ Bufsize \in Nat \ {0}
  BY Types DEF ReaderInv
<1>2. /\ Bufsize' = Bufsize /\ curp' = 0 /\ rlen' = Bufsize /\ phase' = "read"
      /\ endp' = endp /\ buf' = buf /\ func' = func /\ setting' = setting
  BY DEF More, ResetBuf, network, Bufsize
<1>3. TypeOK'
  BY <1>1, <1>2 DEF More, network, TypeOK
<1>4. BufferInv'
  BY <1>1, <1>2 DEF BufferInv, Filled, TypeOK
<1>. QED
  BY <1>3, <1>4 DEF ReaderInv

LEMMA CompleteReader ==
    ASSUME ReaderInv, NEW file \in Seq(Tokens), Complete(file), func # "read_chunkblock",
           curp' \in Nat, curp' <= endp, length' \in Int
    PROVE  ReaderInv'
<1>1. TypeOK /\ BufferInv
  BY DEF ReaderInv
<1>2. /\ Bufsize' = Bufsize /\ endp' = endp /\ rlen' = rlen /\ buf' = buf /\ func' = func
      /\ cstate' = cstate /\ setting' = setting /\ reply' = reply
  BY DEF Complete, Bufsize
<1>3. phase' \in {"write", "over"} /\ result' \in {"none", "got", "failed"} /\ stage' \in 1 .. 2
  BY <1>1 DEF Complete, TypeOK
<1>4. /\ out' = <<>> \/ out' = file
      /\ wire' = <<>> \/ wire' = wire
      /\ pending' = <<>> \/ pending' = pending
      /\ server' = "sends" \/ server' = server
  BY DEF Complete
<1>5. /\ out' \in Seq(Tokens) /\ wire' \in Seq(Tokens) /\ pending' \in Seq(Tokens)
      /\ server' \in {"sends", "silent", "closed"}
  <2>1. <<>> \in Seq(Tokens)
    OBVIOUS
  <2>. QED
    BY <1>1, <1>4, <2>1 DEF TypeOK
<1>6. TypeOK'
  BY <1>1, <1>2, <1>3, <1>5 DEF TypeOK
<1>7. BufferInv'
  BY <1>1, <1>2, <1>3 DEF BufferInv
<1>. QED
  BY <1>6, <1>7 DEF ReaderInv

LEMMA ReplyPartialReader ==
    ASSUME ReaderInv, ReplyPartial
    PROVE  ReaderInv'
<1>1. CASE Fail
  BY <1>1, FailReader
<1>2. CASE /\ rlen > 0 /\ curp' = endp /\ phase' = "read"
           /\ UNCHANGED <<result, stage, network, buf, endp, rlen, length, cstate, func, out>>
  <2>1. TypeOK' /\ Bufsize' = Bufsize /\ Ended' = Ended
    BY <1>2 DEF ReaderInv, TypeOK, network, Bufsize, Ended
  <2>2. BufferInv'
    BY <1>2, <2>1 DEF ReaderInv, BufferInv, TypeOK, ReplyPartial, Filled
  <2>. QED
    BY <2>1, <2>2 DEF ReaderInv
<1>. QED
  BY <1>1, <1>2 DEF ReplyPartial

LEMMA ReplyHeaderReader ==
    ASSUME ReaderInv, ReplyHeader
    PROVE  ReaderInv'
<1>1. CASE Fail
  BY <1>1, FailReader
<1>2. CASE ~Fail
  <2>1. TypeOK /\ BufferInv /\ reply[stage] \in Reply
    BY Types DEF ReaderInv
  <2>2. PICK p \in HeaderEnds : curp' = p + 1 /\ phase' = IF p + 1 < endp THEN "parse" ELSE "read"
    BY <1>2 DEF ReplyHeader
  <2>3. p \in Nat /\ p < endp /\ endp \in Nat
    BY <2>1, <2>2 DEF HeaderEnds, TypeOK
  <2>4. /\ UNCHANGED <<result, stage, network, buf, endp, rlen, out>>
        /\ func' = BodyFunc(reply[stage]) /\ cstate' = "CS_DIGITS"
        /\ length' = IF reply[stage].chunked THEN 0 ELSE reply[stage].length
    BY <1>2 DEF ReplyHeader
  <2>5. func' \in {"read_file", "read_file_unsized", "read_file_gzip", "read_file_chunked"}
    BY <2>4 DEF BodyFunc
  <2>6. length' \in Int
    BY <2>1, <2>4, Types
  <2>7. Bufsize' = Bufsize /\ Ended' = Ended
    BY <2>4 DEF network, Bufsize, Ended
  <2>8. TypeOK'
    BY <2>1, <2>2, <2>3, <2>4, <2>5, <2>6, <2>7 DEF TypeOK, network
  <2>9. /\ Filled(endp) /\ endp <= Bufsize
        /\ ~Ended => endp + rlen = Bufsize
        /\ endp' = endp /\ rlen' = rlen /\ buf' = buf
    BY <2>1, <2>4 DEF BufferInv, ReplyHeader
  <2>10. Filled(endp)' /\ endp' <= Bufsize'
    BY <2>7, <2>9 DEF Filled
  <2>11. \/ phase' = "parse" /\ curp' <= endp'
         \/ phase' = "read" /\ curp' = endp'
    <3>1. CASE p + 1 < endp
      BY <2>2, <2>3, <2>9, <3>1
    <3>2. CASE p + 1 = endp
      BY <2>2, <2>3, <2>9, <3>2
    <3>. QED
      BY <2>3, <3>1, <3>2
  <2>12. curp' <= endp'
    BY <2>3, <2>9, <2>11
  <2>13. ~Ended' => endp' + rlen' = Bufsize'
    BY <2>7, <2>9
  <2>14. BufferInv'
    <3>1. CASE phase' = "parse"
      BY <2>5, <2>10, <2>12, <2>13, <3>1 DEF BufferInv
    <3>2. CASE phase' = "read" /\ curp' = endp'
      BY <2>5, <2>10, <2>12, <2>13, <3>2 DEF BufferInv
    <3>. QED
      BY <2>11, <3>1, <3>2
  <2>. QED
    BY <2>8, <2>14 DEF ReaderInv
<1>. QED
  BY <1>1, <1>2

\* What the functions of a body hand to the file.
LEMMA UnreadData ==
    ASSUME ReaderInv, phase = "parse"
    PROVE  /\ Unread \in Nat /\ Data(Unread) \in Seq(Tokens)
           /\ Written(Data(Unread)) \in Seq(Tokens) /\ Inflated(Data(Unread)) \in Seq(Tokens)
<1>1. TypeOK /\ Unread \in Nat /\ curp \in Nat /\ endp \in Nat
  BY DEF ReaderInv, TypeOK, BufferInv, Unread
<1>2. \A i \in 0 .. curp + Unread - 1 : buf[i] \in Tokens
  BY <1>1 DEF ReaderInv, BufferInv, Filled, Unread
<1>3. Data(Unread) \in Seq(Tokens)
  BY <1>1, <1>2, DataType
<1>. QED
  BY <1>1, <1>3, WrittenType

LEMMA ReadFileReader ==
    ASSUME ReaderInv, ReadFile
    PROVE  ReaderInv'
<1>1. /\ Unread \in Nat /\ Written(Data(Unread)) \in Seq(Tokens) /\ length \in Int
      /\ curp \in Nat /\ curp <= endp
  BY UnreadData DEF ReadFile, ReaderInv, TypeOK, BufferInv
<1>2. CASE Fail
  BY <1>2, FailReader
<1>3. CASE length' = LeftAfter(Unread) /\ Complete(Written(Data(Unread))) /\ UNCHANGED curp
  BY <1>1, <1>3, CompleteReader DEF ReadFile, LeftAfter
<1>4. CASE length' = LeftAfter(Unread) /\ length' > 0 /\ out' = Written(Data(Unread)) /\ More
  BY <1>1, <1>4, MoreReader DEF ReadFile, LeftAfter
<1>. QED
  BY <1>2, <1>3, <1>4 DEF ReadFile

LEMMA ReadUnsizedReader ==
    ASSUME ReaderInv, ReadUnsized
    PROVE  ReaderInv'
<1>1. /\ Unread \in Nat /\ Written(Data(Unread)) \in Seq(Tokens) /\ length \in Int
      /\ out \in Seq(Tokens) /\ curp \in Nat /\ curp <= endp
  BY UnreadData DEF ReadUnsized, ReaderInv, TypeOK, BufferInv
<1>2. CASE Complete(out) /\ UNCHANGED curp
  BY <1>1, <1>2, CompleteReader DEF ReadUnsized
<1>3. CASE out' = Written(Data(Unread)) /\ More
  BY <1>1, <1>3, MoreReader DEF ReadUnsized
<1>. QED
  BY <1>2, <1>3 DEF ReadUnsized

LEMMA ReadGzipReader ==
    ASSUME ReaderInv, ReadGzip
    PROVE  ReaderInv'
<1>1. /\ Unread \in Nat /\ Inflated(Data(Unread)) \in Seq(Tokens) /\ length \in Int
      /\ curp \in Nat /\ curp <= endp
  BY UnreadData DEF ReadGzip, ReaderInv, TypeOK, BufferInv
<1>2. CASE Fail
  BY <1>2, FailReader
<1>3. CASE length' = LeftAfter(Unread) /\ Complete(Inflated(Data(Unread))) /\ UNCHANGED curp
  BY <1>1, <1>3, CompleteReader DEF ReadGzip, LeftAfter
<1>4. CASE length' = LeftAfter(Unread) /\ length' > 0 /\ out' = Inflated(Data(Unread)) /\ More
  BY <1>1, <1>4, MoreReader DEF ReadGzip, LeftAfter
<1>. QED
  BY <1>2, <1>3, <1>4 DEF ReadGzip

\* A step over one byte of a chunk line.
LEMMA IncCurpReader ==
    ASSUME ReaderInv, Chunking, curp < endp, IncCurp, length' \in Int,
           cstate' \in {"CS_START_CR", "CS_START_LF", "CS_DIGITS", "CS_END_CR", "CS_END_LF"}
    PROVE  ReaderInv'
<1>1. TypeOK /\ BufferInv
  BY DEF ReaderInv
<1>2. /\ Bufsize' = Bufsize /\ Ended' = Ended /\ endp' = endp /\ rlen' = rlen /\ buf' = buf
      /\ func' = func /\ curp' = curp + 1 /\ curp \in Nat /\ endp \in Nat
      /\ phase' \in {"read", "parse"} /\ (phase' = "read" => curp' = endp)
  BY <1>1 DEF IncCurp, network, Bufsize, Ended, TypeOK
<1>3. TypeOK'
  BY <1>1, <1>2 DEF IncCurp, network, TypeOK
<1>4. /\ phase = "parse" /\ func = "read_file_chunked" /\ Filled(endp) /\ endp <= Bufsize
      /\ ~Ended => endp + rlen = Bufsize
  BY <1>1 DEF BufferInv, Chunking
<1>5. curp' <= endp' /\ endp' <= Bufsize' /\ Filled(endp)'
  BY <1>2, <1>4 DEF Filled
<1>6. BufferInv'
  BY <1>2, <1>4, <1>5 DEF BufferInv
<1>. QED
  BY <1>3, <1>6 DEF ReaderInv

LEMMA ChunkLinesReader ==
    ASSUME ReaderInv, ChunkStart \/ ChunkDigit \/ ChunkLineEnd
    PROVE  ReaderInv'
<1>1. TypeOK /\ BufferInv /\ length \in Int
  BY DEF ReaderInv, TypeOK
<1>2. CASE ChunkStart
  BY <1>1, <1>2, IncCurpReader DEF ChunkStart
<1>3. CASE ChunkLineEnd
  BY <1>1, <1>3, IncCurpReader DEF ChunkLineEnd
<1>4. CASE ChunkDigit
  <2>1. ASSUME NEW i \in DOMAIN Digits, length' = length * 16 + i - 1, IncCurp, UNCHANGED cstate
        PROVE  ReaderInv'
    <3>1. length' \in Int
      BY <1>1, <2>1 DEF Digits
    <3>. QED
      BY <1>4, <2>1, <3>1, IncCurpReader DEF ChunkDigit
  <2>2. CASE /\ cstate' = "CS_END_CR"
             /\ UNCHANGED <<phase, result, stage, network, buffer, length, func, out>>
    <3>1. TypeOK' /\ Bufsize' = Bufsize /\ Ended' = Ended
      BY <1>1, <2>2 DEF TypeOK, network, buffer, Bufsize, Ended
    <3>2. BufferInv'
      BY <1>1, <2>2, <3>1 DEF BufferInv, network, buffer, Filled
    <3>. QED
      BY <3>1, <3>2 DEF ReaderInv
  <2>. QED
    BY <1>4, <2>1, <2>2 DEF ChunkDigit
<1>. QED
  BY <1>2, <1>3, <1>4

LEMMA ChunkLineReader ==
    ASSUME ReaderInv, ChunkLine
    PROVE  ReaderInv'
<1>1. /\ TypeOK /\ BufferInv /\ curp \in Nat /\ endp \in Nat /\ length \in Int
      /\ out \in Seq(Tokens)
  BY DEF ReaderInv, TypeOK
<1>2. /\ curp' = curp + 1 /\ curp' \in Nat /\ curp' <= endp /\ length' = length
      /\ phase = "parse" /\ func = "read_file_chunked"
  BY <1>1 DEF ChunkLine, Chunking
<1>3. CASE Complete(out)
  BY <1>1, <1>2, <1>3, CompleteReader
<1>4. CASE /\ length > 0 /\ func' = "read_chunkblock"
           /\ UNCHANGED <<phase, result, stage, network, buf, endp, rlen, cstate, out>>
  <2>1. TypeOK' /\ Bufsize' = Bufsize /\ Ended' = Ended
    BY <1>1, <1>2, <1>4 DEF TypeOK, network, Bufsize, Ended
  <2>2. BufferInv'
    BY <1>1, <1>2, <1>4, <2>1 DEF BufferInv, Filled
  <2>. QED
    BY <2>1, <2>2 DEF ReaderInv
<1>. QED
  BY <1>3, <1>4 DEF ChunkLine

LEMMA ChunkBlockReader ==
    ASSUME ReaderInv, ChunkBlock
    PROVE  ReaderInv'
<1>. DEFINE bytes == ChunkBytes
            data == Data(bytes)
<1>1. /\ TypeOK /\ BufferInv /\ curp \in Nat /\ endp \in Nat /\ rlen \in Nat
      /\ length \in Int /\ length > 0 /\ curp <= endp
      /\ phase = "parse" /\ func = "read_chunkblock"
  BY DEF ReaderInv, TypeOK, BufferInv, ChunkBlock
<1>2. bytes \in Nat /\ curp + bytes <= endp /\ bytes <= length
  BY <1>1 DEF ChunkBytes, Min2, Unread
<1>. HIDE DEF bytes
<1>3. \A i \in 0 .. curp + bytes - 1 : buf[i] \in Tokens
  BY <1>1, <1>2 DEF BufferInv, Filled
<1>4. data \in Seq(Tokens)
  BY <1>1, <1>2, <1>3, DataType
<1>. HIDE DEF data
<1>5. Written(data) \in Seq(Tokens) /\ Inflated(data) \in Seq(Tokens)
  BY <1>1, <1>4, WrittenType
<1>6. CASE Fail
  BY <1>6, FailReader
<1>7. CASE ~Fail
  <2>1. /\ out' = (IF reply[stage].gzip THEN Inflated(data) ELSE Written(data))
        /\ length' = LeftAfter(bytes)
        /\ \/ length' > 0 /\ More
           \/ /\ length' <= 0
              /\ cstate' = "CS_START_CR" /\ func' = "read_file_chunked"
              /\ \/ endp > curp + bytes /\ curp' = curp + bytes /\ UNCHANGED <<phase, rlen>>
                 \/ /\ endp = curp + bytes /\ phase' = "read"
                    /\ IF rlen = 0 THEN ResetBuf
                       ELSE curp' = curp + bytes /\ UNCHANGED rlen
              /\ UNCHANGED <<result, stage, network, buf, endp>>
    BY <1>7 DEF ChunkBlock, bytes, data
  <2>2. out' \in Seq(Tokens) /\ length' \in Int
    BY <1>1, <1>2, <1>5, <2>1 DEF LeftAfter
  <2>3. CASE length' > 0 /\ More
    BY <1>1, <2>2, <2>3, MoreReader
  <2>4. CASE length' <= 0
    <3>1. /\ cstate' = "CS_START_CR" /\ func' = "read_file_chunked"
          /\ UNCHANGED <<result, stage, network, buf, endp>>
      BY <1>1, <2>1, <2>2, <2>4 DEF More
    <3>2. Bufsize' = Bufsize /\ Ended' = Ended /\ Bufsize \in Nat \ {0}
      BY <1>1, <3>1, Types DEF network, Bufsize, Ended
    <3>3. CASE endp > curp + bytes /\ curp' = curp + bytes /\ UNCHANGED <<phase, rlen>>
      <4>1. TypeOK'
        BY <1>1, <1>2, <2>2, <3>1, <3>2, <3>3 DEF TypeOK, network
      <4>2. BufferInv'
        BY <1>1, <1>2, <3>1, <3>2, <3>3 DEF BufferInv, Filled
      <4>. QED
        BY <4>1, <4>2 DEF ReaderInv
    <3>4. CASE /\ endp = curp + bytes /\ phase' = "read"
               /\ IF rlen = 0 THEN ResetBuf ELSE curp' = curp + bytes /\ UNCHANGED rlen
      <4>1. /\ curp' \in {0, endp} /\ rlen' \in Nat /\ curp' <= endp
            /\ ~Ended => curp' + rlen' = Bufsize
        BY <1>1, <1>2, <3>2, <3>4 DEF ResetBuf, BufferInv
      <4>2. TypeOK'
        BY <1>1, <1>2, <2>2, <3>1, <3>2, <3>4, <4>1 DEF TypeOK, network
      <4>3. BufferInv'
        BY <1>1, <1>2, <3>1, <3>2, <3>4, <4>1 DEF BufferInv, Filled
      <4>. QED
        BY <4>2, <4>3 DEF ReaderInv
    <3>. QED
      BY <1>1, <2>1, <2>2, <2>4, <3>3, <3>4
  <2>. QED
    BY <2>1, <2>2, <2>3, <2>4
<1>. QED
  BY <1>6, <1>7

-----------------------------------------------------------------------------
(* The theorems.                                                           *)

LEMMA NextReader ==
    ASSUME ReaderInv, [Next]_vars
    PROVE  ReaderInv'
<1>1. CASE UNCHANGED vars
  BY <1>1 DEF vars, ReaderInv, TypeOK, BufferInv, Filled, Ended, Bufsize
<1>2. CASE WriteRequest
  BY <1>2, WriteRequestReader
<1>3. CASE RecvTcp
  BY <1>3, RecvTcpReader
<1>4. CASE RecvTls
  BY <1>4, RecvTlsReader
<1>5. CASE RecvNothing
  BY <1>5, RecvNothingReader
<1>6. CASE Timeout
  BY <1>6, TimeoutReader
<1>7. CASE Cut
  BY <1>7, CutReader
<1>8. CASE ReplyPartial
  BY <1>8, ReplyPartialReader
<1>9. CASE ReplyHeader
  BY <1>9, ReplyHeaderReader
<1>10. CASE ReadFile
  BY <1>10, ReadFileReader
<1>11. CASE ReadUnsized
  BY <1>11, ReadUnsizedReader
<1>12. CASE ReadGzip
  BY <1>12, ReadGzipReader
<1>13. CASE ChunkEmpty \/ ChunkBad
  BY <1>13, FailReader DEF ChunkEmpty, ChunkBad
<1>14. CASE ChunkStart \/ ChunkDigit \/ ChunkLineEnd
  BY <1>14, ChunkLinesReader
<1>15. CASE ChunkLine
  BY <1>15, ChunkLineReader
<1>16. CASE ChunkBlock
  BY <1>16, ChunkBlockReader
<1>17. CASE Terminating
  BY <1>1, <1>17 DEF Terminating
<1>. QED
  BY <1>1, <1>2, <1>3, <1>4, <1>5, <1>6, <1>7, <1>8, <1>9, <1>10, <1>11, <1>12, <1>13, <1>14,
     <1>15, <1>16, <1>17 DEF Next

\* The buffer is sound in every reachable state: types, and what BufferInv says of
\* the offsets, the room and the tokens of http.c's conn->buf.
THEOREM ReaderInductive == Spec => []ReaderInv
<1>1. ReaderInv /\ [Next]_vars => ReaderInv'
  BY NextReader
<1>. QED
  BY InitReader, <1>1, PTL DEF Spec

\* Whatever arrives next lands behind the data that is there, or at the start, and
\* fits: read_conn never writes past conn->buf, for every buffer size, every way
\* the bytes are cut into segments and TLS records, every reply and every early end.
THEOREM ReaderReadsFit == Spec => []ReadsFit
<1>1. ReaderInv => ReadsFit
  BY DEF ReaderInv, BufferInv, ReadsFit, Ended
<1>. QED
  BY <1>1, ReaderInductive, PTL

-----------------------------------------------------------------------------
(* Whole replies with a Content-Length.                                    *)

LEMMA SizedFacts ==
    ASSUME ReaderInv, WholeSized
    PROVE  /\ Sent \in Seq(Tokens) /\ Body \in Seq(Tokens) /\ wire \in Seq(Tokens)
           /\ pending \in Seq(Tokens) /\ out \in Seq(Tokens) /\ MaxOut \in Nat
           /\ L \in Nat /\ L > 0 /\ L <= MaxOut /\ Bufsize \in Nat \ {0}
           /\ H \in 1 .. Bufsize - 1 /\ Len(Sent) = H + L
           /\ Sent[1] = "S" /\ Sent[H] = "E" /\ (\A i \in 1 .. H - 1 : Sent[i] # "E")
           /\ \A i \in 1 .. L : Sent[H + i] = Body[i]
           /\ ~reply[stage].chunked /\ reply[stage].length = L
           /\ BodyFunc(reply[stage]) \in {"read_file", "read_file_gzip"}
           /\ curp \in Nat /\ endp \in Nat /\ rlen \in Nat /\ length \in Int
<1>1. TypeOK
  BY DEF ReaderInv
<1>2. stage \in 1 .. 2
  BY <1>1 DEF TypeOK
<1>3. SizedReply(reply[stage]) /\ reply[stage].length <= MaxOut
  BY <1>2 DEF WholeSized
<1>4. /\ ~reply[stage].chunked /\ reply[stage].length = L /\ L > 0 /\ L <= MaxOut
      /\ H \in 1 .. Bufsize - 1 /\ Len(Sent) = H + L
      /\ Sent[1] = "S" /\ Sent[H] = "E" /\ (\A i \in 1 .. H - 1 : Sent[i] # "E")
      /\ \A i \in 1 .. L : Sent[H + i] = Body[i]
  BY <1>3 DEF SizedReply, Sent, H, L, Body
<1>5. BodyFunc(reply[stage]) \in {"read_file", "read_file_gzip"}
  BY <1>4 DEF BodyFunc
<1>6. Sent \in Seq(Tokens) /\ Body \in Seq(Tokens) /\ MaxOut \in Nat /\ Bufsize \in Nat \ {0}
  BY <1>1, Types DEF Sent
<1>7. L \in Nat
  BY <1>6 DEF L
<1>. QED
  BY <1>1, <1>4, <1>5, <1>6, <1>7 DEF TypeOK

\* What the invariant speaks of is fixed while a reply is read.
LEMMA SameReply ==
    ASSUME UNCHANGED <<setting, reply, stage>>
    PROVE  /\ Bufsize' = Bufsize /\ Sent' = Sent /\ H' = H /\ L' = L /\ Body' = Body
           /\ reply[stage]' = reply[stage] /\ NothingHidden' = NothingHidden
BY DEF Bufsize, Sent, H, L, Body, NothingHidden, RecordsFit, Kept, HeaderLength

LEMMA SplitAt ==
    ASSUME NEW s \in Seq(Tokens), NEW n \in 1 .. Len(s)
    PROVE  /\ Prefix(s, n) \in Seq(Tokens) /\ Len(Prefix(s, n)) = n
           /\ \A i \in 1 .. n : Prefix(s, n)[i] = s[i]
           /\ Len(Rest(s, n)) = Len(s) - n
           /\ \A i \in 1 .. Len(s) - n : Rest(s, n)[i] = s[n + i]
<1>1. /\ Prefix(s, n) \in Seq(Tokens) /\ Len(Prefix(s, n)) = n
      /\ \A i \in 1 .. n : Prefix(s, n)[i] = s[i]
  BY DEF Prefix
<1>2. /\ Len(Rest(s, n)) = Len(s) - n
      /\ \A i \in 1 .. Len(s) - n : Rest(s, n)[i] = s[n + i]
  BY DEF Rest
<1>. QED
  BY <1>1, <1>2

LEMMA Middle ==
    ASSUME NEW s \in Seq(Tokens), NEW m \in 1 .. Len(s), NEW n \in 1 .. m
    PROVE  /\ Len(SubSeq(s, n + 1, m)) = m - n
           /\ \A i \in 1 .. m - n : SubSeq(s, n + 1, m)[i] = s[n + i]
OBVIOUS

LEMMA ReceiveTokens ==
    ASSUME ReaderInv, phase = "read", ~Ended, NEW tokens \in Seq(Tokens),
           Len(tokens) <= rlen, Receive(tokens)
    PROVE  /\ endp' = curp + Len(tokens) /\ phase' = "parse"
           /\ \A i \in 1 .. Len(tokens) : buf'[curp + i - 1] = tokens[i]
           /\ \A i \in 0 .. curp - 1 : buf'[i] = buf[i]
<1>1. curp \in Nat /\ rlen \in Nat /\ Bufsize \in Nat /\ curp + rlen = Bufsize
  BY Types DEF ReaderInv, TypeOK, BufferInv
<1>2. \A i \in 0 .. Bufsize - 1 :
        buf'[i] = IF i \in curp .. curp + Len(tokens) - 1 THEN tokens[i - curp + 1] ELSE buf[i]
  BY DEF Receive
<1>3. ASSUME NEW i \in 1 .. Len(tokens)
      PROVE  buf'[curp + i - 1] = tokens[i]
  <2>1. curp + i - 1 \in 0 .. Bufsize - 1 /\ curp + i - 1 \in curp .. curp + Len(tokens) - 1
    BY <1>1
  <2>2. (curp + i - 1) - curp + 1 = i
    BY <1>1
  <2>. QED
    BY <1>2, <2>1, <2>2
<1>4. ASSUME NEW i \in 0 .. curp - 1
      PROVE  buf'[i] = buf[i]
  <2>1. i \in 0 .. Bufsize - 1 /\ i \notin curp .. curp + Len(tokens) - 1
    BY <1>1
  <2>. QED
    BY <1>2, <2>1
<1>. QED
  BY <1>3, <1>4 DEF Receive

\* Whatever arrives next is the next piece of the reply.
LEMMA Arrives ==
    ASSUME ReaderInv, WholeSized, phase = "read", NEW g, Consumed(g), RecvTcp \/ RecvTls,
           ~setting.tls => pending = <<>>
    PROVE  /\ \E n \in 1 .. Len(Sent) - g :
                /\ Consumed(g + n)' /\ endp' = curp + n
                /\ \A i \in 1 .. n : buf'[curp + i - 1] = Sent[g + i]
                /\ \A i \in 0 .. curp - 1 : buf'[i] = buf[i]
           /\ phase' = "parse"
           /\ UNCHANGED <<result, stage, setting, reply, server, curp, length, cstate, func, out>>
           /\ ~setting.tls => pending' = <<>>
           /\ pending = <<>> /\ setting.maxRecord <= rlen => pending' = <<>>
<1>1. /\ Sent \in Seq(Tokens) /\ wire \in Seq(Tokens) /\ pending \in Seq(Tokens)
      /\ rlen \in Nat /\ setting.maxRecord \in Nat \ {0} /\ curp \in Nat
      /\ g \in Nat /\ g <= Len(Sent) /\ Len(pending) + Len(wire) = Len(Sent) - g
      /\ Len(Sent) \in Nat /\ Len(wire) \in Nat /\ Len(pending) \in Nat
  <2>1. /\ Sent \in Seq(Tokens) /\ wire \in Seq(Tokens) /\ pending \in Seq(Tokens)
        /\ rlen \in Nat /\ curp \in Nat
    BY SizedFacts
  <2>2. setting.maxRecord \in Nat \ {0}
    BY Types DEF ReaderInv
  <2>3. Len(Sent) \in Nat
    BY <2>1
  <2>. QED
    BY <2>1, <2>2, <2>3 DEF Consumed
<1>2. /\ \A i \in 1 .. Len(pending) : pending[i] = Sent[g + i]
      /\ \A i \in 1 .. Len(wire) : wire[i] = Sent[g + Len(pending) + i]
  BY DEF Consumed
<1>3. UNCHANGED <<result, stage, setting, reply, server, curp, length, cstate, func, out>>
  BY DEF RecvTcp, RecvTls
<1>4. Sent' = Sent
  BY <1>3, SameReply
<1>. DEFINE Lands(tokens) ==
              /\ tokens \in Seq(Tokens) /\ tokens # <<>> /\ Len(tokens) <= rlen
              /\ Receive(tokens)
              /\ \A i \in 1 .. Len(tokens) : tokens[i] = Sent[g + i]
<1>5. ASSUME NEW tokens, NEW k \in Nat, Lands(tokens), Len(tokens) = k, ~Ended,
             k <= Len(Sent) - g, Consumed(g + k)'
      PROVE  /\ \E n \in 1 .. Len(Sent) - g :
                  /\ Consumed(g + n)' /\ endp' = curp + n
                  /\ \A i \in 1 .. n : buf'[curp + i - 1] = Sent[g + i]
                  /\ \A i \in 0 .. curp - 1 : buf'[i] = buf[i]
             /\ phase' = "parse"
  <2>1. /\ endp' = curp + Len(tokens) /\ phase' = "parse"
        /\ \A i \in 1 .. Len(tokens) : buf'[curp + i - 1] = tokens[i]
        /\ \A i \in 0 .. curp - 1 : buf'[i] = buf[i]
    BY <1>5, ReceiveTokens
  <2>2. k \in 1 .. Len(Sent) - g /\ \A i \in 1 .. k : tokens[i] = Sent[g + i]
    BY <1>1, <1>5
  <2>. QED
    BY <1>5, <2>1, <2>2
<1>. HIDE DEF Lands
<1>6. CASE RecvTcp
  <2>1. PICK n \in 1 .. RoomFor(Len(wire)) : Receive(Prefix(wire, n)) /\ wire' = Rest(wire, n)
    BY <1>6 DEF RecvTcp
  <2>2. n \in 1 .. Len(wire) /\ n <= rlen /\ pending = <<>> /\ pending' = <<>>
    BY <1>1, <1>6, <2>1 DEF RoomFor, Min2, RecvTcp
  <2>3. /\ Prefix(wire, n) \in Seq(Tokens) /\ Len(Prefix(wire, n)) = n
        /\ \A i \in 1 .. n : Prefix(wire, n)[i] = wire[i]
        /\ Len(Rest(wire, n)) = Len(wire) - n
        /\ \A i \in 1 .. Len(wire) - n : Rest(wire, n)[i] = wire[n + i]
    BY <1>1, <2>2, SplitAt
  <2>4. Lands(Prefix(wire, n)) /\ ~Ended
    BY <1>2, <1>1, <2>1, <2>2, <2>3 DEF Lands, Ended
  <2>5. Consumed(g + n)'
    BY <1>2, <1>1, <1>4, <2>1, <2>2, <2>3 DEF Consumed
  <2>. QED
    BY <1>1, <1>3, <1>5, <2>2, <2>3, <2>4, <2>5
<1>7. ASSUME RecvTls, pending # <<>>, UNCHANGED wire,
             LET n == RoomFor(Len(pending))
             IN Receive(Prefix(pending, n)) /\ pending' = Rest(pending, n)
      PROVE  /\ \E n \in 1 .. Len(Sent) - g :
                  /\ Consumed(g + n)' /\ endp' = curp + n
                  /\ \A i \in 1 .. n : buf'[curp + i - 1] = Sent[g + i]
                  /\ \A i \in 0 .. curp - 1 : buf'[i] = buf[i]
             /\ phase' = "parse"
  <2>1. PICK n \in 1 .. Len(pending) : n <= rlen /\ n = RoomFor(Len(pending))
    BY <1>1, <1>7 DEF RoomFor, Min2, RecvTls
  <2>2. Receive(Prefix(pending, n)) /\ pending' = Rest(pending, n)
    BY <1>7, <2>1
  <2>3. /\ Prefix(pending, n) \in Seq(Tokens) /\ Len(Prefix(pending, n)) = n
        /\ \A i \in 1 .. n : Prefix(pending, n)[i] = pending[i]
        /\ Len(Rest(pending, n)) = Len(pending) - n
        /\ \A i \in 1 .. Len(pending) - n : Rest(pending, n)[i] = pending[n + i]
    BY <1>1, <2>1, SplitAt
  <2>4. Lands(Prefix(pending, n)) /\ ~Ended
    <3>1. \A i \in 1 .. n : Prefix(pending, n)[i] = Sent[g + i]
      <4>1. \A i \in 1 .. n : i \in 1 .. Len(pending)
        BY <1>1, <2>1
      <4>. QED
        BY <1>2, <2>3, <4>1
    <3>2. Prefix(pending, n) # <<>>
      BY <2>1, <2>3
    <3>. QED
      BY <1>7, <2>1, <2>2, <2>3, <3>1, <3>2 DEF Lands, Ended
  <2>5. Consumed(g + n)'
    <3>1. g + n \in 0 .. Len(Sent) /\ Len(pending') + Len(wire') = Len(Sent) - (g + n)
      <4>1. Len(pending') = Len(pending) - n /\ wire' = wire
        BY <1>7, <2>2, <2>3
      <4>. QED
        BY SMTT(60), <1>1, <2>1, <4>1
    <3>2. \A i \in 1 .. Len(pending') : pending'[i] = Sent[g + n + i]
      <4>1. \A i \in 1 .. Len(pending) - n : n + i \in 1 .. Len(pending) /\ g + (n + i) = g + n + i
        BY <1>1, <2>1
      <4>2. \A i \in 1 .. Len(pending) - n : pending[n + i] = Sent[g + n + i]
        BY <1>2, <4>1
      <4>. QED
        BY <2>2, <2>3, <4>2
    <3>3. \A i \in 1 .. Len(wire') : wire'[i] = Sent[g + n + Len(pending') + i]
      <4>1. \A i \in 1 .. Len(wire) : g + n + Len(pending') + i = g + Len(pending) + i
        BY <1>1, <2>1, <2>2, <2>3
      <4>. QED
        BY <1>2, <1>7, <4>1
    <3>. QED
      BY <1>4, <3>1, <3>2, <3>3 DEF Consumed
  <2>6. n \in Nat /\ n <= Len(Sent) - g
    BY <1>1, <2>1
  <2>. QED
    BY <1>5, <2>3, <2>4, <2>5, <2>6
<1>8. ASSUME RecvTls, pending = <<>>, NEW m \in 1 .. Min2(setting.maxRecord, Len(wire)),
             LET n == RoomFor(m)
             IN /\ Receive(Prefix(wire, n)) /\ pending' = SubSeq(wire, n + 1, m)
                /\ wire' = Rest(wire, m)
      PROVE  /\ \E n \in 1 .. Len(Sent) - g :
                  /\ Consumed(g + n)' /\ endp' = curp + n
                  /\ \A i \in 1 .. n : buf'[curp + i - 1] = Sent[g + i]
                  /\ \A i \in 0 .. curp - 1 : buf'[i] = buf[i]
             /\ phase' = "parse"
             /\ setting.maxRecord <= rlen => pending' = <<>>
  <2>1. m \in 1 .. Len(wire) /\ m <= setting.maxRecord
    BY <1>1, <1>8 DEF Min2
  <2>2. PICK n \in 1 .. m : n = RoomFor(m) /\ n <= rlen /\ (setting.maxRecord <= rlen => n = m)
    BY <1>1, <1>8, <2>1 DEF RoomFor, Min2, RecvTls
  <2>3. /\ m \in 1 .. Len(wire) /\ n \in 1 .. m /\ n \in 1 .. Len(wire) /\ n <= rlen
        /\ setting.maxRecord <= rlen => n = m
    BY <1>1, <2>1, <2>2
  <2>4. Receive(Prefix(wire, n)) /\ pending' = SubSeq(wire, n + 1, m) /\ wire' = Rest(wire, m)
    BY <1>8, <2>2
  <2>5. /\ Prefix(wire, n) \in Seq(Tokens) /\ Len(Prefix(wire, n)) = n
        /\ \A i \in 1 .. n : Prefix(wire, n)[i] = wire[i]
        /\ Len(Rest(wire, m)) = Len(wire) - m
        /\ \A i \in 1 .. Len(wire) - m : Rest(wire, m)[i] = wire[m + i]
    BY <1>1, <2>3, SplitAt
  <2>6. /\ Len(SubSeq(wire, n + 1, m)) = m - n
        /\ \A i \in 1 .. m - n : SubSeq(wire, n + 1, m)[i] = wire[n + i]
    BY <1>1, <2>3, Middle
  <2>7. Lands(Prefix(wire, n)) /\ ~Ended
    BY SMTT(60), <1>2, <1>1, <1>8, <2>3, <2>4, <2>5 DEF Lands, Ended
  <2>8. Consumed(g + n)'
    <3>1. Len(pending') = m - n /\ Len(wire') = Len(wire) - m
      BY <2>4, <2>5, <2>6
    <3>2. g + n \in 0 .. Len(Sent) /\ Len(pending') + Len(wire') = Len(Sent) - (g + n)
      <4>1. n \in Nat /\ m \in Nat /\ n <= m /\ m <= Len(wire) /\ Len(pending) = 0
        BY <1>1, <1>8, <2>3
      <4>2. g + n \in 0 .. Len(Sent)
        BY <1>1, <4>1
      <4>3. Len(pending') + Len(wire') = Len(Sent) - (g + n)
        BY <1>1, <3>1, <4>1
      <4>. QED
        BY <4>2, <4>3
    <3>3. \A i \in 1 .. Len(wire) : wire[i] = Sent[g + i]
      BY <1>2, <1>1, <1>8
    <3>4. \A i \in 1 .. Len(pending') : pending'[i] = Sent[g + n + i]
      <4>1. \A i \in 1 .. m - n : n + i \in 1 .. Len(wire) /\ g + (n + i) = g + n + i
        BY <1>1, <2>3
      <4>. QED
        BY <2>4, <2>6, <3>3, <4>1
    <3>5. \A i \in 1 .. Len(wire') : wire'[i] = Sent[g + n + Len(pending') + i]
      <4>1. \A i \in 1 .. Len(wire) - m : m + i \in 1 .. Len(wire)
               /\ g + (m + i) = g + n + Len(pending') + i
        BY <1>1, <2>3, <3>1
      <4>. QED
        BY <2>4, <2>5, <3>1, <3>3, <4>1
    <3>. QED
      BY <1>4, <3>2, <3>4, <3>5 DEF Consumed
  <2>9. n = m => pending' = <<>>
    BY <2>3, <2>4, <2>6
  <2>10. n \in Nat /\ n <= Len(Sent) - g
    BY <1>1, <2>3
  <2>. QED
    BY <1>5, <2>3, <2>5, <2>7, <2>8, <2>9, <2>10
<1>9. CASE RecvTls
  <2>1. setting.tls
    BY <1>9 DEF RecvTls
  <2>. QED
    BY <1>3, <1>7, <1>8, <1>9, <2>1 DEF RecvTls
<1>. QED
  BY <1>6, <1>9

\* Where a body stands in the buffer and how much of it is still to come.
LEMMA HeaderRead ==
    ASSUME ReaderInv, WholeSized, HeaderInv, phase = "parse", func = "read_reply"
    PROVE  /\ endp \in 0 .. H + L /\ endp <= Bufsize
           /\ HeaderEnds = {} => endp < H
           /\ \A p \in HeaderEnds : p + 1 >= H /\ p < endp /\ p \in Nat
           /\ HeaderEnds # {} => H - 1 \in HeaderEnds /\ H <= endp /\ buf[0] = "S"
<1>1. /\ H \in 1 .. Bufsize - 1 /\ L \in Nat /\ Len(Sent) = H + L /\ endp \in Nat
      /\ Bufsize \in Nat \ {0} /\ Sent[1] = "S" /\ Sent[H] = "E"
  BY SizedFacts
<1>2. \A i \in 1 .. H - 1 : Sent[i] # "E"
  BY SizedFacts
<1>3. endp \in 0 .. Len(Sent) /\ Holds(endp)
  BY DEF HeaderInv, Consumed
<1>4. \A i \in 0 .. endp - 1 : buf[i] = Sent[i + 1]
  BY <1>3 DEF Holds
<1>5. endp <= Bufsize
  BY DEF ReaderInv, BufferInv
<1>6. H <= endp => H - 1 \in HeaderEnds
  <2>. SUFFICES ASSUME H <= endp PROVE H - 1 \in HeaderEnds
    OBVIOUS
  <2>1. H - 1 \in 0 .. endp - 1 /\ (H - 1) + 1 = H
    BY <1>1
  <2>2. buf[H - 1] = "E"
    BY <1>1, <1>4, <2>1
  <2>. QED
    BY <2>1, <2>2 DEF HeaderEnds
<1>7. ASSUME NEW p \in HeaderEnds
      PROVE  p + 1 >= H /\ p < endp /\ p \in Nat
  <2>1. p \in 0 .. endp - 1 /\ buf[p] = "E"
    BY DEF HeaderEnds
  <2>2. Sent[p + 1] = "E"
    BY <1>4, <2>1
  <2>3. p + 1 \notin 1 .. H - 1
    BY <1>2, <2>2
  <2>. QED
    BY <1>1, <2>1, <2>3
<1>8. HeaderEnds # {} => H <= endp
  BY <1>1, <1>7
<1>9. HeaderEnds # {} => buf[0] = "S"
  <2>1. H <= endp => 0 \in 0 .. endp - 1
    BY <1>1
  <2>. QED
    BY <1>1, <1>4, <1>8, <2>1
<1>. QED
  BY <1>1, <1>3, <1>5, <1>6, <1>7, <1>8, <1>9

LEMMA Joined ==
    ASSUME NEW s \in Seq(Tokens), NEW t \in Seq(Tokens)
    PROVE  /\ s \o t \in Seq(Tokens) /\ Len(s \o t) = Len(s) + Len(t)
           /\ \A i \in 1 .. Len(s) : (s \o t)[i] = s[i]
           /\ \A i \in Len(s) + 1 .. Len(s) + Len(t) : (s \o t)[i] = t[i - Len(s)]
OBVIOUS

\* What is added to a file that holds the start of the body goes on with it.
LEMMA FileGrows ==
    ASSUME ReaderInv, WholeSized, NEW k \in Nat, FirstOf(out, k),
           NEW data \in Seq(Tokens), k + Len(data) <= L,
           \A i \in 1 .. Len(data) : data[i] = Body[k + i]
    PROVE  /\ FirstOf(Written(data), k + Len(data)) /\ FirstOf(Inflated(data), k + Len(data))
           /\ Inflates(data)
<1>1. /\ out \in Seq(Tokens) /\ Body \in Seq(Tokens) /\ MaxOut \in Nat /\ L \in Nat
      /\ L <= MaxOut /\ L = Len(Body) /\ Len(out) = k /\ Len(data) \in Nat
  BY SizedFacts DEF FirstOf, L
<1>2. \A i \in 1 .. k : out[i] = Body[i]
  BY DEF FirstOf
<1>. DEFINE all == out \o data
<1>3. /\ all \in Seq(Tokens) /\ Len(all) = k + Len(data)
      /\ \A i \in 1 .. k : all[i] = out[i]
      /\ \A i \in k + 1 .. k + Len(data) : all[i] = data[i - k]
  <2>1. /\ all \in Seq(Tokens) /\ Len(all) = Len(out) + Len(data)
        /\ \A i \in 1 .. Len(out) : all[i] = out[i]
        /\ \A i \in Len(out) + 1 .. Len(out) + Len(data) : all[i] = data[i - Len(out)]
    BY <1>1, Joined
  <2>. HIDE DEF all
  <2>. QED
    BY <1>1, <2>1
<1>4. \A i \in 1 .. k + Len(data) : all[i] = Body[i]
  <2>. SUFFICES ASSUME NEW i \in 1 .. k + Len(data) PROVE all[i] = Body[i]
    OBVIOUS
  <2>1. CASE i <= k
    BY <1>1, <1>2, <1>3, <2>1
  <2>2. CASE i > k
    <3>1. i - k \in 1 .. Len(data) /\ k + (i - k) = i /\ i \in k + 1 .. k + Len(data)
      BY <1>1, <2>2
    <3>. QED
      BY <1>3, <3>1
  <2>. QED
    BY <1>1, <2>1, <2>2
<1>5. Min2(MaxOut, Len(out) + Len(data)) = k + Len(data)
  BY <1>1 DEF Min2
<1>6. Wanted(data) = Len(data)
  BY <1>1 DEF Wanted, Min2
<1>7. FirstOf(Written(data), k + Len(data))
  <2>1. Written(data) = SubSeq(all, 1, Len(all))
    BY <1>3, <1>5 DEF Written, Prefix
  <2>. HIDE DEF all
  <2>2. Written(data) = all
    BY <1>3, <2>1
  <2>. QED
    BY <1>3, <1>4, <2>2 DEF FirstOf
<1>8. FirstOf(Inflated(data), k + Len(data))
  <2>1. Prefix(data, Wanted(data)) = data
    BY <1>6 DEF Prefix
  <2>2. Inflated(data) = all
    BY <2>1 DEF Inflated
  <2>. HIDE DEF all
  <2>. QED
    BY <1>3, <1>4, <2>2 DEF FirstOf
<1>9. Inflates(data)
  <2>1. Prefix(data, Wanted(data)) = data
    BY <1>6 DEF Prefix
  <2>. DEFINE b == SubSeq(Body, k + 1, k + Len(data))
  <2>2. b \in Seq(Tokens) /\ Len(b) = Len(data) /\ \A i \in 1 .. Len(data) : b[i] = Body[k + i]
    BY <1>1
  <2>. HIDE DEF b
  <2>3. b = data
    BY <2>2
  <2>. QED
    BY <1>1, <1>6, <2>1, <2>3 DEF Inflates, b
<1>. QED
  BY <1>7, <1>8, <1>9

LEMMA WholeFile ==
    ASSUME ReaderInv, WholeSized, NEW file \in Seq(Tokens), FirstOf(file, L)
    PROVE  file = Body
<1>1. Body \in Seq(Tokens) /\ Len(Body) = L /\ Len(file) = L
  BY SizedFacts DEF L, FirstOf
<1>2. \A i \in 1 .. L : file[i] = Body[i]
  BY DEF FirstOf
<1>. QED
  BY <1>1, <1>2

\* What a state function of a body finds.
LEMMA BodyRead ==
    ASSUME ReaderInv, WholeSized, SizedInv, phase = "parse", func # "read_reply"
    PROVE  \E k \in 0 .. L - 1, u \in 1 .. L :
              /\ k = L - length /\ u = Unread /\ u <= length /\ length \in 1 .. L
              /\ Consumed(H + k + u) /\ Len(out) = k /\ Len(Data(u)) = u
              /\ Written(Data(u)) \in Seq(Tokens) /\ Inflated(Data(u)) \in Seq(Tokens)
              /\ FirstOf(Written(Data(u)), k + u) /\ FirstOf(Inflated(Data(u)), k + u)
              /\ Inflates(Data(u)) /\ func \in {"read_file", "read_file_gzip"}
<1>1. /\ L \in Nat /\ L > 0 /\ H \in Nat /\ Len(Sent) = H + L
  BY SMTT(60), SizedFacts
<1>2. /\ func \in {"read_file", "read_file_gzip"} /\ length \in 1 .. L
      /\ FirstOf(out, L - length) /\ Unread > 0 /\ Consumed(H + (L - length) + Unread)
      /\ \A i \in 0 .. Unread - 1 : buf[curp + i] = Body[(L - length) + i + 1]
  BY DEF SizedInv, BodyInv
<1>3. /\ Unread \in Nat /\ Data(Unread) \in Seq(Tokens) /\ Written(Data(Unread)) \in Seq(Tokens)
      /\ Inflated(Data(Unread)) \in Seq(Tokens) /\ curp \in Nat
  BY UnreadData DEF ReaderInv, TypeOK
<1>4. PICK k \in 0 .. L - 1, u \in Nat : k = L - length /\ u = Unread
  BY <1>1, <1>2, <1>3
<1>5. H + k + u <= H + L /\ u > 0
  BY <1>1, <1>2, <1>4 DEF Consumed
<1>6. u \in 1 .. L /\ u <= length /\ k + u <= L /\ length \in 1 .. L
  BY <1>1, <1>2, <1>4, <1>5
<1>7. Len(Data(u)) = u
  BY <1>4 DEF Data
<1>8. \A i \in 1 .. Len(Data(u)) : Data(u)[i] = Body[k + i]
  <2>. SUFFICES ASSUME NEW i \in 1 .. u PROVE Data(u)[i] = Body[k + i]
    BY <1>7
  <2>1. i - 1 \in 0 .. u - 1 /\ curp + i - 1 = curp + (i - 1) /\ k + (i - 1) + 1 = k + i
    BY <1>3, <1>4
  <2>2. Data(u)[i] = buf[curp + i - 1]
    BY DEF Data
  <2>3. buf[curp + (i - 1)] = Body[k + (i - 1) + 1]
    BY <1>2, <1>4, <2>1
  <2>. QED
    BY <2>1, <2>2, <2>3
<1>9. FirstOf(out, k) /\ Consumed(H + k + u)
  BY <1>2, <1>4
<1>10. /\ FirstOf(Written(Data(u)), k + u) /\ FirstOf(Inflated(Data(u)), k + u)
       /\ Inflates(Data(u))
  <2>1. /\ k \in Nat /\ Data(u) \in Seq(Tokens) /\ k + Len(Data(u)) <= L
    BY <1>3, <1>4, <1>6, <1>7
  <2>2. /\ FirstOf(Written(Data(u)), k + Len(Data(u)))
        /\ FirstOf(Inflated(Data(u)), k + Len(Data(u))) /\ Inflates(Data(u))
    BY <1>8, <1>9, <2>1, FileGrows
  <2>. QED
    BY <1>7, <2>2
<1>11. Len(out) = k
  BY <1>9 DEF FirstOf
<1>. QED
  BY <1>2, <1>3, <1>4, <1>6, <1>7, <1>9, <1>10, <1>11

\* Types come from ReaderInv; what is between two steps of a reply stays the same.
LEMMA WriteRequestSized ==
    ASSUME ReaderInv, WholeSized, SizedInv, WriteRequest
    PROVE  SizedInv'
<1>1. UNCHANGED <<setting, reply, stage, result, pending, out>>
  BY DEF WriteRequest
<1>2. /\ H' = H /\ Sent' = Sent /\ Body' = Body /\ NothingHidden' = NothingHidden
      /\ reply[stage]' = reply[stage]
  BY <1>1, SameReply
<1>3. /\ wire = <<>> /\ pending = <<>> /\ server = "sends" /\ out = <<>> /\ result = "none"
  BY DEF SizedInv, WriteInv, ResultInv, WriteRequest
<1>4. /\ phase' = "read" /\ func' = "read_reply" /\ curp' = 0
      /\ server' = IF reply[stage].closes THEN "closed" ELSE "sends"
      /\ wire' = wire \o Sent
  BY <1>3 DEF WriteRequest, Sent
<1>5. wire' = Sent
  BY <1>3, <1>4, SizedFacts
<1>6. Consumed(0)'
  BY <1>1, <1>2, <1>3, <1>5, SizedFacts DEF Consumed
<1>7. HeaderInv'
  BY <1>1, <1>2, <1>3, <1>4, <1>6, SizedFacts DEF HeaderInv, Holds
<1>8. WriteInv' /\ ServerInv' /\ BodyInv'
  BY <1>2, <1>4 DEF WriteInv, ServerInv, BodyInv
<1>9. ResultInv'
  BY <1>1, <1>2, <1>3, <1>4 DEF ResultInv
<1>. QED
  BY <1>7, <1>8, <1>9 DEF SizedInv

\* While a reply is read there is always more to come, and room for it.
LEMMA StillComing ==
    ASSUME ReaderInv, WholeSized, SizedInv, phase = "read"
    PROVE  /\ ~Ended /\ Len(pending) + Len(wire) > 0 /\ curp <= H /\ rlen = Bufsize - curp
           /\ rlen > 0
           /\ \E g \in 0 .. Len(Sent) :
                /\ Consumed(g)
                /\ \/ func = "read_reply" /\ g = curp
                   \/ func # "read_reply" /\ g = H + (L - length)
<1>1. /\ L \in Nat /\ L > 0 /\ H \in 1 .. Bufsize - 1 /\ Len(Sent) = H + L /\ curp \in Nat
      /\ Bufsize \in Nat /\ rlen \in Nat
  BY SizedFacts
<1>2. CASE func = "read_reply"
  <2>1. curp < H /\ Consumed(curp)
    BY <1>2 DEF SizedInv, HeaderInv
  <2>2. Len(pending) + Len(wire) > 0 /\ curp \in 0 .. Len(Sent)
    BY <1>1, <2>1 DEF Consumed
  <2>3. ~Ended
    BY <2>2 DEF Ended
  <2>4. curp + rlen = Bufsize
    BY <2>3 DEF ReaderInv, BufferInv
  <2>. QED
    BY <1>1, <1>2, <2>1, <2>2, <2>3, <2>4
<1>3. CASE func # "read_reply"
  <2>1. curp <= H /\ Consumed(H + (L - length)) /\ length \in 1 .. L
    BY <1>3 DEF SizedInv, BodyInv
  <2>2. Len(pending) + Len(wire) > 0 /\ H + (L - length) \in 0 .. Len(Sent)
    BY <1>1, <2>1 DEF Consumed
  <2>3. ~Ended
    BY <2>2 DEF Ended
  <2>4. curp + rlen = Bufsize
    BY <2>3 DEF ReaderInv, BufferInv
  <2>. QED
    BY <1>1, <1>3, <2>1, <2>2, <2>3, <2>4
<1>. QED
  BY <1>2, <1>3

LEMMA RecvSized ==
    ASSUME ReaderInv, WholeSized, SizedInv, RecvTcp \/ RecvTls
    PROVE  SizedInv'
<1>1. /\ L \in Nat /\ L > 0 /\ H \in 1 .. Bufsize - 1 /\ Len(Sent) = H + L /\ curp \in Nat
      /\ Bufsize \in Nat /\ rlen \in Nat /\ length \in Int
  BY SizedFacts
<1>2. phase = "read" /\ (~setting.tls => pending = <<>>) /\ result = "none"
  BY DEF RecvTcp, RecvTls, SizedInv, ResultInv
<1>3. PICK g \in 0 .. Len(Sent) :
        /\ Consumed(g)
        /\ \/ func = "read_reply" /\ g = curp
           \/ func # "read_reply" /\ g = H + (L - length)
  BY <1>2, StillComing
<1>4. /\ phase' = "parse"
      /\ UNCHANGED <<result, stage, setting, reply, server, curp, length, cstate, func, out>>
      /\ ~setting.tls => pending' = <<>>
      /\ pending = <<>> /\ setting.maxRecord <= rlen => pending' = <<>>
  BY <1>2, <1>3, Arrives
<1>5. PICK n \in 1 .. Len(Sent) - g :
        /\ Consumed(g + n)' /\ endp' = curp + n
        /\ \A i \in 1 .. n : buf'[curp + i - 1] = Sent[g + i]
        /\ \A i \in 0 .. curp - 1 : buf'[i] = buf[i]
  BY <1>2, <1>3, Arrives
<1>6. /\ H' = H /\ L' = L /\ Sent' = Sent /\ Body' = Body /\ NothingHidden' = NothingHidden
      /\ reply[stage]' = reply[stage]
  BY <1>4, SameReply
<1>7. NothingHidden => pending' = <<>>
  <2>1. CASE ~setting.tls
    BY <1>4, <2>1
  <2>2. CASE RecordsFit /\ pending = <<>>
    <3>1. stage \in 1 .. 2 /\ ~reply[stage].chunked /\ setting.maxRecord \in Nat
      BY SizedFacts, Types DEF ReaderInv, TypeOK
    <3>2. H + setting.maxRecord <= Bufsize
      BY <2>2, <3>1 DEF RecordsFit, Kept, H
    <3>3. setting.maxRecord <= rlen
      BY <1>1, <1>2, <3>1, <3>2, StillComing
    <3>. QED
      BY <1>4, <2>2, <3>3
  <2>. QED
    BY <2>1, <2>2 DEF NothingHidden, SizedInv, ResultInv
<1>8. ResultInv'
  BY <1>2, <1>4, <1>6, <1>7 DEF ResultInv
<1>9. WriteInv' /\ ServerInv'
  BY <1>2, <1>4, <1>6 DEF WriteInv, ServerInv, SizedInv
<1>10. CASE func = "read_reply"
  <2>1. /\ g = curp /\ out = <<>> /\ Holds(curp)
    BY <1>2, <1>3, <1>10 DEF SizedInv, HeaderInv
  <2>2. Consumed(endp)'
    <3>1. g + n = endp'
      BY <1>5, <2>1
    <3>. QED
      BY <1>5, <1>6, <3>1 DEF Consumed
  <2>3. Holds(endp)'
    <3>. SUFFICES ASSUME NEW i \in 0 .. endp' - 1 PROVE buf'[i] = Sent[i + 1]
      BY <1>6 DEF Holds
    <3>1. CASE i < curp
      <4>1. i \in 0 .. curp - 1
        BY <1>1, <3>1
      <4>. QED
        BY <1>5, <2>1, <4>1 DEF Holds
    <3>2. CASE i >= curp
      <4>1. /\ i - curp + 1 \in 1 .. n /\ curp + (i - curp + 1) - 1 = i
            /\ g + (i - curp + 1) = i + 1
        BY <1>1, <1>5, <2>1, <3>2
      <4>. QED
        BY <1>5, <4>1
    <3>. QED
      BY <1>1, <3>1, <3>2
  <2>4. HeaderInv' /\ BodyInv'
    BY <1>4, <1>10, <2>1, <2>2, <2>3 DEF HeaderInv, BodyInv
  <2>. QED
    BY <1>8, <1>9, <2>4 DEF SizedInv
<1>11. CASE func # "read_reply"
  <2>1. /\ func \in {"read_file", "read_file_gzip"} /\ length \in 1 .. L
        /\ FirstOf(out, L - length) /\ curp <= H /\ g = H + (L - length)
    BY <1>2, <1>3, <1>11 DEF SizedInv, BodyInv
  <2>2. PICK k \in 0 .. L - 1 : k = L - length
    BY <1>1, <2>1
  <2>3. Unread' = n /\ n > 0 /\ g = H + k /\ k + n <= L /\ n \in Nat
    <3>1. n \in Nat /\ n > 0 /\ n <= Len(Sent) - g
      BY <1>1, <1>3
    <3>2. g = H + k
      BY <2>1, <2>2
    <3>3. k + n <= L
      BY <1>1, <3>1, <3>2
    <3>4. Unread' = n
      BY <1>1, <1>4, <1>5, <3>1 DEF Unread
    <3>. QED
      BY <3>1, <3>2, <3>3, <3>4
  <2>4. FirstOf(out, L - length)'
    BY <1>4, <1>6, <2>1 DEF FirstOf
  <2>5. Consumed(H + (L - length) + Unread)'
    <3>1. g + n = H' + (L' - length') + Unread'
      BY <1>4, <1>6, <2>2, <2>3
    <3>. QED
      BY <1>5, <1>6, <3>1 DEF Consumed
  <2>6. ASSUME NEW i \in 0 .. n - 1
        PROVE  buf'[curp + i] = Body[k + i + 1]
    <3>1. /\ i + 1 \in 1 .. n /\ curp + (i + 1) - 1 = curp + i /\ g + (i + 1) = H + (k + i + 1)
          /\ k + i + 1 \in 1 .. L
      BY <1>1, <2>2, <2>3
    <3>2. Sent[H + (k + i + 1)] = Body[k + i + 1]
      BY <3>1, SizedFacts
    <3>3. buf'[curp + (i + 1) - 1] = Sent[g + (i + 1)]
      BY <1>5, <3>1
    <3>. QED
      BY <3>1, <3>2, <3>3
  <2>7. \A i \in 0 .. Unread' - 1 : buf'[curp' + i] = Body'[(L' - length') + i + 1]
    BY <1>4, <1>6, <2>2, <2>3, <2>6
  <2>8. BodyInv'
    BY <1>4, <1>6, <2>1, <2>3, <2>4, <2>5, <2>7 DEF BodyInv
  <2>9. HeaderInv'
    BY <1>4, <1>11 DEF HeaderInv
  <2>. QED
    BY <1>8, <1>9, <2>8, <2>9 DEF SizedInv
<1>. QED
  BY <1>10, <1>11

\* Only the timeout fails such a reply, over what the TLS library keeps back.
LEMMA TimeoutSized ==
    ASSUME ReaderInv, WholeSized, SizedInv, Timeout
    PROVE  SizedInv'
<1>1. phase = "read" /\ wire = <<>> /\ Fail
  BY DEF Timeout
<1>2. pending # <<>>
  <2>1. Len(pending) + Len(wire) > 0 /\ pending \in Seq(Tokens)
    BY <1>1, StillComing, SizedFacts
  <2>. QED
    BY <1>1, <2>1
<1>3. ~NothingHidden /\ setting.tls
  BY <1>2 DEF SizedInv, ResultInv
<1>4. phase' = "over" /\ result' = "failed" /\ UNCHANGED <<setting, reply, stage, pending>>
  BY <1>1 DEF Fail
<1>5. NothingHidden' = NothingHidden
  BY <1>4, SameReply
<1>6. ResultInv'
  BY <1>3, <1>4, <1>5 DEF ResultInv
<1>. QED
  BY <1>4, <1>6 DEF SizedInv, WriteInv, ServerInv, HeaderInv, BodyInv

LEMMA ReplySized ==
    ASSUME ReaderInv, WholeSized, SizedInv, ReplyPartial \/ ReplyHeader
    PROVE  SizedInv'
<1>1. /\ L \in Nat /\ L > 0 /\ H \in 1 .. Bufsize - 1 /\ Len(Sent) = H + L /\ endp \in Nat
      /\ Bufsize \in Nat /\ rlen \in Nat /\ reply[stage].length = L /\ ~reply[stage].chunked
      /\ BodyFunc(reply[stage]) \in {"read_file", "read_file_gzip"}
  BY SizedFacts
<1>2. phase = "parse" /\ func = "read_reply"
  BY DEF ReplyPartial, ReplyHeader
<1>3. out = <<>> /\ Consumed(endp) /\ Holds(endp) /\ HeaderInv
  BY <1>2 DEF SizedInv, HeaderInv
<1>4. /\ endp \in 0 .. H + L /\ endp <= Bufsize
      /\ HeaderEnds = {} => endp < H
      /\ \A p \in HeaderEnds : p + 1 >= H /\ p < endp /\ p \in Nat
      /\ HeaderEnds # {} => H - 1 \in HeaderEnds /\ H <= endp /\ buf[0] = "S"
  BY <1>2, <1>3, HeaderRead
<1>5. CASE ReplyPartial
  <2>1. endp < H
    BY <1>4, <1>5 DEF ReplyPartial
  <2>2. ~Ended
    <3>1. Len(pending) + Len(wire) > 0
      BY <1>1, <1>3, <2>1 DEF Consumed
    <3>. QED
      BY <3>1 DEF Ended
  <2>3. rlen > 0
    BY <1>1, <1>2, <2>1, <2>2 DEF ReaderInv, BufferInv
  <2>4. /\ curp' = endp /\ phase' = "read"
        /\ UNCHANGED <<result, stage, network, buf, endp, rlen, length, cstate, func, out>>
    BY <1>5, <2>3 DEF ReplyPartial
  <2>5. UNCHANGED <<setting, reply, stage, server, wire, pending>>
    BY <2>4 DEF network
  <2>6. /\ H' = H /\ Sent' = Sent /\ NothingHidden' = NothingHidden /\ Body' = Body
        /\ reply[stage]' = reply[stage]
    BY <2>5, SameReply
  <2>7. Consumed(curp)' /\ Holds(curp)'
    BY <1>3, <2>4, <2>5, <2>6 DEF Consumed, Holds
  <2>8. HeaderInv' /\ BodyInv' /\ WriteInv'
    BY <1>2, <1>3, <2>1, <2>4, <2>6, <2>7 DEF HeaderInv, BodyInv, WriteInv
  <2>9. ServerInv' /\ ResultInv'
    BY <1>2, <2>4, <2>5, <2>6 DEF SizedInv, ServerInv, ResultInv
  <2>. QED
    BY <2>8, <2>9 DEF SizedInv
<1>6. CASE ReplyHeader
  <2>1. HeaderEnds # {} /\ buf[0] = "S" /\ H - 1 \in HeaderEnds /\ H <= endp
    BY <1>4, <1>6 DEF ReplyHeader
  <2>2. PICK p \in HeaderEnds :
          /\ \A q \in HeaderEnds : p <= q
          /\ curp' = p + 1
          /\ phase' = IF p + 1 < endp THEN "parse" ELSE "read"
    BY <1>6, <2>1 DEF ReplyHeader
  <2>3. p = H - 1
    <3>1. p <= H - 1 /\ p + 1 >= H /\ p \in Nat
      BY <1>4, <2>1, <2>2
    <3>. QED
      BY <1>1, <3>1
  <2>4. curp' = H /\ phase' = IF H < endp THEN "parse" ELSE "read"
    BY <1>1, <2>2, <2>3
  <2>5. /\ func' = BodyFunc(reply[stage]) /\ length' = L
        /\ UNCHANGED <<result, stage, network, buf, endp, rlen, out>>
    BY <1>1, <1>6, <2>1 DEF ReplyHeader
  <2>6. UNCHANGED <<setting, reply, stage, server, wire, pending>>
    BY <2>5 DEF network
  <2>7. /\ H' = H /\ L' = L /\ Sent' = Sent /\ NothingHidden' = NothingHidden /\ Body' = Body
        /\ reply[stage]' = reply[stage]
    BY <2>6, SameReply
  <2>8. FirstOf(out, L - length)'
    BY <1>1, <1>3, <2>5, <2>7 DEF FirstOf
  <2>9. CASE H < endp
    <3>1. phase' = "parse" /\ Unread' = endp - H
      BY <2>4, <2>5, <2>9 DEF Unread
    <3>2. H' + (L' - length') + Unread' = endp
      BY <1>1, <2>5, <2>7, <3>1
    <3>3. Consumed(H + (L - length) + Unread)'
      BY <1>3, <2>6, <2>7, <3>2 DEF Consumed
    <3>4. ASSUME NEW i \in 0 .. endp - H - 1
          PROVE  buf[H + i] = Body[i + 1]
      <4>1. H + i \in 0 .. endp - 1 /\ H + i + 1 = H + (i + 1) /\ i + 1 \in 1 .. L
        BY <1>1, <1>4, <2>9
      <4>2. buf[H + i] = Sent[H + i + 1]
        BY <1>3, <4>1 DEF Holds
      <4>3. Sent[H + (i + 1)] = Body[i + 1]
        BY <4>1, SizedFacts
      <4>. QED
        BY <4>1, <4>2, <4>3
    <3>5. \A i \in 0 .. Unread' - 1 : buf'[curp' + i] = Body'[(L' - length') + i + 1]
      BY <1>1, <2>4, <2>5, <2>7, <3>1, <3>4
    <3>6. Unread' > 0 /\ length' \in 1 .. L'
      BY <1>1, <2>5, <2>7, <2>9, <3>1
    <3>7. BodyInv'
      BY <1>1, <2>5, <2>8, <3>1, <3>3, <3>5, <3>6 DEF BodyInv
    <3>8. HeaderInv' /\ WriteInv' /\ ServerInv' /\ ResultInv'
      BY <1>1, <1>2, <2>5, <2>6, <2>7, <3>1
      DEF SizedInv, HeaderInv, WriteInv, ServerInv, ResultInv
    <3>. QED
      BY <3>7, <3>8 DEF SizedInv
  <2>10. CASE H = endp
    <3>1. phase' = "read"
      BY <1>1, <2>4, <2>10
    <3>2. H' + (L' - length') = endp
      BY <1>1, <2>5, <2>7, <2>10
    <3>3. Consumed(H + (L - length))'
      BY <1>3, <2>6, <2>7, <3>2 DEF Consumed
    <3>4. curp' <= H' /\ length' \in 1 .. L'
      BY <1>1, <2>4, <2>5, <2>7
    <3>5. BodyInv'
      BY <1>1, <2>5, <2>8, <3>1, <3>3, <3>4 DEF BodyInv
    <3>6. HeaderInv' /\ WriteInv' /\ ServerInv' /\ ResultInv'
      BY <1>1, <1>2, <2>5, <2>6, <2>7, <3>1
      DEF SizedInv, HeaderInv, WriteInv, ServerInv, ResultInv
    <3>. QED
      BY <3>5, <3>6 DEF SizedInv
  <2>. QED
    BY <1>1, <2>1, <2>9, <2>10
<1>. QED
  BY <1>5, <1>6

LEMMA MoreSized ==
    ASSUME ReaderInv, WholeSized, SizedInv, phase = "parse", More, length' \in 1 .. L,
           func \in {"read_file", "read_file_gzip"}, NEW k, k = L - length',
           FirstOf(out', k), Consumed(H + k)
    PROVE  SizedInv'
<1>1. /\ curp' = 0 /\ phase' = "read" /\ func' = func
      /\ UNCHANGED <<result, stage, setting, reply, wire, server, pending>>
  BY DEF More, ResetBuf, network
<1>2. /\ H' = H /\ L' = L /\ Sent' = Sent /\ NothingHidden' = NothingHidden /\ Body' = Body
      /\ reply[stage]' = reply[stage]
  BY <1>1, SameReply
<1>3. FirstOf(out, L - length)'
  BY <1>2 DEF FirstOf
<1>4. Consumed(H + (L - length))'
  BY <1>1, <1>2 DEF Consumed
<1>5. curp' <= H'
  BY SMTT(60), <1>1, <1>2, SizedFacts
<1>6. BodyInv'
  BY <1>1, <1>2, <1>3, <1>4, <1>5 DEF BodyInv
<1>7. HeaderInv' /\ WriteInv' /\ ServerInv' /\ ResultInv'
  BY <1>1, <1>2 DEF SizedInv, HeaderInv, WriteInv, ServerInv, ResultInv
<1>. QED
  BY <1>6, <1>7 DEF SizedInv

LEMMA CompleteSized ==
    ASSUME ReaderInv, WholeSized, SizedInv, phase = "parse", Complete(Body),
           Consumed(Len(Sent))
    PROVE  SizedInv'
<1>1. wire = <<>> /\ pending = <<>> /\ result = "none" /\ stage \in 1 .. 2
  <2>1. wire \in Seq(Tokens) /\ pending \in Seq(Tokens) /\ Len(Sent) \in Nat
    BY SizedFacts
  <2>2. Len(pending) + Len(wire) = 0
    BY <2>1 DEF Consumed
  <2>. QED
    BY <2>1, <2>2 DEF SizedInv, ResultInv, ReaderInv, TypeOK
<1>2. UNCHANGED <<setting, reply>>
  BY DEF Complete
<1>3. NothingHidden' = NothingHidden
  BY <1>2 DEF NothingHidden, RecordsFit, Kept, Bufsize, HeaderLength
<1>4. phase' \in {"write", "over"}
  BY DEF Complete
<1>5. pending' = <<>>
  BY <1>1 DEF Complete
<1>6. HeaderInv' /\ BodyInv' /\ ServerInv'
  BY <1>4 DEF HeaderInv, BodyInv, ServerInv
<1>7. CASE TwoStage /\ stage = 1 /\ stage' = 2 /\ phase' = "write"
  <2>1. out' = <<>> /\ result' = "none"
    BY <1>1, <1>7 DEF Complete
  <2>2. wire' = <<>> /\ server' = "sends"
    <3>1. CASE setting.reuse
      <4>1. ~reply[1].closes
        BY <1>7, <3>1 DEF WholeSized
      <4>2. server = "sends"
        BY <1>7, <4>1 DEF SizedInv, ServerInv
      <4>. QED
        BY <1>1, <1>7, <3>1, <4>2 DEF Complete
    <3>2. CASE ~setting.reuse
      BY <1>7, <3>2 DEF Complete
    <3>. QED
      BY <3>1, <3>2
  <2>3. WriteInv' /\ ResultInv'
    BY <1>5, <1>7, <2>1, <2>2 DEF WriteInv, ResultInv
  <2>. QED
    BY <1>6, <2>3 DEF SizedInv
<1>8. CASE (~TwoStage \/ stage = 2) /\ phase' = "over" /\ result' = "got"
  <2>1. out' = Body /\ stage' = stage
    BY <1>1, <1>8 DEF Complete
  <2>2. Body' = Body
    BY <1>2, <2>1 DEF Body
  <2>3. WriteInv' /\ ResultInv'
    BY <1>5, <1>8, <2>1, <2>2 DEF WriteInv, ResultInv
  <2>. QED
    BY <1>6, <2>3 DEF SizedInv
<1>. QED
  BY <1>7, <1>8 DEF Complete

LEMMA ReadFileSized ==
    ASSUME ReaderInv, WholeSized, SizedInv, ReadFile \/ ReadGzip
    PROVE  SizedInv'
<1>1. phase = "parse" /\ func # "read_reply"
  BY DEF ReadFile, ReadGzip
<1>2. PICK k \in 0 .. L - 1, u \in 1 .. L :
        /\ k = L - length /\ u = Unread /\ u <= length /\ length \in 1 .. L
        /\ Consumed(H + k + u) /\ Len(out) = k /\ Len(Data(u)) = u
        /\ Written(Data(u)) \in Seq(Tokens) /\ Inflated(Data(u)) \in Seq(Tokens)
        /\ FirstOf(Written(Data(u)), k + u) /\ FirstOf(Inflated(Data(u)), k + u)
        /\ Inflates(Data(u)) /\ func \in {"read_file", "read_file_gzip"}
  BY <1>1, BodyRead
<1>3. L \in Nat /\ H \in Nat /\ Len(Sent) = H + L /\ L = Len(Body)
  BY SMTT(60), SizedFacts DEF L
<1>. DEFINE file == IF func = "read_file" THEN Written(Data(u)) ELSE Inflated(Data(u))
<1>4. file \in Seq(Tokens) /\ FirstOf(file, k + u)
  BY <1>2
<1>5. StreamEnd(Data(u)) <=> length - u <= 0
  BY <1>2, <1>3 DEF StreamEnd
<1>6. /\ length' = length - u
      /\ \/ length' <= 0 /\ Complete(file)
         \/ length' > 0 /\ out' = file /\ More
  <2>1. CASE ReadFile
    BY <1>2, <2>1 DEF ReadFile, LeftAfter
  <2>2. CASE ReadGzip
    BY <1>2, <1>5, <2>2 DEF ReadGzip, LeftAfter
  <2>. QED
    BY <2>1, <2>2
<1>. HIDE DEF file
<1>7. CASE length' <= 0 /\ Complete(file)
  <2>1. k + u = L /\ H + k + u = Len(Sent)
    BY <1>2, <1>3, <1>6, <1>7
  <2>2. file = Body
    BY <1>4, <2>1, WholeFile
  <2>3. Consumed(Len(Sent)) /\ Complete(Body)
    BY <1>2, <1>7, <2>1, <2>2
  <2>. QED
    BY <1>1, <2>3, CompleteSized
<1>8. CASE length' > 0 /\ out' = file /\ More
  <2>1. length' \in 1 .. L /\ k + u = L - length' /\ H + (k + u) = H + k + u
    BY <1>2, <1>3, <1>6, <1>8
  <2>2. FirstOf(out', k + u) /\ Consumed(H + (k + u))
    BY <1>2, <1>4, <1>8, <2>1
  <2>. QED
    BY <1>1, <1>2, <1>8, <2>1, <2>2, MoreSized
<1>. QED
  BY <1>6, <1>7, <1>8

\* Which replies are sent never changes.
LEMMA NextKeepsReplies ==
    ASSUME [Next]_vars
    PROVE  UNCHANGED <<setting, reply>>
<1>1. CASE Fail
  BY <1>1 DEF Fail
<1>2. CASE More \/ IncCurp \/ \E file : Complete(file)
  BY <1>2 DEF More, IncCurp, Complete, network
<1>3. CASE WriteRequest \/ RecvTcp \/ RecvTls \/ RecvNothing \/ Timeout \/ Cut
  BY <1>1, <1>3 DEF WriteRequest, RecvTcp, RecvTls, RecvNothing, Timeout, Cut, network
<1>4. CASE ReplyPartial \/ ReplyHeader
  BY <1>1, <1>4 DEF ReplyPartial, ReplyHeader, network
<1>5. CASE ReadFile \/ ReadUnsized \/ ReadGzip
  BY <1>1, <1>2, <1>5 DEF ReadFile, ReadUnsized, ReadGzip
<1>6. CASE ChunkEmpty \/ ChunkBad \/ ChunkStart \/ ChunkDigit \/ ChunkLineEnd
  BY <1>1, <1>2, <1>6
  DEF ChunkEmpty, ChunkBad, ChunkStart, ChunkDigit, ChunkLineEnd, network
<1>7. CASE ChunkLine
  BY <1>2, <1>7 DEF ChunkLine, network
<1>8. CASE ChunkBlock
  BY <1>1, <1>2, <1>8 DEF ChunkBlock, network
<1>9. CASE Terminating \/ UNCHANGED vars
  BY <1>9 DEF Terminating, vars
<1>. QED
  BY <1>3, <1>4, <1>5, <1>6, <1>7, <1>8, <1>9 DEF Next

LEMMA NextSized ==
    ASSUME ReaderInv, WholeSized, SizedInv, [Next]_vars
    PROVE  SizedInv'
<1>1. CASE UNCHANGED vars
  <2>1. UNCHANGED <<setting, reply, stage>>
    BY <1>1 DEF vars
  <2>2. /\ H' = H /\ L' = L /\ Sent' = Sent /\ NothingHidden' = NothingHidden /\ Body' = Body
        /\ reply[stage]' = reply[stage]
    BY <2>1, SameReply
  <2>3. HeaderInv'
    BY <1>1, <2>2 DEF vars, SizedInv, HeaderInv, Consumed, Holds
  <2>4. BodyInv'
    BY <1>1, <2>2 DEF vars, SizedInv, BodyInv, Consumed, FirstOf, Unread
  <2>5. WriteInv' /\ ServerInv' /\ ResultInv'
    BY <1>1, <2>2 DEF vars, SizedInv, WriteInv, ServerInv, ResultInv
  <2>. QED
    BY <2>3, <2>4, <2>5 DEF SizedInv
<1>2. CASE WriteRequest
  BY <1>2, WriteRequestSized
<1>3. CASE RecvTcp \/ RecvTls
  BY <1>3, RecvSized
<1>4. ~RecvNothing
  <2>1. phase = "read" => ~Ended /\ rlen > 0
    BY StillComing
  <2>. QED
    BY <2>1, SizedFacts DEF RecvNothing, Ended
<1>5. CASE Timeout
  BY <1>5, TimeoutSized
<1>6. ~Cut
  BY DEF Cut, WholeSized
<1>7. CASE ReplyPartial \/ ReplyHeader
  BY <1>7, ReplySized
<1>8. CASE ReadFile \/ ReadGzip
  BY <1>8, ReadFileSized
<1>9. phase = "parse" => func \in {"read_reply", "read_file", "read_file_gzip"}
  BY DEF SizedInv, BodyInv
<1>10. /\ ~ReadUnsized /\ ~ChunkEmpty /\ ~ChunkBad /\ ~ChunkStart /\ ~ChunkDigit
       /\ ~ChunkLineEnd /\ ~ChunkLine /\ ~ChunkBlock
  BY <1>9 DEF ReadUnsized, ChunkEmpty, ChunkBad, ChunkStart, ChunkDigit, ChunkLineEnd,
              ChunkLine, ChunkBlock, Chunking
<1>11. CASE Terminating
  BY <1>1, <1>11 DEF Terminating
<1>. QED
  BY <1>1, <1>2, <1>3, <1>4, <1>5, <1>6, <1>7, <1>8, <1>10, <1>11 DEF Next

LEMMA InitSized == Init => SizedInv
BY DEF Init, SizedInv, WriteInv, ServerInv, HeaderInv, BodyInv, ResultInv

\* Of a connection whose servers send whole replies with a Content-Length, the
\* invariant says what of the reply is where: in the file, in conn->buf, inside the TLS
\* library, on the wire; each piece once, in order.
THEOREM ReaderSizedInductive == Spec => [](WholeSized => SizedInv)
<1>1. Init => (WholeSized => SizedInv)
  BY InitSized
<1>2. ReaderInv /\ (WholeSized => SizedInv) /\ [Next]_vars => (WholeSized => SizedInv)'
  <2>. SUFFICES ASSUME ReaderInv, WholeSized => SizedInv, [Next]_vars, WholeSized'
                PROVE  SizedInv'
    OBVIOUS
  <2>1. UNCHANGED <<setting, reply>>
    BY NextKeepsReplies
  <2>2. WholeSized
    <3>1. Bufsize' = Bufsize
      BY <2>1 DEF Bufsize
    <3>2. ASSUME NEW s \in 1 .. 2
          PROVE  SizedReply(reply[s])' <=> SizedReply(reply[s])
      BY <2>1, <3>1 DEF SizedReply, HeaderLength
    <3>. QED
      BY <2>1, <3>2 DEF WholeSized
  <2>. QED
    BY <2>2, NextSized
<1>. QED
  BY <1>1, <1>2, ReaderInductive, PTL DEF Spec

\* The file always holds the start of the body that was sent: read_file and
\* read_file_gzip lose, repeat and add nothing, in whatever segments and records the
\* reply arrives, header and body together or not, page and image on one connection.
THEOREM ReaderFileIsBody == Spec => [](WholeSized => FileIsBody)
<1>1. ReaderInv /\ (WholeSized => SizedInv) => (WholeSized => FileIsBody)
  <2>. SUFFICES ASSUME ReaderInv, WholeSized, SizedInv,
                       phase # "over" \/ result = "got"
                PROVE  Len(out) <= Len(Body) /\ out = Prefix(Body, Len(out))
    BY DEF FileIsBody
  <2>1. Body \in Seq(Tokens) /\ out \in Seq(Tokens) /\ L = Len(Body) /\ L \in Nat
    BY SizedFacts DEF L
  <2>2. ASSUME NEW k \in 0 .. L, FirstOf(out, k)
        PROVE  Len(out) <= Len(Body) /\ out = Prefix(Body, Len(out))
    <3>1. Len(out) = k /\ \A i \in 1 .. k : out[i] = Body[i]
      BY <2>2 DEF FirstOf
    <3>. DEFINE start == Prefix(Body, k)
    <3>2. start \in Seq(Tokens) /\ Len(start) = k /\ \A i \in 1 .. k : start[i] = Body[i]
      BY <2>1, <2>2 DEF Prefix
    <3>. HIDE DEF start
    <3>3. out = start
      BY <2>1, <3>1, <3>2
    <3>. QED
      BY <2>1, <2>2, <3>1, <3>3 DEF start
  <2>3. CASE phase = "write" \/ (phase \in {"read", "parse"} /\ func = "read_reply")
    <3>1. out = <<>>
      BY <2>3 DEF SizedInv, WriteInv, HeaderInv
    <3>2. FirstOf(out, 0)
      BY <3>1 DEF FirstOf
    <3>. QED
      BY <2>1, <2>2, <3>2
  <2>4. CASE phase \in {"read", "parse"} /\ func # "read_reply"
    <3>1. length \in 1 .. L /\ FirstOf(out, L - length)
      BY <2>4 DEF SizedInv, BodyInv
    <3>2. L - length \in 0 .. L
      BY <2>1, <3>1
    <3>. QED
      BY <2>2, <3>1, <3>2
  <2>5. CASE phase = "over"
    <3>1. out = Body
      BY <2>5 DEF SizedInv, ResultInv
    <3>2. FirstOf(out, L)
      BY <2>1, <3>1 DEF FirstOf
    <3>. QED
      BY <2>1, <2>2, <3>2
  <2>6. phase \in {"write", "read", "parse", "over"}
    BY DEF ReaderInv, TypeOK
  <2>. QED
    BY <2>3, <2>4, <2>5, <2>6
<1>. QED
  BY <1>1, ReaderInductive, ReaderSizedInductive, PTL

\* A comic that counts as got has its whole body in the file.
THEOREM ReaderGotWhole == Spec => [](WholeSized => GotWhole)
<1>1. (WholeSized => SizedInv) => (WholeSized => GotWhole)
  BY DEF SizedInv, ResultInv, GotWhole
<1>. QED
  BY <1>1, ReaderSizedInductive, PTL

\* While every record fits behind a header, nothing waits unseen in the TLS library.
THEOREM ReaderPendingRead == Spec => [](WholeSized => PendingRead)
<1>1. (WholeSized => SizedInv) => (WholeSized => PendingRead)
  BY DEF SizedInv, ResultInv, NothingHidden, PendingRead
<1>. QED
  BY <1>1, ReaderSizedInductive, PTL

\* And then, or without TLS, no segmentation of a whole reply makes the program give the
\* connection up: not by a timeout, and not by taking it for closed or for damaged.
THEOREM ReaderNoFalseFailure == Spec => [](WholeSized /\ NothingHidden => NoFalseFailure)
<1>1. (WholeSized => SizedInv) => (WholeSized /\ NothingHidden => NoFalseFailure)
  BY DEF SizedInv, ResultInv, NoFalseFailure
<1>. QED
  BY <1>1, ReaderSizedInductive, PTL
=============================================================================
