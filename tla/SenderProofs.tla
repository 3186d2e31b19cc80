---------------------------- MODULE SenderProofs ----------------------------
(***************************************************************************)
(* What is proved of Sender.tla, for any url, referer and size of the       *)
(* buffers, and settings of any number: first of texts, by induction over  *)
(* their length, then of the program.                                      *)
(***************************************************************************)
EXTENDS Sender, WellFoundedInduction, SequenceTheorems, TLAPS

-----------------------------------------------------------------------------
(* Induction and recursion.                                                *)

\* The numbers are well-founded.
LEMMA LeastNatural ==
    ASSUME NEW S \in SUBSET Nat, S # {}
    PROVE  \E m \in S : \A n \in S : m <= n
<1>. DEFINE R == OpToRel(<, Nat)
<1>1. IsWellFoundedOn(R, Nat)
  BY NatLessThanWellFounded
<1>2. \A m, n \in Nat : n < m => <<n, m>> \in R
  BY DEF OpToRel
<1>. HIDE DEF R
<1>3. \E m \in S : \A n \in S : ~(<<n, m>> \in R)
  BY <1>1, WFMin
<1>4. \A m, n \in S : ~(<<n, m>> \in R) => m <= n
  BY <1>2
<1>. QED
  BY <1>3, <1>4

\* Induction from 0 up to n, for a property that is a set of numbers.
LEMMA UpTo ==
    ASSUME NEW n \in Nat, NEW S, 0 \in S, \A i \in 1 .. n : i - 1 \in S => i \in S
    PROVE  \A i \in 0 .. n : i \in S
<1>. DEFINE T == {i \in 0 .. n : i \notin S}
<1>1. SUFFICES ASSUME T # {}
               PROVE  FALSE
  OBVIOUS
<1>2. PICK m \in T : \A k \in T : m <= k
  <2>1. T \in SUBSET Nat
    OBVIOUS
  <2>. HIDE DEF T
  <2>. QED
    BY <1>1, <2>1, LeastNatural
<1>3. m \in 1 .. n /\ m - 1 \in 0 .. n
  BY <1>2
<1>4. m - 1 \notin T
  BY <1>2, <1>3
<1>. QED
  BY <1>2, <1>3, <1>4

\* A function that is given by its value at 0 and by a step: it is there.
Recursive(n, V, v0, g) ==
    \E f \in [0 .. n -> V] : f[0] = v0 /\ \A i \in 1 .. n : f[i] = g[<<i, f[i - 1]>>]

LEMMA RecursiveExists ==
    ASSUME NEW n \in Nat, NEW V, NEW v0 \in V,
           NEW g, \A i \in 1 .. n : \A v \in V : g[<<i, v>>] \in V
    PROVE  Recursive(n, V, v0, g)
<1>. DEFINE Good(k, f) == f[0] = v0 /\ \A i \in 1 .. k : f[i] = g[<<i, f[i - 1]>>]
            S == {k \in 0 .. n : \E f \in [0 .. n -> V] : Good(k, f)}
<1>1. 0 \in S
  <2>1. [i \in 0 .. n |-> v0] \in [0 .. n -> V] /\ Good(0, [i \in 0 .. n |-> v0])
    OBVIOUS
  <2>. HIDE DEF Good
  <2>2. \E f \in [0 .. n -> V] : Good(0, f)
    BY <2>1
  <2>. QED
    BY <2>2
<1>2. ASSUME NEW k \in 1 .. n, k - 1 \in S
      PROVE  k \in S
  <2>1. PICK f \in [0 .. n -> V] : Good(k - 1, f)
    BY <1>2
  <2>2. g[<<k, f[k - 1]>>] \in V
    OBVIOUS
  <2>. DEFINE h == [f EXCEPT ![k] = g[<<k, f[k - 1]>>]]
  <2>3. h \in [0 .. n -> V] /\ h[k] = g[<<k, f[k - 1]>>] /\ \A i \in 0 .. k - 1 : h[i] = f[i]
    BY <2>2
  <2>4. Good(k, h)
    <3>. HIDE DEF h
    <3>1. h[0] = v0
      BY <2>1, <2>3
    <3>2. \A i \in 1 .. k - 1 : h[i] = g[<<i, h[i - 1]>>]
      BY <2>1, <2>3
    <3>3. h[k] = g[<<k, h[k - 1]>>]
      <4>1. k - 1 \in 0 .. k - 1
        OBVIOUS
      <4>2. h[k - 1] = f[k - 1]
        BY <2>3, <4>1
      <4>. QED
        BY <2>3, <4>2
    <3>. QED
      BY <3>1, <3>2, <3>3
  <2>. HIDE DEF Good, h
  <2>5. \E f1 \in [0 .. n -> V] : Good(k, f1)
    BY <2>3, <2>4
  <2>. QED
    BY <2>5
<1>. HIDE DEF S
<1>3. n \in S
  BY SMTT(60), <1>1, <1>2, UpTo
<1>. QED
  BY <1>3 DEF S, Recursive
-----------------------------------------------------------------------------
(* Sequences of texts, and what FlattenSeq makes of them.                  *)

\* All tokens there are.
Tokens == Chars \cup {"%", "h", "i", "2", "0", "GET", "HTTP/1.1", "CRLF", "Host:", "host",
                     "User-Agent:", "agent", "Accept-Encoding: gzip", "Referer:"}
Texts == Seq(Tokens)

\* FlattenSeq of the first i, for each i.
Flats(seqs) ==
    CHOOSE f \in [0 .. Len(seqs) -> Texts] :
        f[0] = <<>> /\ \A i \in 1 .. Len(seqs) : f[i] = f[i - 1] \o seqs[i]

LEMMA FlatsFact ==
    ASSUME NEW seqs \in Seq(Texts)
    PROVE  /\ Flats(seqs) \in [0 .. Len(seqs) -> Texts]
           /\ Flats(seqs)[0] = <<>>
           /\ \A i \in 1 .. Len(seqs) : Flats(seqs)[i] = Flats(seqs)[i - 1] \o seqs[i]
<1>. DEFINE n == Len(seqs)
            g == [x \in (1 .. n) \X Texts |-> x[2] \o seqs[x[1]]]
<1>1. n \in Nat /\ <<>> \in Texts /\ \A i \in 1 .. n : seqs[i] \in Texts
  BY DEF Texts
<1>2. \A s, t \in Texts : s \o t \in Texts
  BY DEF Texts
<1>4. \A i \in 1 .. n : \A t \in Texts : g[<<i, t>>] = t \o seqs[i]
  OBVIOUS
<1>3. \A i \in 1 .. n : \A t \in Texts : g[<<i, t>>] \in Texts
  BY <1>1, <1>2, <1>4
<1>. HIDE DEF g
<1>5. PICK f \in [0 .. n -> Texts] : f[0] = <<>> /\ \A i \in 1 .. n : f[i] = g[<<i, f[i - 1]>>]
  <2>. HIDE DEF n
  <2>. DEFINE empty == <<>>
  <2>1. n \in Nat /\ empty \in Texts
    BY <1>1
  <2>. HIDE DEF empty
  <2>2. Recursive(n, Texts, empty, g)
    BY <1>3, <2>1, RecursiveExists
  <2>. QED
    BY <2>2 DEF empty, Recursive
<1>6. \A i \in 1 .. n : f[i] = f[i - 1] \o seqs[i]
  <2>1. \A i \in 1 .. n : f[i - 1] \in Texts
    BY <1>1
  <2>. QED
    BY <1>4, <1>5, <2>1
<1>. HIDE DEF n
<1>. QED
  BY <1>5, <1>6 DEF Flats, n

LEMMA FlatsOne ==
    ASSUME NEW seqs \in Seq(Texts), Len(seqs) > 0
    PROVE  Flats(seqs)[1] = seqs[1]
<1>. DEFINE g == Flats(seqs)
<1>1. \A i \in 1 .. Len(seqs) : \A j \in Int : j = i - 1 => g[i] = g[j] \o seqs[i]
  BY FlatsFact
<1>2. 1 \in 1 .. Len(seqs) /\ 0 \in Int /\ 0 = 1 - 1
  OBVIOUS
<1>. HIDE DEF g
<1>3. g[1] = g[0] \o seqs[1]
  BY <1>1, <1>2, Zenon
<1>4. g[0] = <<>>
  BY FlatsFact DEF g
<1>5. seqs[1] \in Texts
  BY <1>2
<1>. QED
  BY <1>3, <1>4, <1>5 DEF g, Texts

\* Two functions that begin and go on alike are the same.
LEMMA FlatsOnly ==
    ASSUME NEW seqs \in Seq(Texts), NEW n \in 1 .. Len(seqs), NEW f,
           f[1] = seqs[1], \A i \in 2 .. n : f[i] = f[i - 1] \o seqs[i]
    PROVE  f[n] = Flats(seqs)[n]
<1>. DEFINE g == Flats(seqs)
            S == {i \in 0 .. n : i > 0 => f[i] = g[i]}
<1>0. Len(seqs) \in Nat /\ n \in Nat /\ n <= Len(seqs) /\ \A i \in 1 .. n : seqs[i] \in Texts
  OBVIOUS
<1>a. g[0] = <<>> /\ \A i \in 1 .. n : g[i] = g[i - 1] \o seqs[i]
  <2>1. \A i \in 1 .. n : i \in 1 .. Len(seqs)
    BY <1>0
  <2>. QED
    BY <2>1, FlatsFact
<1>1. 0 \in S
  BY <1>0
<1>. HIDE DEF g
<1>2. ASSUME NEW i \in 1 .. n, i - 1 \in S
      PROVE  i \in S
  <2>1. g[i] = g[i - 1] \o seqs[i]
    BY <1>a
  <2>2. CASE i = 1
    <3>1. g[1] = seqs[1]
      BY <1>0, <2>2, FlatsOne DEF g
    <3>. QED
      BY <1>0, <2>2, <3>1
  <2>3. CASE i > 1
    <3>1. f[i - 1] = g[i - 1]
      BY <1>2, <2>3
    <3>2. i \in 2 .. n
      BY <1>0, <2>3
    <3>3. f[i] = f[i - 1] \o seqs[i]
      BY <3>2
    <3>4. f[i] = g[i]
      BY <2>1, <3>1, <3>3
    <3>. QED
      BY <1>0, <3>4
  <2>. QED
    BY <2>2, <2>3
<1>. HIDE DEF S
<1>3. \A i \in 0 .. n : i \in S
  BY <1>0, <1>1, <1>2, UpTo
<1>. QED
  BY <1>0, <1>3 DEF S, g

\* FlattenSeq is what its definition says.
LEMMA FlattenIs ==
    ASSUME NEW seqs \in Seq(Texts)
    PROVE  FlattenSeq(seqs) = Flats(seqs)[Len(seqs)]
<1>. DEFINE n == Len(seqs)
            g == Flats(seqs)
<1>0. n \in Nat /\ \A i \in 1 .. n : seqs[i] \in Texts
  OBVIOUS
<1>a. g[0] = <<>> /\ \A i \in 1 .. n : g[i] = g[i - 1] \o seqs[i]
  BY FlatsFact
<1>1. CASE n = 0
  <2>1. seqs = <<>>
    BY <1>1
  <2>2. FlattenSeq(seqs) = seqs
    BY <1>1 DEF FlattenSeq
  <2>. QED
    BY <1>1, <1>a, <2>1, <2>2
<1>2. CASE n > 0
  <2>. DEFINE Is(f) == f = [i \in 1 .. n |-> IF i = 1 THEN seqs[i] ELSE f[i - 1] \o seqs[i]]
              F == CHOOSE f : Is(f)
  <2>1. FlattenSeq(seqs) = F[n]
    BY <1>2 DEF FlattenSeq
  <2>. DEFINE h == [i \in 1 .. n |-> g[i]]
  <2>2. Is(h)
    <3>. HIDE DEF n, g
    <3>1. h[1] = seqs[1]
      <4>1. g[1] = seqs[1]
        BY <1>2, FlatsOne DEF g, n
      <4>. QED
        BY <1>0, <1>2, <4>1
    <3>2. \A i \in 1 .. n : i # 1 => h[i] = h[i - 1] \o seqs[i]
      <4>. SUFFICES ASSUME NEW i \in 1 .. n, i # 1 PROVE h[i] = h[i - 1] \o seqs[i]
        OBVIOUS
      <4>1. i - 1 \in 1 .. n
        BY <1>0
      <4>. QED
        BY <1>a, <4>1
    <3>3. \A i \in 1 .. n : h[i] = IF i = 1 THEN seqs[i] ELSE h[i - 1] \o seqs[i]
      BY <3>1, <3>2
    <3>4. h = [i \in 1 .. n |-> h[i]]
      OBVIOUS
    <3>. HIDE DEF h
    <3>. QED
      BY <3>3, <3>4
  <2>3. Is(F)
    <3>. HIDE DEF Is, h
    <3>. QED
      BY <2>2
  <2>4. F[1] = seqs[1] /\ \A i \in 2 .. n : F[i] = F[i - 1] \o seqs[i]
    <3>. HIDE DEF F, n
    <3>1. \A i \in 1 .. n : F[i] = IF i = 1 THEN seqs[i] ELSE F[i - 1] \o seqs[i]
      BY <2>3
    <3>2. 1 \in 1 .. n /\ \A i \in 2 .. n : i \in 1 .. n /\ i # 1
      BY <1>0, <1>2
    <3>. QED
      BY <3>1, <3>2
  <2>. HIDE DEF F
  <2>5. F[n] = Flats(seqs)[n]
    <3>1. n \in 1 .. Len(seqs)
      BY <1>0, <1>2
    <3>. HIDE DEF n
    <3>. QED
      BY <2>4, <3>1, FlatsOnly
  <2>. QED
    BY <2>1, <2>5
<1>. QED
  BY <1>0, <1>1, <1>2

\* What FlattenSeq makes of the first, and how long it is.
LEMMA FlatsLen ==
    ASSUME NEW seqs \in Seq(Texts)
    PROVE  /\ \A i \in 0 .. Len(seqs) : Len(Flats(seqs)[i]) \in Nat
           /\ \A i \in 1 .. Len(seqs) :
                Len(Flats(seqs)[i]) = Len(Flats(seqs)[i - 1]) + Len(seqs[i])
<1>. DEFINE g == Flats(seqs)
            n == Len(seqs)
<1>1. n \in Nat /\ \A i \in 1 .. n : seqs[i] \in Texts
  OBVIOUS
<1>2. \A i \in 0 .. n : g[i] \in Texts
  BY FlatsFact
<1>3. \A i \in 1 .. n : g[i] = g[i - 1] \o seqs[i]
  BY FlatsFact
<1>4. \A t \in Texts : Len(t) \in Nat
  BY DEF Texts
<1>5. \A t, u \in Texts : Len(t \o u) = Len(t) + Len(u)
  BY DEF Texts
<1>. HIDE DEF g, n
<1>6. ASSUME NEW i \in 1 .. n
      PROVE  Len(g[i]) = Len(g[i - 1]) + Len(seqs[i])
  <2>1. i - 1 \in 0 .. n
    BY <1>1
  <2>2. g[i - 1] \in Texts /\ seqs[i] \in Texts
    BY <1>1, <1>2, <2>1
  <2>. QED
    BY <1>3, <1>5, <2>2
<1>. QED
  BY <1>2, <1>4, <1>6 DEF g, n

LEMMA FlatsGrow ==
    ASSUME NEW seqs \in Seq(Texts), NEW i \in 0 .. Len(seqs)
    PROVE  Len(Flats(seqs)[i]) <= Len(Flats(seqs)[Len(seqs)])
<1>. DEFINE l == [k \in 0 .. Len(seqs) |-> Len(Flats(seqs)[k])]
            n == Len(seqs)
            S == {k \in 0 .. n : i <= k => l[i] <= l[k]}
<1>1. n \in Nat /\ i \in 0 .. n
  OBVIOUS
<1>2. \A k \in 0 .. n : l[k] \in Nat
  BY FlatsLen
<1>3. \A k \in 1 .. n : l[k - 1] <= l[k]
  <2>. SUFFICES ASSUME NEW k \in 1 .. n
                PROVE  l[k - 1] <= l[k]
    OBVIOUS
  <2>1. Len(seqs[k]) \in Nat
    BY DEF Texts
  <2>2. k - 1 \in 0 .. n /\ k \in 0 .. n
    BY <1>1
  <2>3. l[k] = l[k - 1] + Len(seqs[k])
    <3>1. Len(Flats(seqs)[k]) = Len(Flats(seqs)[k - 1]) + Len(seqs[k])
      BY FlatsLen
    <3>. QED
      BY <2>2, <3>1
  <2>4. l[k] \in Nat /\ l[k - 1] \in Nat
    BY <1>2, <2>2
  <2>. HIDE DEF l
  <2>. QED
    BY <2>1, <2>3, <2>4
<1>. HIDE DEF n, l
<1>4. 0 \in S
  BY <1>1, <1>2
<1>5. ASSUME NEW k \in 1 .. n, k - 1 \in S
      PROVE  k \in S
  <2>1. l[k - 1] <= l[k] /\ l[k - 1] \in Nat /\ l[k] \in Nat /\ l[i] \in Nat
    BY <1>1, <1>2, <1>3
  <2>2. i <= k - 1 => l[i] <= l[k - 1]
    BY <1>5
  <2>. QED
    BY <1>1, <2>1, <2>2
<1>. HIDE DEF S
<1>6. \A k \in 0 .. n : k \in S
  BY <1>1, <1>4, <1>5, UpTo
<1>7. l[i] <= l[n]
  BY <1>1, <1>6 DEF S
<1>. QED
  BY <1>1, <1>7 DEF l, n

LEMMA FlattenFirst ==
    ASSUME NEW seqs \in Seq(Texts), NEW n \in 0 .. Len(seqs)
    PROVE  FlattenSeq(Prefix(seqs, n)) = Flats(seqs)[n]
<1>. DEFINE first == SubSeq(seqs, 1, n)
<1>1. Prefix(seqs, n) = first
  BY DEF Prefix, Min2
<1>2. first \in Seq(Texts) /\ Len(first) = n /\ \A i \in 1 .. n : first[i] = seqs[i]
  OBVIOUS
<1>. HIDE DEF first
<1>3. FlattenSeq(first) = Flats(first)[n]
  BY <1>2, FlattenIs
<1>4. CASE n = 0
  BY <1>1, <1>2, <1>3, <1>4, FlatsFact
<1>5. CASE n > 0
  <2>. DEFINE g == Flats(first)
  <2>1. g[0] = <<>> /\ \A i \in 1 .. n : g[i] = g[i - 1] \o seqs[i]
    BY <1>2, FlatsFact
  <2>. HIDE DEF g
  <2>2. 1 \in 1 .. n /\ n \in 1 .. Len(seqs) /\ seqs[1] \in Texts
    BY <1>5
  <2>3. g[1] = seqs[1]
    <3>1. Flats(first)[1] = first[1] /\ first[1] = seqs[1]
      BY <1>2, <2>2, FlatsOne
    <3>. QED
      BY <3>1 DEF g
  <2>4. \A i \in 2 .. n : g[i] = g[i - 1] \o seqs[i]
    <3>1. \A i \in 2 .. n : i \in 1 .. n
      BY <2>2
    <3>. QED
      BY <2>1, <3>1
  <2>5. g[n] = Flats(seqs)[n]
    BY <2>2, <2>3, <2>4, FlatsOnly
  <2>. QED
    BY <1>1, <1>3, <2>5 DEF g
<1>. QED
  BY <1>4, <1>5

LEMMA FlattenType ==
    ASSUME NEW seqs \in Seq(Texts)
    PROVE  FlattenSeq(seqs) \in Texts
<1>1. Len(seqs) \in 0 .. Len(seqs)
  OBVIOUS
<1>. QED
  BY <1>1, FlattenIs, FlatsFact

\* Texts of one token each.
LEMMA Singles ==
    ASSUME NEW text \in Texts, NEW seqs \in Seq(Texts), NEW n \in 0 .. Len(seqs),
           Len(seqs) = Len(text), \A i \in 1 .. n : seqs[i] = <<text[i]>>
    PROVE  Flats(seqs)[n] = SubSeq(text, 1, n)
<1>. DEFINE g == Flats(seqs)
            S == {i \in 0 .. n : g[i] = SubSeq(text, 1, i)}
<1>1. n \in Nat /\ n <= Len(text) /\ Len(text) \in Nat
  BY DEF Texts
<1>2. g[0] = <<>> /\ \A i \in 1 .. n : g[i] = g[i - 1] \o seqs[i]
  <2>1. \A i \in 1 .. n : i \in 1 .. Len(seqs)
    BY <1>1
  <2>. QED
    BY <2>1, FlatsFact
<1>. HIDE DEF g
<1>3. 0 \in S
  <2>1. SubSeq(text, 1, 0) = <<>>
    BY SubSeqEmpty
  <2>2. 0 \in 0 .. n
    BY <1>1
  <2>. QED
    BY <1>2, <2>1, <2>2, Zenon
<1>4. ASSUME NEW i \in 1 .. n, i - 1 \in S
      PROVE  i \in S
  <2>1. SubSeq(text, 1, i) = SubSeq(text, 1, i - 1) \o <<text[i]>>
    <3>1. text \in Seq(Tokens) /\ 1 \in 1 .. Len(text) /\ i \in 1 .. Len(text)
      BY <1>1 DEF Texts
    <3>. QED
      BY <3>1, SubSeqRecursiveSecond
  <2>2. g[i] = g[i - 1] \o seqs[i] /\ seqs[i] = <<text[i]>> /\ g[i - 1] = SubSeq(text, 1, i - 1)
    BY <1>2, <1>4
  <2>. QED
    BY <2>1, <2>2
<1>. HIDE DEF S
<1>5. \A i \in 0 .. n : i \in S
  BY <1>1, <1>3, <1>4, UpTo
<1>. QED
  BY <1>1, <1>5 DEF S, g

-----------------------------------------------------------------------------
(* The request.                                                            *)

LEMMA TextCat ==
    \A s, t \in Texts : s \o t \in Texts /\ Len(s \o t) = Len(s) + Len(t) /\ Len(s) \in Nat
BY DEF Texts

LEMMA PrefixWhole ==
    ASSUME NEW s \in Texts, NEW n \in Int, n >= Len(s)
    PROVE  Prefix(s, n) = s
<1>1. Min2(n, Len(s)) = Len(s) /\ Len(s) \in Nat
  BY DEF Min2, Texts
<1>2. SubSeq(s, 1, Len(s)) = s
  BY SubSeqFull DEF Texts
<1>. QED
  BY <1>1, <1>2 DEF Prefix

LEMMA PrefixType ==
    ASSUME NEW s \in Texts, NEW n \in Int
    PROVE  Prefix(s, n) \in Texts
BY DEF Prefix, Min2, Texts

LEMMA SevenHeaders ==
    HeaderStrings \in Seq(Texts) /\ Len(HeaderStrings) = 7
<1>1. /\ "Host:" \in Tokens /\ "host" \in Tokens /\ "CRLF" \in Tokens
      /\ "User-Agent:" \in Tokens /\ "agent" \in Tokens /\ "Accept-Encoding: gzip" \in Tokens
  BY DEF Tokens, Chars
<1>2. /\ <<"Host:">> \in Texts /\ Host \in Texts /\ Crlf \in Texts
      /\ <<"User-Agent:">> \in Texts /\ <<"agent">> \in Texts /\ <<"Accept-Encoding: gzip">> \in Texts
  <2>1. \A t \in Tokens : <<t>> \in Texts
    BY DEF Texts
  <2>. QED
    BY <1>1, <2>1 DEF Host, Crlf
<1>3. <<"Accept-Encoding: gzip">> \o Crlf \in Texts
  BY <1>2, TextCat
<1>4. \A a, b, c, d, e, f, g \in Texts :
        <<a, b, c, d, e, f, g>> \in Seq(Texts) /\ Len(<<a, b, c, d, e, f, g>>) = 7
  OBVIOUS
<1>. DEFINE gzip == <<"Accept-Encoding: gzip">> \o Crlf
            a1 == <<"Host:">>
            a4 == <<"User-Agent:">>
            a5 == <<"agent">>
<1>5. HeaderStrings = <<a1, Host, Crlf, a4, a5, Crlf, gzip>>
  BY DEF HeaderStrings
<1>6. {a1, Host, Crlf, a4, a5, gzip} \subseteq Texts
  BY <1>2, <1>3
<1>. HIDE DEF a1, a4, a5, gzip
<1>. QED
  BY <1>4, <1>5, <1>6

\* With room for all of them, the header strings are written whole.
LEMMA HeaderWhole ==
    ASSUME setting.bufsize \in Nat, NEW line \in Texts,
           Len(line) + Len(FlattenSeq(HeaderStrings)) + 8 <= setting.bufsize
    PROVE  FullHeader(line) = line \o FlattenSeq(HeaderStrings)
<1>. DEFINE H == HeaderStrings
            l(i) == Len(Flats(H)[i])
            room(i) == setting.bufsize - Len(line) - 1 - Len(FlattenSeq(Prefix(H, i - 1))) - (i - 1)
<1>1. H \in Seq(Texts) /\ Len(H) = 7
  BY SevenHeaders
<1>2. Len(line) \in Nat /\ setting.bufsize \in Nat
  BY TextCat
<1>3. Len(line) + l(7) + 8 <= setting.bufsize
  BY <1>1, FlattenIs
<1>4. ASSUME NEW i \in 1 .. 7
      PROVE  Prefix(H[i], room(i)) = H[i]
  <2>1. FlattenSeq(Prefix(H, i - 1)) = Flats(H)[i - 1]
    <3>1. i - 1 \in 0 .. Len(H)
      BY <1>1
    <3>. HIDE DEF H
    <3>. QED
      BY <1>1, <3>1, FlattenFirst
  <2>2. l(i - 1) \in Nat /\ l(i) \in Nat /\ l(7) \in Nat
    <3>1. i - 1 \in 0 .. Len(H) /\ i \in 0 .. Len(H) /\ 7 \in 0 .. Len(H)
      BY <1>1
    <3>. HIDE DEF H
    <3>. QED
      BY <1>1, <3>1, FlatsLen
  <2>3. l(i) = l(i - 1) + Len(H[i])
    <3>. HIDE DEF H
    <3>. QED
      BY <1>1, FlatsLen
  <2>4. l(i) <= l(7)
    <3>1. i \in 0 .. Len(H)
      BY <1>1
    <3>. HIDE DEF H
    <3>. QED
      BY <1>1, <3>1, FlatsGrow
  <2>5. H[i] \in Texts /\ Len(H[i]) \in Nat
    <3>1. \A h \in Seq(Texts) : \A k \in 1 .. Len(h) : h[k] \in Texts
      OBVIOUS
    <3>2. H[i] \in Texts
      <4>. HIDE DEF H
      <4>. QED
        BY <1>1, <3>1
    <3>. QED
      BY <3>2, TextCat
  <2>6. room(i) = setting.bufsize - Len(line) - 1 - l(i - 1) - (i - 1)
    BY <2>1
  <2>. HIDE DEF room, l, H
  <2>7. room(i) \in Int /\ room(i) >= Len(H[i])
    <3>1. \A b, n, before, all, h \in Nat :
            n + all + 8 <= b /\ before + h <= all =>
                b - n - 1 - before - (i - 1) \in Int /\ b - n - 1 - before - (i - 1) >= h
      OBVIOUS
    <3>2. Len(line) + l(7) + 8 <= setting.bufsize /\ l(i - 1) + Len(H[i]) <= l(7)
      BY <1>3, <2>3, <2>4
    <3>. QED
      BY ZenonT(60), <1>2, <2>2, <2>5, <2>6, <3>1, <3>2
  <2>. QED
    BY <2>5, <2>7, PrefixWhole
<1>5. FullHeader(line) = line \o FlattenSeq([i \in 1 .. 7 |-> Prefix(H[i], room(i))])
  <2>1. DOMAIN H = 1 .. 7
    <3>. HIDE DEF H
    <3>. QED
      BY <1>1
  <2>. QED
    BY <2>1 DEF FullHeader
<1>6. H = [i \in 1 .. 7 |-> H[i]]
  <2>. HIDE DEF H
  <2>. QED
    BY <1>1
<1>. HIDE DEF room, H
<1>7. [i \in 1 .. 7 |-> Prefix(H[i], room(i))] = H
  BY <1>4, <1>6
<1>. QED
  BY <1>5, <1>7 DEF H

\* The texts of a url with its spaces, or its bytes above 127, written out.
Written(url, special, text) ==
    [i \in DOMAIN url |-> IF url[i] = special THEN text ELSE <<url[i]>>]

LEMMA WrittenOut ==
    ASSUME NEW url \in Texts, NEW special, NEW text \in Texts
    PROVE  /\ Written(url, special, text) \in Seq(Texts)
           /\ Len(Written(url, special, text)) = Len(url)
<1>. DEFINE seqs == Written(url, special, text)
<1>1. Len(url) \in Nat /\ DOMAIN url = 1 .. Len(url) /\ \A i \in DOMAIN url : url[i] \in Tokens
  BY DEF Texts
<1>2. \A t \in Tokens : <<t>> \in Texts
  BY DEF Texts
<1>3. seqs \in [1 .. Len(url) -> Texts]
  BY <1>1, <1>2 DEF Written
<1>. HIDE DEF seqs
<1>4. seqs \in Seq(Texts) /\ Len(seqs) = Len(url)
  BY <1>1, <1>3
<1>. QED
  BY <1>4 DEF seqs

LEMMA SpacedFact ==
    ASSUME NEW url \in Texts
    PROVE  /\ Spaced(url) \in Texts
           /\ (\A i \in DOMAIN url : url[i] # " ") => Spaced(url) = url
<1>. DEFINE text == <<"%", "2", "0">>
            seqs == Written(url, " ", text)
<1>1. text \in Texts
  <2>1. "%" \in Tokens /\ "2" \in Tokens /\ "0" \in Tokens
    BY DEF Tokens
  <2>. QED
    BY <2>1 DEF Texts
<1>2. seqs \in Seq(Texts) /\ Len(seqs) = Len(url) /\ DOMAIN url = 1 .. Len(url)
  <2>1. DOMAIN url = 1 .. Len(url)
    BY DEF Texts
  <2>. HIDE DEF text
  <2>. QED
    BY <1>1, <2>1, WrittenOut
<1>3. Spaced(url) = FlattenSeq(seqs)
  BY DEF Spaced, Written
<1>4. ASSUME \A i \in DOMAIN url : url[i] # " "
      PROVE  \A i \in 1 .. Len(url) : seqs[i] = <<url[i]>>
  BY <1>2, <1>4 DEF Written
<1>. HIDE DEF seqs
<1>5. ASSUME \A i \in DOMAIN url : url[i] # " "
      PROVE  FlattenSeq(seqs) = url
  <2>1. Len(url) \in 0 .. Len(seqs) /\ Len(url) \in Nat
    BY <1>2 DEF Texts
  <2>2. Flats(seqs)[Len(url)] = SubSeq(url, 1, Len(url))
    BY <1>2, <1>4, <1>5, <2>1, Singles
  <2>3. SubSeq(url, 1, Len(url)) = url
    BY SubSeqFull DEF Texts
  <2>. QED
    BY <1>2, <2>2, <2>3, FlattenIs
<1>. QED
  BY <1>2, <1>3, <1>5, FlattenType

\* Settings of which a url, and what is read of a page, are made.
SettingOK ==
    /\ setting.bufsize \in Nat /\ setting.imgsize \in Nat /\ MaxReferer \in Nat
    /\ setting.path \in Texts /\ setting.match \in Texts /\ setting.referer \in Texts

LEMMA Pieces ==
    /\ <<"GET">> \in Texts /\ <<"HTTP/1.1">> \in Texts /\ Crlf \in Texts
    /\ FlattenSeq(HeaderStrings) \in Texts
    /\ SettingOK => Referer \in Texts
<1>1. /\ "GET" \in Tokens /\ "HTTP/1.1" \in Tokens /\ "CRLF" \in Tokens /\ "Referer:" \in Tokens
  BY DEF Tokens
<1>2. <<"GET">> \in Texts /\ <<"HTTP/1.1">> \in Texts /\ Crlf \in Texts /\ <<"Referer:">> \in Texts
  <2>1. \A t \in Tokens : <<t>> \in Texts
    BY DEF Texts
  <2>. QED
    BY <1>1, <2>1 DEF Crlf
<1>3. FlattenSeq(HeaderStrings) \in Texts
  BY SevenHeaders, FlattenType
<1>4. ASSUME SettingOK
      PROVE  Referer \in Texts
  <2>1. setting.referer \in Texts /\ MaxReferer \in Int
    BY <1>4 DEF SettingOK
  <2>2. Prefix(setting.referer, MaxReferer) \in Texts
    BY <2>1, PrefixType
  <2>3. <<"Referer:">> \o Prefix(setting.referer, MaxReferer) \o Crlf \in Texts
    BY <1>2, <2>2, TextCat
  <2>4. <<>> \in Texts
    BY DEF Texts
  <2>. QED
    BY <2>3, <2>4 DEF Referer
<1>. QED
  BY <1>2, <1>3, <1>4

LEMMA FullHeaderType ==
    ASSUME SettingOK, NEW line \in Texts
    PROVE  FullHeader(line) \in Texts
<1>. DEFINE H == HeaderStrings
            room(i) == setting.bufsize - Len(line) - 1 - Len(FlattenSeq(Prefix(H, i - 1))) - (i - 1)
            seqs == [i \in 1 .. 7 |-> Prefix(H[i], room(i))]
<1>1. H \in Seq(Texts) /\ Len(H) = 7
  BY SevenHeaders
<1>2. DOMAIN H = 1 .. 7 /\ \A i \in 1 .. 7 : H[i] \in Texts
  <2>. HIDE DEF H
  <2>1. \A h \in Seq(Texts) : DOMAIN h = 1 .. Len(h) /\ \A k \in 1 .. Len(h) : h[k] \in Texts
    OBVIOUS
  <2>. QED
    BY <1>1, <2>1
<1>3. FullHeader(line) = line \o FlattenSeq(seqs)
  BY <1>2 DEF FullHeader
<1>. HIDE DEF H
<1>4. ASSUME NEW i \in 1 .. 7
      PROVE  room(i) \in Int
  <2>1. i - 1 \in 0 .. Len(H)
    BY <1>1
  <2>2. FlattenSeq(Prefix(H, i - 1)) \in Texts
    <3>1. Flats(H)[i - 1] \in Texts
      BY <1>1, <2>1, FlatsFact
    <3>. QED
      BY <1>1, <2>1, <3>1, FlattenFirst
  <2>3. Len(FlattenSeq(Prefix(H, i - 1))) \in Nat /\ Len(line) \in Nat
    BY <2>2, TextCat
  <2>. QED
    BY <2>3 DEF SettingOK
<1>. HIDE DEF room
<1>5. seqs \in [1 .. 7 -> Texts]
  BY <1>2, <1>4, PrefixType
<1>. HIDE DEF seqs
<1>6. seqs \in Seq(Texts)
  <2>1. \A n \in Nat : [1 .. n -> Texts] \subseteq Seq(Texts)
    OBVIOUS
  <2>. QED
    BY <1>5, <2>1
<1>. QED
  BY <1>3, <1>6, FlattenType, TextCat

LEMMA RequestType ==
    ASSUME SettingOK, NEW url \in Texts
    PROVE  Request(url) \in Texts
<1>1. Spaced(url) \in Texts
  BY SpacedFact
<1>2. <<"GET">> \o Spaced(url) \o <<"HTTP/1.1">> \o Crlf \in Texts
  BY <1>1, Pieces, TextCat
<1>3. <<"GET">> \o url \o <<"HTTP/1.1">> \o Crlf \in Texts
  BY Pieces, TextCat
<1>4. RequestLine(url) \in Texts
  <2>1. setting.bufsize - 1 \in Int
    BY DEF SettingOK
  <2>2. Prefix(<<"GET">> \o url \o <<"HTTP/1.1">> \o Crlf, setting.bufsize - 1) \in Texts
    BY <1>3, <2>1, PrefixType
  <2>. QED
    BY <1>2, <2>2 DEF RequestLine
<1>5. FullHeader(RequestLine(url)) \in Texts
  BY <1>4, FullHeaderType
<1>. QED
  BY <1>5, Pieces, TextCat DEF Request

\* A request that fits is what is wanted.
LEMMA RequestFits ==
    ASSUME SettingOK, NEW url \in Texts, Fits(url)
    PROVE  Request(url) = Wanted(url)
<1>. DEFINE line == <<"GET">> \o Spaced(url) \o <<"HTTP/1.1">> \o Crlf
            flat == FlattenSeq(HeaderStrings)
<1>1. line \in Texts /\ flat \in Texts /\ Referer \in Texts /\ Crlf \in Texts
  BY SpacedFact, Pieces, TextCat
<1>2. Wanted(url) = line \o flat \o Referer \o Crlf
  BY DEF Wanted
<1>3. Len(Wanted(url)) + 7 < setting.bufsize
  BY SevenHeaders DEF Fits
<1>4. setting.bufsize \in Nat
  BY DEF SettingOK
<1>. HIDE DEF line, flat
<1>5. /\ Len(Wanted(url)) = Len(line) + Len(flat) + Len(Referer) + Len(Crlf)
      /\ Len(line) \in Nat /\ Len(flat) \in Nat /\ Len(Referer) \in Nat /\ Len(Crlf) \in Nat
  <2>1. line \o flat \in Texts /\ line \o flat \o Referer \in Texts
    BY <1>1, TextCat
  <2>2. Len(line \o flat) = Len(line) + Len(flat)
    BY <1>1, TextCat
  <2>3. Len(line \o flat \o Referer) = Len(line \o flat) + Len(Referer)
    BY <1>1, <2>1, TextCat
  <2>4. Len(line \o flat \o Referer \o Crlf) = Len(line \o flat \o Referer) + Len(Crlf)
    BY <1>1, <2>1, TextCat
  <2>5. Len(line) \in Nat /\ Len(flat) \in Nat /\ Len(Referer) \in Nat /\ Len(Crlf) \in Nat
    BY <1>1, TextCat
  <2>. QED
    BY <1>2, <2>2, <2>3, <2>4, <2>5
<1>6. Len(Crlf) = 1
  BY DEF Crlf
<1>7. Len(line) <= setting.bufsize - 1 /\ Len(line) + Len(flat) + 8 <= setting.bufsize
  BY <1>3, <1>4, <1>5, <1>6
<1>8. RequestLine(url) = line
  <2>1. CASE \E i \in DOMAIN url : url[i] = " "
    BY <2>1 DEF RequestLine, line
  <2>2. CASE \A i \in DOMAIN url : url[i] # " "
    <3>1. Spaced(url) = url
      BY <2>2, SpacedFact
    <3>2. RequestLine(url) = Prefix(line, setting.bufsize - 1)
      BY <2>2, <3>1 DEF RequestLine, line
    <3>3. setting.bufsize - 1 \in Int /\ setting.bufsize - 1 >= Len(line)
      BY <1>4, <1>5, <1>7
    <3>. QED
      BY <1>1, <3>2, <3>3, PrefixWhole
  <2>. QED
    BY <2>1, <2>2
<1>9. FullHeader(line) = line \o flat
  BY <1>1, <1>4, <1>7, HeaderWhole DEF flat
<1>. QED
  BY <1>2, <1>8, <1>9 DEF Request

-----------------------------------------------------------------------------
(* The url of an image.                                                    *)

LEMMA TextsAssociate ==
    ASSUME NEW a \in Texts, NEW b \in Texts, NEW c \in Texts
    PROVE  (a \o b) \o c = a \o (b \o c)
<1>1. a \in Seq(Tokens) /\ b \in Seq(Tokens) /\ c \in Seq(Tokens)
  BY DEF Texts
<1>. QED
  BY SMTT(60), <1>1, ConcatAssociative

LEMMA PrefixOfCat ==
    ASSUME NEW s \in Texts, NEW t \in Texts
    PROVE  IsPrefix(s, s \o t)
<1>1. Len(s) <= Len(s \o t) /\ s \o t \in Texts
  BY TextCat DEF Texts
<1>2. SubSeq(s, 1, Len(s)) = s
  BY SubSeqFull DEF Texts
<1>3. SubSeq(s \o t, 1, Len(s)) = s
  BY SubSeqOfConcat1, <1>2 DEF Texts
<1>. QED
  BY <1>1, <1>2, <1>3 DEF IsPrefix

LEMMA PrefixSplit ==
    ASSUME NEW s \in Texts, NEW t \in Texts, IsPrefix(s, t)
    PROVE  \E u \in Texts : t = s \o u
<1>. DEFINE u == SubSeq(t, Len(s) + 1, Len(t))
<1>1. Len(s) \in Nat /\ Len(t) \in Nat /\ Len(s) <= Len(t)
  BY DEF Texts, IsPrefix
<1>2. u \in Texts
  BY <1>1 DEF Texts
<1>3. SubSeq(t, 1, Len(s)) = s
  BY SubSeqFull DEF IsPrefix, Texts
<1>4. SubSeq(t, 1, Len(s)) \o u = SubSeq(t, 1, Len(t))
  <2>1. 1 \in 1 .. Len(t) + 1 /\ Len(s) \in 1 - 1 .. Len(t) /\ Len(t) \in Len(s) .. Len(t)
    BY <1>1
  <2>. HIDE DEF u
  <2>2. SubSeq(t, 1, Len(s)) \o SubSeq(t, Len(s) + 1, Len(t)) = SubSeq(t, 1, Len(t))
    BY <2>1, ConcatAdjacentSubSeq DEF Texts
  <2>. QED
    BY <2>2 DEF u
<1>5. SubSeq(t, 1, Len(t)) = t
  BY SubSeqFull DEF Texts
<1>. QED
  BY <1>2, <1>3, <1>4, <1>5

LEMMA PrefixLonger ==
    ASSUME NEW s \in Texts, NEW t \in Texts, NEW u \in Texts, IsPrefix(s, t)
    PROVE  IsPrefix(s, t \o u)
<1>1. PICK v \in Texts : t = s \o v
  BY PrefixSplit
<1>2. t \o u = s \o (v \o u) /\ v \o u \in Texts
  BY <1>1, ConcatAssociative, TextCat DEF Texts
<1>. QED
  BY <1>2, PrefixOfCat

LEMMA EscapedFact ==
    /\ Escaped \in Texts /\ Len(Escaped) = 3
    /\ \A room \in Nat : room > 3 => Escape(room) = Escaped
    /\ Escape(3) \in Texts /\ \A s \in Texts : IsPrefix(s \o Escape(3), s \o Escaped)
<1>1. "%" \in Tokens /\ "h" \in Tokens /\ "i" \in Tokens
  BY DEF Tokens
<1>2. Escaped \in Texts /\ Len(Escaped) = 3
  BY <1>1 DEF Escaped, Texts
<1>3. ASSUME NEW room \in Nat, room > 3
      PROVE  Escape(room) = Escaped
  <2>1. room - 1 \in Int /\ room - 1 >= 3
    BY <1>3
  <2>2. Prefix(Escaped, room - 1) = Escaped
    BY <1>2, <2>1, PrefixWhole
  <2>. QED
    BY <2>2 DEF Escape
<1>4. Escape(3) \in Texts
  BY <1>2, PrefixType DEF Escape
<1>5. IsPrefix(Escape(3), Escaped)
  <2>1. Escape(3) = SubSeq(Escaped, 1, 2)
    BY <1>2 DEF Escape, Prefix, Min2
  <2>2. Len(Escape(3)) = 2 /\ SubSeq(Escape(3), 1, 2) = Escape(3)
    <3>1. Len(SubSeq(Escaped, 1, 2)) = 2
      BY <1>2 DEF Texts
    <3>2. SubSeq(Escape(3), 1, Len(Escape(3))) = Escape(3)
      BY <1>4, SubSeqFull DEF Texts
    <3>. QED
      BY <2>1, <3>1, <3>2
  <2>3. SubSeq(Escape(3), 1, Len(Escape(3))) = SubSeq(Escaped, 1, Len(Escape(3)))
    BY <2>1, <2>2
  <2>4. Len(Escape(3)) <= Len(Escaped)
    BY <1>2, <2>2
  <2>. QED
    BY <2>3, <2>4 DEF IsPrefix
<1>6. PICK u \in Texts : Escaped = Escape(3) \o u
  BY <1>2, <1>4, <1>5, PrefixSplit
<1>7. ASSUME NEW s \in Texts
      PROVE  IsPrefix(s \o Escape(3), s \o Escaped)
  <2>1. s \o Escaped = (s \o Escape(3)) \o u
    <3>. DEFINE e == Escape(3)
    <3>1. \A a, b, c \in Texts : (a \o b) \o c = a \o (b \o c)
      BY TextsAssociate
    <3>. HIDE DEF e
    <3>. QED
      BY <1>4, <1>6, <3>1 DEF e
  <2>2. s \o Escape(3) \in Texts
    BY <1>4, TextCat
  <2>. QED
    BY <2>1, <2>2, PrefixOfCat
<1>. QED
  BY <1>2, <1>3, <1>4, <1>7

\* One turn of the loop of fixup_url.
FixupTurn(url, i, p) ==
    IF p.len <= 0 \/ p.stop THEN p
    ELSE IF url[i] # "hi"
    THEN [p EXCEPT !.tmp = Append(@, url[i]), !.len = @ - 1]
    ELSE IF p.len < 3 THEN [p EXCEPT !.stop = TRUE]
    ELSE [p EXCEPT !.tmp = @ \o Escape(p.len), !.len = @ - 3, !.did = TRUE]

FixupState == [tmp : Texts, len : Int, stop : BOOLEAN, did : BOOLEAN]

FixupRun(url, size, f) ==
    /\ f \in [0 .. Len(url) -> FixupState]
    /\ f[0] = [tmp |-> <<>>, len |-> size - 1, stop |-> FALSE, did |-> FALSE]
    /\ \A i \in 1 .. Len(url) : f[i] = FixupTurn(url, i, f[i - 1])

LEMMA FixupTurnType ==
    ASSUME NEW url \in Texts, NEW i \in 1 .. Len(url), NEW p \in FixupState
    PROVE  FixupTurn(url, i, p) \in FixupState
<1>1. url[i] \in Tokens
  BY DEF Texts
<1>2. Append(p.tmp, url[i]) \in Texts
  BY <1>1 DEF FixupState, Texts
<1>3. p.len \in Int /\ p.tmp \in Texts
  BY DEF FixupState
<1>4. p.tmp \o Escape(p.len) \in Texts
  <2>1. Escape(p.len) \in Texts
    BY <1>3, EscapedFact, PrefixType DEF Escape
  <2>. QED
    BY <1>3, <2>1, TextCat
<1>5. \A t \in Texts : \A l \in Int :
        /\ [p EXCEPT !.tmp = t, !.len = l] \in FixupState
        /\ [p EXCEPT !.tmp = t, !.len = l, !.did = TRUE] \in FixupState
        /\ [p EXCEPT !.stop = TRUE] \in FixupState
  BY DEF FixupState
<1>6. p.len - 1 \in Int /\ p.len - 3 \in Int
  BY <1>3
<1>. QED
  BY <1>2, <1>4, <1>5, <1>6 DEF FixupTurn

LEMMA FixupRunExists ==
    ASSUME NEW url \in Texts, NEW size \in Nat
    PROVE  \E f : FixupRun(url, size, f)
<1>. DEFINE n == Len(url)
            start == [tmp |-> <<>>, len |-> size - 1, stop |-> FALSE, did |-> FALSE]
            g == [x \in (1 .. n) \X FixupState |-> FixupTurn(url, x[1], x[2])]
<1>1. n \in Nat
  BY DEF Texts
<1>2. start \in FixupState
  BY DEF FixupState, Texts
<1>3. \A i \in 1 .. n : \A p \in FixupState : g[<<i, p>>] = FixupTurn(url, i, p)
  OBVIOUS
<1>. HIDE DEF g
<1>4. \A i \in 1 .. n : \A p \in FixupState : g[<<i, p>>] \in FixupState
  BY <1>3, FixupTurnType
<1>. HIDE DEF n, start
<1>5. Recursive(n, FixupState, start, g)
  BY <1>1, <1>2, <1>4, RecursiveExists
<1>6. PICK f \in [0 .. n -> FixupState] :
        f[0] = start /\ \A i \in 1 .. n : f[i] = g[<<i, f[i - 1]>>]
  BY <1>5 DEF Recursive
<1>7. \A i \in 1 .. n : f[i] = FixupTurn(url, i, f[i - 1])
  <2>1. \A i \in 1 .. n : f[i - 1] \in FixupState
    BY <1>1
  <2>. QED
    BY <1>3, <1>6, <2>1
<1>8. FixupRun(url, size, f)
  BY <1>6, <1>7 DEF FixupRun, n, start
<1>. QED
  BY <1>8

LEMMA FixupIs ==
    ASSUME NEW url \in Texts, NEW size \in Nat
    PROVE  \E f : /\ FixupRun(url, size, f)
                  /\ FixupUrl(url, size) = IF f[Len(url)].did THEN f[Len(url)].tmp ELSE url
<1>. DEFINE n == Len(url)
            start == [tmp |-> <<>>, len |-> size - 1, stop |-> FALSE, did |-> FALSE]
            Is(f) == f = [i \in 0 .. n |-> IF i = 0 THEN start ELSE FixupTurn(url, i, f[i - 1])]
            F == CHOOSE f : Is(f)
<1>1. FixupUrl(url, size) = IF F[n].did THEN F[n].tmp ELSE url
  BY DEF FixupUrl, FixupTurn
<1>2. PICK h : FixupRun(url, size, h)
  BY FixupRunExists
<1>3. n \in Nat
  BY DEF Texts
<1>. HIDE DEF n
<1>4. Is(h)
  <2>1. h \in [0 .. n -> FixupState] /\ h[0] = start
    BY <1>2 DEF FixupRun, n
  <2>2. \A i \in 0 .. n : i # 0 => h[i] = FixupTurn(url, i, h[i - 1])
    <3>1. \A i \in 0 .. n : i # 0 => i \in 1 .. n
      BY <1>3
    <3>. QED
      BY <1>2, <3>1 DEF FixupRun, n
  <2>. HIDE DEF start
  <2>3. h = [i \in 0 .. n |-> h[i]]
    BY <2>1
  <2>4. \A i \in 0 .. n : h[i] = IF i = 0 THEN start ELSE FixupTurn(url, i, h[i - 1])
    BY <2>1, <2>2
  <2>. QED
    BY <2>3, <2>4
<1>5. Is(F)
  <2>. HIDE DEF Is
  <2>. QED
    BY <1>4
<1>6. ASSUME NEW f, Is(f)
      PROVE  f[0] = start /\ \A i \in 1 .. n : f[i] = FixupTurn(url, i, f[i - 1])
  <2>. HIDE DEF start
  <2>1. \A i \in 0 .. n : f[i] = IF i = 0 THEN start ELSE FixupTurn(url, i, f[i - 1])
    BY <1>6
  <2>2. 0 \in 0 .. n /\ \A i \in 1 .. n : i \in 0 .. n /\ i # 0
    BY <1>3
  <2>. QED
    BY <2>1, <2>2
<1>7. ASSUME NEW f, Is(f)
      PROVE  f = h
  <2>. DEFINE S == {i \in 0 .. n : f[i] = h[i]}
  <2>. HIDE DEF start, Is
  <2>1. 0 \in S
    <3>1. 0 \in 0 .. n
      BY <1>3
    <3>. QED
      BY <1>4, <1>6, <1>7, <3>1
  <2>2. ASSUME NEW i \in 1 .. n, i - 1 \in S
        PROVE  i \in S
    <3>1. f[i - 1] = h[i - 1] /\ i \in 0 .. n
      BY <2>2
    <3>2. f[i] = FixupTurn(url, i, f[i - 1]) /\ h[i] = FixupTurn(url, i, h[i - 1])
      BY <1>4, <1>6, <1>7
    <3>. QED
      BY <3>1, <3>2
  <2>. HIDE DEF S
  <2>3. \A i \in 0 .. n : i \in S
    BY <1>3, <2>1, <2>2, UpTo
  <2>4. \A i \in 0 .. n : f[i] = h[i]
    BY <2>3 DEF S
  <2>5. f = [i \in 0 .. n |-> f[i]] /\ h = [i \in 0 .. n |-> h[i]]
    BY <1>4, <1>7 DEF Is
  <2>. QED
    BY <2>4, <2>5
<1>8. F = h
  <2>. HIDE DEF Is, F
  <2>. QED
    BY <1>5, <1>7
<1>. HIDE DEF F
<1>. QED
  BY <1>1, <1>2, <1>8 DEF n

\* What the loop has after i turns, e being the first i bytes written out: all of
\* it, as long as there is room; then a part, and e is too long.
FixupInv(url, size, i, e, p) ==
    /\ p.len > 0 /\ ~p.stop =>
         p.tmp = e /\ p.len = size - 1 - Len(e) /\ (~p.did => e = SubSeq(url, 1, i))
    /\ p.len <= 0 \/ p.stop => IsPrefix(p.tmp, e) /\ size <= Len(e) + 1

LEMMA FixupTurnInv ==
    ASSUME NEW url \in Texts, NEW size \in Nat, NEW i \in 1 .. Len(url), NEW e \in Texts,
           NEW p \in FixupState, FixupInv(url, size, i - 1, e, p)
    PROVE  FixupInv(url, size, i, e \o (IF url[i] = "hi" THEN Escaped ELSE <<url[i]>>),
                    FixupTurn(url, i, p))
<1>. DEFINE x == IF url[i] = "hi" THEN Escaped ELSE <<url[i]>>
            q == FixupTurn(url, i, p)
<1>1. /\ p.tmp \in Texts /\ p.len \in Int /\ p.stop \in BOOLEAN /\ p.did \in BOOLEAN
      /\ p = [tmp |-> p.tmp, len |-> p.len, stop |-> p.stop, did |-> p.did]
  BY DEF FixupState
<1>2. url[i] \in Tokens /\ <<url[i]>> \in Texts /\ Len(<<url[i]>>) = 1
  BY DEF Texts
<1>3. x \in Texts /\ (url[i] = "hi" => Len(x) = 3) /\ (url[i] # "hi" => Len(x) = 1)
  BY <1>2, EscapedFact
<1>4. Len(e \o x) = Len(e) + Len(x) /\ Len(e) \in Nat /\ Len(x) \in Nat /\ e \o x \in Texts
  <2>. HIDE DEF x
  <2>. QED
    BY <1>3, TextCat
<1>5. SUFFICES FixupInv(url, size, i, e \o x, q)
  OBVIOUS
<1>6. CASE p.len <= 0 \/ p.stop
  <2>1. q = p
    BY <1>6 DEF FixupTurn
  <2>2. IsPrefix(p.tmp, e) /\ size <= Len(e) + 1
    BY <1>6 DEF FixupInv
  <2>. HIDE DEF x, q
  <2>3. IsPrefix(p.tmp, e \o x)
    BY <1>1, <1>3, <2>2, PrefixLonger
  <2>4. size <= Len(e \o x) + 1
    BY <1>4, <2>2
  <2>. QED
    BY <1>6, <2>1, <2>3, <2>4 DEF FixupInv
<1>7. CASE p.len > 0 /\ ~p.stop
  <2>1. p.tmp = e /\ p.len = size - 1 - Len(e) /\ (~p.did => e = SubSeq(url, 1, i - 1))
    BY <1>7 DEF FixupInv
  <2>2. CASE url[i] # "hi"
    <3>1. q = [p EXCEPT !.tmp = Append(@, url[i]), !.len = @ - 1]
      BY <1>1, <1>7, <2>2 DEF FixupTurn
    <3>2. q.len = p.len - 1 /\ q.stop = FALSE /\ q.did = p.did /\ q.tmp = Append(p.tmp, url[i])
      BY <1>1, <1>7, <3>1
    <3>3. x = <<url[i]>> /\ Append(e, url[i]) = e \o x
      BY <1>2, <2>2 DEF Texts
    <3>4. SubSeq(url, 1, i) = SubSeq(url, 1, i - 1) \o <<url[i]>>
      <4>1. url \in Seq(Tokens) /\ 1 \in 1 .. Len(url) /\ i \in 1 .. Len(url)
        BY DEF Texts
      <4>. QED
        BY <4>1, SubSeqRecursiveSecond
    <3>5. q.tmp = e \o x /\ q.len = size - 1 - Len(e \o x)
      BY <1>3, <1>4, <2>1, <2>2, <3>2, <3>3
    <3>6. ~q.did => e \o x = SubSeq(url, 1, i)
      BY <2>1, <3>2, <3>3, <3>4
    <3>7. IsPrefix(e \o x, e \o x)
      <4>. HIDE DEF x
      <4>. QED
        BY <1>4, SubSeqFull DEF IsPrefix, Texts
    <3>8. q.len <= 0 => size <= Len(e \o x) + 1
      BY <1>4, <3>5
    <3>. HIDE DEF x, q
    <3>. QED
      BY <3>2, <3>5, <3>6, <3>7, <3>8 DEF FixupInv
  <2>3. CASE url[i] = "hi" /\ p.len < 3
    <3>1. q = [p EXCEPT !.stop = TRUE]
      BY <1>1, <1>7, <2>3 DEF FixupTurn
    <3>2. q.stop = TRUE /\ q.tmp = e
      BY <1>1, <2>1, <3>1
    <3>3. IsPrefix(e, e \o x)
      BY <1>3, PrefixOfCat
    <3>4. size <= Len(e \o x) + 1
      <4>1. Len(x) = 3
        BY <1>3, <2>3
      <4>2. p.len < 3 /\ p.len = size - 1 - Len(e) /\ Len(e \o x) = Len(e) + 3 /\ Len(e) \in Nat
        BY <1>4, <2>1, <2>3, <4>1
      <4>. HIDE DEF x, q
      <4>. QED
        BY <4>2
    <3>. HIDE DEF x, q
    <3>. QED
      BY <3>2, <3>3, <3>4 DEF FixupInv
  <2>4. CASE url[i] = "hi" /\ p.len >= 3
    <3>1. q = [p EXCEPT !.tmp = @ \o Escape(p.len), !.len = @ - 3, !.did = TRUE]
      BY <1>1, <1>7, <2>4 DEF FixupTurn
    <3>2. q.len = p.len - 3 /\ q.stop = FALSE /\ q.did = TRUE /\ q.tmp = e \o Escape(p.len)
      BY <1>1, <1>7, <2>1, <3>1
    <3>3. x = Escaped /\ Len(x) = 3
      BY <1>3, <2>4
    <3>4. q.len = size - 1 - Len(e \o x)
      <4>. HIDE DEF x, q
      <4>. QED
        BY <1>1, <1>4, <2>1, <3>2, <3>3
    <3>5. CASE p.len = 3
      <4>1. q.len = 0 /\ IsPrefix(q.tmp, e \o x)
        BY <3>2, <3>3, <3>5, EscapedFact
      <4>2. size <= Len(e \o x) + 1
        <5>. HIDE DEF x, q
        <5>. QED
          BY <1>4, <3>4, <4>1
      <4>. HIDE DEF x, q
      <4>. QED
        BY <4>1, <4>2 DEF FixupInv
    <3>6. CASE p.len > 3
      <4>1. q.len > 0 /\ q.tmp = e \o x
        <5>1. p.len \in Nat /\ p.len - 3 > 0
          BY <1>1, <3>6
        <5>2. Escape(p.len) = Escaped
          BY <3>6, <5>1, EscapedFact
        <5>. QED
          BY <3>2, <3>3, <5>1, <5>2
      <4>. HIDE DEF x, q
      <4>. QED
        BY <3>2, <3>4, <4>1 DEF FixupInv
    <3>. QED
      BY <1>1, <2>4, <3>5, <3>6
  <2>. QED
    BY <1>1, <2>2, <2>3, <2>4
<1>. QED
  BY <1>1, <1>6, <1>7

\* What fixup_url promises of any url, and any buffer.
LEMMA FixupSafe ==
    ASSUME NEW url \in Texts, NEW size \in Nat
    PROVE  /\ FixupUrl(url, size) \in Texts
           /\ IF Len(Encoded(url)) + 1 < size
              THEN FixupUrl(url, size) = Encoded(url)
              ELSE IsPrefix(FixupUrl(url, size), Encoded(url)) \/ FixupUrl(url, size) = url
<1>. DEFINE n == Len(url)
            seqs == Written(url, "hi", Escaped)
            E == Flats(seqs)
<1>1. PICK f : /\ FixupRun(url, size, f)
               /\ FixupUrl(url, size) = IF f[n].did THEN f[n].tmp ELSE url
  BY FixupIs
<1>2. n \in Nat /\ DOMAIN url = 1 .. n
  BY DEF Texts
<1>3. seqs \in Seq(Texts) /\ Len(seqs) = n
  BY EscapedFact, WrittenOut
<1>4. \A i \in 1 .. n : seqs[i] = IF url[i] = "hi" THEN Escaped ELSE <<url[i]>>
  BY <1>2 DEF Written
<1>5. Encoded(url) = E[n]
  <2>1. Encoded(url) = FlattenSeq(seqs)
    BY DEF Encoded, Written
  <2>. QED
    BY <1>3, <2>1, FlattenIs
<1>6. /\ \A i \in 0 .. n : E[i] \in Texts
      /\ E[0] = <<>> /\ \A i \in 1 .. n : E[i] = E[i - 1] \o seqs[i]
  <2>. HIDE DEF seqs, n
  <2>. QED
    BY <1>3, FlatsFact
<1>. HIDE DEF E, seqs
<1>7. /\ \A i \in 0 .. n : f[i] \in FixupState
      /\ f[0] = [tmp |-> <<>>, len |-> size - 1, stop |-> FALSE, did |-> FALSE]
      /\ \A i \in 1 .. n : f[i] = FixupTurn(url, i, f[i - 1])
  BY <1>1 DEF FixupRun
<1>. DEFINE S == {i \in 0 .. n : FixupInv(url, size, i, E[i], f[i])}
<1>8. 0 \in S
  <2>1. f[0].tmp = <<>> /\ f[0].len = size - 1 /\ f[0].stop = FALSE
    BY <1>7
  <2>2. SubSeq(url, 1, 0) = <<>>
    BY SubSeqEmpty
  <2>3. IsPrefix(<<>>, <<>>)
    BY DEF IsPrefix
  <2>4. FixupInv(url, size, 0, E[0], f[0])
    BY <1>6, <2>1, <2>2, <2>3 DEF FixupInv
  <2>5. 0 \in 0 .. n
    BY <1>2
  <2>. QED
    BY <2>4, <2>5
<1>9. ASSUME NEW i \in 1 .. n, i - 1 \in S
      PROVE  i \in S
  <2>1. i - 1 \in 0 .. n /\ i \in 0 .. n
    BY <1>2
  <2>2. FixupInv(url, size, i - 1, E[i - 1], f[i - 1]) /\ E[i - 1] \in Texts /\ f[i - 1] \in FixupState
    BY <1>6, <1>7, <1>9, <2>1
  <2>3. FixupInv(url, size, i, E[i - 1] \o (IF url[i] = "hi" THEN Escaped ELSE <<url[i]>>),
                 FixupTurn(url, i, f[i - 1]))
    BY <2>2, FixupTurnInv
  <2>4. FixupInv(url, size, i, E[i], f[i])
    BY <1>4, <1>6, <1>7, <2>3
  <2>. QED
    BY <2>1, <2>4
<1>. HIDE DEF S
<1>10. \A i \in 0 .. n : i \in S
  BY <1>2, <1>8, <1>9, UpTo
<1>. DEFINE p == f[n]
            path1 == FixupUrl(url, size)
            e == E[n]
<1>11. FixupInv(url, size, n, e, p) /\ p \in FixupState /\ e \in Texts
  BY <1>2, <1>6, <1>7, <1>10 DEF S
<1>12. path1 = IF p.did THEN p.tmp ELSE url
  BY <1>1
<1>13. SubSeq(url, 1, n) = url
  BY SubSeqFull DEF Texts
<1>14. IsPrefix(e, e)
  BY <1>11, SubSeqFull DEF IsPrefix, Texts
<1>15. /\ p.tmp \in Texts /\ p.len \in Int /\ p.stop \in BOOLEAN /\ p.did \in BOOLEAN
       /\ Len(e) \in Nat
  BY <1>11, TextCat DEF FixupState
<1>. HIDE DEF p, e, path1
<1>16. path1 \in Texts
  BY <1>12, <1>15
<1>17. CASE p.len > 0 /\ ~p.stop
  <2>1. path1 = e
    BY <1>11, <1>12, <1>13, <1>17 DEF FixupInv
  <2>. QED
    BY <1>5, <1>14, <1>16, <2>1 DEF path1, e
<1>18. CASE p.len <= 0 \/ p.stop
  <2>1. IsPrefix(p.tmp, e) /\ ~(Len(e) + 1 < size)
    BY <1>11, <1>15, <1>18 DEF FixupInv
  <2>2. IsPrefix(path1, e) \/ path1 = url
    BY <1>12, <2>1
  <2>. QED
    BY <1>5, <1>16, <2>1, <2>2 DEF path1, e
<1>. QED
  BY <1>15, <1>17, <1>18

-----------------------------------------------------------------------------
(* The program.  What is to be sent and what was sent are the request for  *)
(* the url as it is, and that is the comic's or the image's.               *)

SentInv ==
    /\ SettingOK /\ path \in Texts /\ curp \in Texts /\ sent \in Texts
    /\ phase \in {"send", "read", "over"}
    /\ matched \in BOOLEAN
    /\ phase = "send" => sent \o curp = Request(path)
    /\ phase = "read" => sent = Request(path) /\ curp = <<>>

PathInv == path = IF matched THEN FixupUrl(setting.match, setting.imgsize) ELSE setting.path

SenderInv == SentInv /\ PathInv

LEMMA SettingsOK ==
    ASSUME setting \in Settings
    PROVE  SettingOK
<1>1. setting \in Setting /\ MaxReferer \in Nat
  BY SenderAssumption
<1>2. Chars \subseteq Tokens
  BY DEF Tokens
<1>3. Seq(Chars) \subseteq Texts
  BY <1>2 DEF Texts
<1>4. setting.path \in Seq(Chars) /\ setting.match \in Seq(Chars) /\ setting.referer \in Seq(Chars)
  BY <1>1 DEF Setting
<1>5. setting.bufsize \in Nat /\ setting.imgsize \in Nat
  BY <1>1 DEF Setting
<1>. QED
  BY <1>1, <1>3, <1>4, <1>5 DEF SettingOK

LEMMA SenderInit ==
    ASSUME Init
    PROVE  SenderInv
<1>1. SettingOK
  BY SettingsOK DEF Init
<1>2. path = setting.path /\ path \in Texts /\ matched = FALSE /\ phase = "send"
  BY <1>1 DEF Init, SettingOK
<1>3. curp = Request(path) /\ sent = <<>> /\ Request(path) \in Texts
  BY <1>1, <1>2, RequestType DEF Init
<1>4. sent \in Texts /\ sent \o curp = curp
  BY <1>3 DEF Texts
<1>. QED
  BY <1>1, <1>2, <1>3, <1>4 DEF SenderInv, SentInv, PathInv

\* A connection that begins anew, for the url that is there then.
LEMMA ConnectSends ==
    ASSUME SenderInv, UNCHANGED setting, path' \in Texts, matched' \in BOOLEAN, PathInv',
           curp' = Request(path'), sent' = <<>>, phase' = "send"
    PROVE  SenderInv'
<1>1. SettingOK'
  BY DEF SenderInv, SentInv, SettingOK
<1>2. Request(path)' = Request(path')
  BY DEF Request, FullHeader, RequestLine, Referer
<1>3. Request(path') \in Texts
  BY RequestType DEF SenderInv, SentInv
<1>4. sent' \in Texts /\ sent' \o curp' = curp'
  BY <1>3 DEF Texts
<1>. QED
  BY <1>1, <1>2, <1>3, <1>4 DEF SenderInv, SentInv

\* A step that touches neither the url nor the request.
LEMMA SenderKept ==
    ASSUME SenderInv, UNCHANGED <<setting, path, matched, curp, sent>>,
           phase' = phase \/ phase' = "over"
    PROVE  SenderInv'
<1>1. SettingOK' /\ PathInv'
  BY DEF SenderInv, SentInv, SettingOK, PathInv
<1>2. Request(path)' = Request(path)
  BY DEF Request, FullHeader, RequestLine, Referer
<1>. QED
  BY <1>1, <1>2 DEF SenderInv, SentInv

LEMMA SenderWriteAll ==
    ASSUME SenderInv, WriteAll
    PROVE  SenderInv'
<1>1. phase = "send" /\ phase' = "read" /\ UNCHANGED <<setting, path, matched>>
  BY DEF WriteAll, Writable, conn
<1>2. sent' = Request(path) /\ curp' = <<>>
  BY SMTT(60), <1>1 DEF WriteAll, SenderInv, SentInv
<1>3. SettingOK' /\ PathInv' /\ Request(path)' = Request(path)
  BY <1>1 DEF SenderInv, SentInv, SettingOK, PathInv, Request, FullHeader, RequestLine, Referer
<1>4. Request(path) \in Texts /\ <<>> \in Texts
  BY RequestType DEF SenderInv, SentInv, Texts
<1>. QED
  BY <1>1, <1>2, <1>3, <1>4 DEF SenderInv, SentInv

LEMMA SenderWritePart ==
    ASSUME SenderInv, WritePart
    PROVE  SenderInv'
<1>1. phase = "send" /\ phase' = "send" /\ UNCHANGED <<setting, path, matched>>
  BY DEF WritePart, Writable, conn
<1>2. PICK n \in 1 .. Len(curp) - 1 :
        sent' = sent \o Prefix(curp, n) /\ curp' = Suffix(curp, n)
  BY DEF WritePart
<1>3. curp \in Texts /\ sent \in Texts /\ sent \o curp = Request(path)
  BY <1>1 DEF SenderInv, SentInv
<1>4. Len(curp) \in Nat /\ n \in Nat /\ n <= Len(curp)
  BY <1>3, TextCat
<1>5. Prefix(curp, n) = SubSeq(curp, 1, n) /\ Prefix(curp, n) \in Texts /\ Suffix(curp, n) \in Texts
  <2>1. Prefix(curp, n) = SubSeq(curp, 1, n)
    BY <1>4 DEF Prefix, Min2
  <2>2. Prefix(curp, n) \in Texts
    BY <1>3, PrefixType
  <2>3. Suffix(curp, n) \in Texts
    BY <1>3, <1>4 DEF Suffix, Texts
  <2>. QED
    BY <2>1, <2>2, <2>3
<1>6. Prefix(curp, n) \o Suffix(curp, n) = curp
  <2>1. 1 \in 1 .. Len(curp) + 1 /\ n \in 1 - 1 .. Len(curp) /\ Len(curp) \in n .. Len(curp)
    BY <1>4
  <2>2. SubSeq(curp, 1, n) \o SubSeq(curp, n + 1, Len(curp)) = SubSeq(curp, 1, Len(curp))
    BY <1>3, <2>1, ConcatAdjacentSubSeq DEF Texts
  <2>3. SubSeq(curp, 1, Len(curp)) = curp
    BY <1>3, SubSeqFull DEF Texts
  <2>. QED
    BY <1>5, <2>2, <2>3 DEF Suffix
<1>7. sent' \o curp' = sent \o curp
  <2>1. (sent \o Prefix(curp, n)) \o Suffix(curp, n) = sent \o (Prefix(curp, n) \o Suffix(curp, n))
    BY <1>3, <1>5, TextsAssociate
  <2>. QED
    BY <1>2, <1>6, <2>1
<1>8. sent' \in Texts /\ curp' \in Texts
  BY <1>2, <1>3, <1>5, TextCat
<1>9. SettingOK' /\ PathInv' /\ Request(path)' = Request(path)
  BY <1>1 DEF SenderInv, SentInv, SettingOK, PathInv, Request, FullHeader, RequestLine, Referer
<1>. QED
  BY <1>1, <1>3, <1>7, <1>8, <1>9 DEF SenderInv, SentInv

LEMMA SenderReset ==
    ASSUME SenderInv, Reset
    PROVE  SenderInv'
<1>1. UNCHANGED <<setting, path, matched>>
  BY DEF Reset
<1>2. path' \in Texts /\ matched' \in BOOLEAN /\ PathInv'
  BY <1>1 DEF SenderInv, SentInv, PathInv
<1>3. CASE Connect(path)
  <2>1. curp' = Request(path') /\ sent' = <<>> /\ phase' = "send"
    BY <1>1, <1>3 DEF Connect
  <2>. QED
    BY <1>1, <1>2, <2>1, ConnectSends
<1>4. CASE phase' = "over" /\ UNCHANGED <<net, access, curp, sent>>
  BY <1>1, <1>4, SenderKept
<1>. QED
  BY <1>3, <1>4 DEF Reset

LEMMA SenderHtml ==
    ASSUME SenderInv, Html
    PROVE  SenderInv'
<1>. DEFINE image == FixupUrl(setting.match, setting.imgsize)
<1>1. matched' = TRUE /\ path' = image /\ UNCHANGED setting
  BY DEF Html
<1>2. image \in Texts
  BY FixupSafe DEF SenderInv, SentInv, SettingOK
<1>4. PathInv'
  BY <1>1 DEF PathInv
<1>5. curp' = Request(image) /\ sent' = <<>> /\ phase' = "send"
  BY DEF Html, Connect
<1>. HIDE DEF image
<1>. QED
  BY <1>1, <1>2, <1>4, <1>5, ConnectSends

LEMMA SenderStep ==
    ASSUME SenderInv, [Next]_vars
    PROVE  SenderInv'
<1>1. CASE Idle
  BY <1>1, SenderKept DEF Idle, Fail, conn
<1>2. CASE SkipConn
  BY <1>2, SenderKept DEF SkipConn, vars, conn
<1>3. CASE CheckConnect
  BY <1>3, SenderKept DEF CheckConnect, Fail, conn
<1>4. CASE WriteAll
  BY <1>4, SenderWriteAll
<1>5. CASE WritePart
  BY <1>5, SenderWritePart
<1>6. CASE WriteAgain
  BY <1>6, SenderKept DEF WriteAgain, conn
<1>7. CASE WriteError
  BY <1>7, SenderKept DEF WriteError, Fail, conn
<1>8. CASE Reset
  BY <1>8, SenderReset
<1>9. CASE Html
  BY <1>9, SenderHtml
<1>10. CASE Close
  BY <1>10, SenderKept DEF Close, Fail, conn
<1>11. CASE Network
  BY <1>11, SenderKept DEF Network, conn
<1>12. CASE Terminating \/ UNCHANGED vars
  BY <1>12, SenderKept DEF Terminating, vars, conn
<1>. QED
  BY <1>1, <1>2, <1>3, <1>4, <1>5, <1>6, <1>7, <1>8, <1>9, <1>10, <1>11, <1>12 DEF Next, Program

\* The invariant of the writes, over resets, parts and the second stage.
THEOREM SenderInductive == Spec => []SenderInv
<1>1. Init => SenderInv
  BY SenderInit
<1>2. SenderInv /\ [Next]_vars => SenderInv'
  BY SenderStep
<1>. QED
  BY <1>1, <1>2, PTL DEF Spec

\* A request that fits its buffer has been sent whole, once, when the program
\* begins to wait for the reply.
THEOREM SenderRequestWhole == Spec => []RequestWhole
<1>1. SenderInv => RequestWhole
  BY RequestFits DEF SenderInv, SentInv, RequestWhole
<1>. QED
  BY <1>1, SenderInductive, PTL

\* The path of an image, of any url in any buffer, is that url written out, or a
\* part of it.
THEOREM SenderPathSafe == Spec => []PathSafe
<1>1. SenderInv => PathSafe
  <2>. SUFFICES ASSUME SenderInv, matched
                PROVE  IF Len(Encoded(setting.match)) + 1 < setting.imgsize
                       THEN path = Encoded(setting.match)
                       ELSE IsPrefix(path, Encoded(setting.match)) \/ path = setting.match
    BY DEF PathSafe
  <2>1. path = FixupUrl(setting.match, setting.imgsize)
    BY DEF SenderInv, PathInv
  <2>2. setting.match \in Texts /\ setting.imgsize \in Nat
    BY DEF SenderInv, SentInv, SettingOK
  <2>. QED
    BY <2>1, <2>2, FixupSafe
<1>. QED
  BY <1>1, SenderInductive, PTL
=============================================================================
