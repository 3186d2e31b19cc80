--------------------------- MODULE ProgramsProofs ---------------------------
(***************************************************************************)
(* What is proved about Programs.tla, for any command lines, in any number *)
(* of runs, configurations, sites and directories: which files a run may   *)
(* change, that success means that the files are there, that the page that *)
(* is searched is the comic's own, that a command line is understood as    *)
(* POSIX has it, and what -c removes.                                      *)
(***************************************************************************)
EXTENDS Programs, FiniteSetTheorems, SequenceTheorems, WellFoundedInduction, TLAPS

\* Each page has a name of its own.  (ToString is TLC's, and nothing can be proved of it.)
Injective == \A m \in Nat, n \in Nat : Regfname(m) = Regfname(n) => m = n

Stages == {"queued", "page", "image", "got", "missed", "failed", "stuck"}
Fields == {"clean", "verify", "unlink", "links", "dir", "index", "threads", "threadsSet",
           "timeout", "regexp", "unique", "extend"}

IsList(l) == l \in Seq({l[i] : i \in DOMAIN l})
ComicOK(c) ==
    /\ DOMAIN c = {"url", "out", "regexp", "page", "unique", "stage", "exts", "resets", "whole"}
    /\ c.regexp \in BOOLEAN /\ c.whole \in BOOLEAN /\ c.stage \in Stages /\ c.resets \in Nat
    /\ IsList(c.out) /\ c.exts \in Seq(Exts)
    /\ c.stage \in {"page", "image", "failed", "stuck"} => c.regexp

\* A comic that was put on the list and not started; what is put there.
Queued(c) == ComicOK(c) /\ c.stage = "queued" /\ c.exts = <<>>
EntryOK(e) == e.regexp \in BOOLEAN /\ IsList(e.out)

OptionsInv ==
    /\ run \in DOMAIN Commands /\ pc \in {"options", "operands", "loop", "stopped", "exit"}
    /\ DOMAIN g = {"optind", "argptr", "ret", "optarg"}
    /\ DOMAIN set = Fields
    /\ set.unlink \in BOOLEAN /\ set.links \in BOOLEAN /\ set.regexp \in BOOLEAN

ListInv ==
    /\ IsList(comics) /\ unique \in Nat
    /\ \A i \in DOMAIN comics :
         ComicOK(comics[i]) /\ (~set.extend => comics[i].exts = <<>>)
    /\ pc \in {"options", "operands"} => \A i \in DOMAIN comics : Queued(comics[i])
    /\ set.links => \A i \in DOMAIN comics : comics[i].stage # "image"

\* The pages have the numbers from 1 to unique, each its own.
PagesInv ==
    Injective =>
        /\ \A i \in DOMAIN comics : comics[i].regexp =>
             \E n \in 1 .. unique : comics[i].page.name = Regfname(n)
        /\ \A i, j \in DOMAIN comics :
             comics[i].regexp /\ comics[j].regexp /\ i # j =>
                 comics[i].page.name # comics[j].page.name

Got == {i \in DOMAIN comics : comics[i].stage = "got"}

\* Each image counts once, and a link up to twice; and a program that says that
\* it got all has counted so.
Counted == {i \in DOMAIN comics : comics[i].stage \in {"got", "stuck"}}
GotInv ==
    /\ gotit \in Nat
    /\ IF set.links THEN gotit <= 2 * Cardinality(Counted) ELSE gotit = Cardinality(Got)
    /\ pc = "exit" /\ exit = 0 => gotit = Len(comics)

\* What is got, and came whole, is there.
ImagesInv ==
    NamesApart /\ ~set.links /\ ~HeadOnly =>
        \A i \in Got : comics[i].whole =>
            /\ Image(comics[i]) \in DOMAIN disk
            /\ disk[Image(comics[i])] = ImageData(comics[i])

ProgramsInv ==
    /\ OptionsInv /\ ListInv /\ PagesInv /\ GotInv /\ ImagesInv
    /\ OthersKept /\ (Injective => PageOwn)

-----------------------------------------------------------------------------
(* Disks.                                                                  *)

LEMMA PutDisk ==
    ASSUME NEW d, NEW f, NEW data
    PROVE  /\ f \in DOMAIN Put(d, f, data) /\ Put(d, f, data)[f] = data
           /\ \A h \in DOMAIN d : h \in DOMAIN Put(d, f, data)
           /\ \A h : h # f => /\ h \in DOMAIN d <=> h \in DOMAIN Put(d, f, data)
                              /\ h \in DOMAIN d => Put(d, f, data)[h] = d[h]
BY DEF Put

LEMMA WithoutDisk ==
    ASSUME NEW d, NEW gone
    PROVE  /\ \A h \in gone : h \notin DOMAIN Without(d, gone)
           /\ \A h : h \notin gone => /\ h \in DOMAIN d <=> h \in DOMAIN Without(d, gone)
                                      /\ h \in DOMAIN d => Without(d, gone)[h] = d[h]
BY DEF Without

\* clean_dir keeps what is hidden, and what is named like neither an image nor, in the index
\* directory, a page.
LEMMA CleanKeeps ==
    ASSUME NEW d, NEW dir, NEW index, NEW f \in DOMAIN d
    PROVE  \/ f \in DOMAIN CleanDir(d, dir, index) /\ CleanDir(d, dir, index)[f] = d[f]
           \/ /\ ~Hidden(f.name)
              /\ \/ f.dir = dir /\ IsImgtype(Ext(f.name))
                 \/ f.dir = index /\ Ext(f.name) = "html"
<1>. DEFINE images == {h \in Entries(d, dir) : ~Hidden(h.name) /\ IsImgtype(Ext(h.name))}
            e == Without(d, images)
            pages == {h \in Entries(e, index) : ~Hidden(h.name) /\ Ext(h.name) = "html"}
<1>1. CleanDir(d, dir, index) = Without(e, pages)
  BY DEF CleanDir, CleanIndexDir
<1>2. f \in images \/ (f \in DOMAIN e /\ e[f] = d[f])
  <2>. HIDE DEF images
  <2>. QED
    BY WithoutDisk
<1>3. f \in DOMAIN e => f \in pages \/ (f \in DOMAIN Without(e, pages) /\ Without(e, pages)[f] = e[f])
  <2>. HIDE DEF e, pages
  <2>. QED
    BY WithoutDisk
<1>4. f \in images => ~Hidden(f.name) /\ f.dir = dir /\ IsImgtype(Ext(f.name))
  BY DEF Entries
<1>5. f \in pages => ~Hidden(f.name) /\ f.dir = index /\ Ext(f.name) = "html"
  <2>. HIDE DEF e
  <2>. QED
    BY DEF Entries
<1>. HIDE DEF images, e, pages
<1>. QED
  BY <1>1, <1>2, <1>3, <1>4, <1>5

-----------------------------------------------------------------------------
(* The list.                                                               *)

LEMMA ListType ==
    ASSUME NEW l, IsList(l)
    PROVE  Len(l) \in Nat /\ DOMAIN l = 1 .. Len(l)
BY DEF IsList

LEMMA FunctionList ==
    ASSUME NEW n \in Nat, NEW f, f = [i \in 1 .. n |-> f[i]]
    PROVE  IsList(f)
<1>. DEFINE S == {f[i] : i \in DOMAIN f}
<1>1. DOMAIN f = 1 .. n
  OBVIOUS
<1>2. f \in [1 .. n -> S]
  BY <1>1
<1>. HIDE DEF S
<1>3. f \in Seq(S)
  BY <1>2, SeqDef
<1>. QED
  BY <1>3 DEF IsList, S

LEMMA EmptyList == IsList(<<>>) /\ DOMAIN <<>> = {}
<1>1. DOMAIN <<>> = {}
  OBVIOUS
<1>2. <<>> = [i \in 1 .. 0 |-> <<>>[i]]
  OBVIOUS
<1>. QED
  BY <1>1, <1>2, FunctionList

LEMMA ListJoined ==
    ASSUME NEW l, IsList(l), NEW m, IsList(m)
    PROVE  /\ IsList(l \o m) /\ Len(l \o m) = Len(l) + Len(m)
           /\ DOMAIN (l \o m) = 1 .. Len(l) + Len(m)
           /\ \A i \in DOMAIN l : (l \o m)[i] = l[i]
           /\ \A i \in DOMAIN (l \o m) : i \notin DOMAIN l =>
                i - Len(l) \in DOMAIN m /\ (l \o m)[i] = m[i - Len(l)]
<1>. DEFINE S == {l[i] : i \in DOMAIN l} \cup {m[i] : i \in DOMAIN m}
<1>1. /\ Len(l) \in Nat /\ DOMAIN l = 1 .. Len(l) /\ Len(m) \in Nat /\ DOMAIN m = 1 .. Len(m)
  BY ListType
<1>2. l \in Seq({l[i] : i \in DOMAIN l}) /\ m \in Seq({m[i] : i \in DOMAIN m})
  BY DEF IsList
<1>3. l \in Seq(S) /\ m \in Seq(S)
  BY <1>2
<1>. HIDE DEF S
<1>4. /\ l \o m \in Seq(S) /\ Len(l \o m) = Len(l) + Len(m)
      /\ \A i \in 1 .. Len(l) + Len(m) :
           (l \o m)[i] = IF i <= Len(l) THEN l[i] ELSE m[i - Len(l)]
  BY <1>3, ConcatProperties
<1>. DEFINE k == l \o m
<1>5. DOMAIN k = 1 .. Len(l) + Len(m)
  BY <1>1, <1>4
<1>6. IsList(k)
  <2>1. k \in Seq(S) /\ Len(k) \in Nat /\ DOMAIN k = 1 .. Len(k)
    BY <1>1, <1>4, <1>5
  <2>. HIDE DEF k
  <2>. QED
    BY <2>1 DEF IsList
<1>7. \A i \in 1 .. Len(l) : i \in 1 .. Len(l) + Len(m)
  BY <1>1
<1>8. \A i \in 1 .. Len(l) : i <= Len(l)
  BY <1>1
<1>9. \A i \in DOMAIN l : k[i] = l[i]
  BY <1>1, <1>4, <1>7, <1>8
<1>10. ASSUME NEW i \in DOMAIN k, i \notin DOMAIN l
       PROVE  i - Len(l) \in DOMAIN m /\ k[i] = m[i - Len(l)]
  <2>1. i \in 1 .. Len(l) + Len(m) /\ ~(i <= Len(l)) /\ i - Len(l) \in 1 .. Len(m)
    BY <1>1, <1>5, <1>10
  <2>. QED
    BY <1>1, <1>4, <2>1
<1>. QED
  BY <1>1, <1>4, <1>5, <1>6, <1>9, <1>10

\* The pages of a list are numbered one after the other.
LEMMA RegexpNumbers ==
    ASSUME NEW e, IsList(e)
    PROVE  LET N(i) == Cardinality({j \in 1 .. i : e[j].regexp})
           IN /\ Regexps(e) \in Nat
              /\ \A i \in DOMAIN e : /\ N(i) \in Nat /\ N(i) <= Regexps(e)
                                     /\ e[i].regexp => N(i) >= 1
              /\ \A i, k \in DOMAIN e : i < k /\ e[k].regexp => N(i) < N(k)
<1>. DEFINE U(i) == {j \in 1 .. i : e[j].regexp}
            all == {j \in DOMAIN e : e[j].regexp}
<1>1. Len(e) \in Nat /\ DOMAIN e = 1 .. Len(e)
  BY ListType
<1>2. IsFiniteSet(all) /\ Cardinality(all) \in Nat
  <2>1. all \in SUBSET (1 .. Len(e))
    BY <1>1
  <2>. HIDE DEF all
  <2>2. IsFiniteSet(1 .. Len(e))
    BY <1>1, FS_Interval
  <2>. QED
    BY <2>1, <2>2, FS_Subset, FS_CardinalityType
<1>3. \A i \in DOMAIN e : U(i) \in SUBSET all
  BY <1>1
<1>4. \A i \in DOMAIN e : IsFiniteSet(U(i)) /\ Cardinality(U(i)) \in Nat
                          /\ Cardinality(U(i)) <= Cardinality(all)
  <2>. SUFFICES ASSUME NEW i \in DOMAIN e
                PROVE  IsFiniteSet(U(i)) /\ Cardinality(U(i)) \in Nat
                       /\ Cardinality(U(i)) <= Cardinality(all)
    OBVIOUS
  <2>1. U(i) \in SUBSET all
    BY <1>3
  <2>. HIDE DEF U, all
  <2>. QED
    BY <1>2, <2>1, FS_Subset, FS_CardinalityType
<1>5. ASSUME NEW i \in DOMAIN e, e[i].regexp
      PROVE  Cardinality(U(i)) >= 1
  <2>1. i \in U(i)
    BY <1>1, <1>5
  <2>. HIDE DEF U
  <2>2. IsFiniteSet(U(i)) /\ Cardinality(U(i)) \in Nat
    BY <1>4
  <2>3. Cardinality(U(i)) # 0
    BY <2>1, <2>2, FS_EmptySet
  <2>. QED
    BY <2>2, <2>3
<1>6. ASSUME NEW i \in DOMAIN e, NEW k \in DOMAIN e, i < k, e[k].regexp
      PROVE  Cardinality(U(i)) < Cardinality(U(k))
  <2>1. U(i) \in SUBSET U(k) /\ k \in U(k) /\ k \notin U(i)
    BY <1>1, <1>6
  <2>2. U(i) # U(k)
    BY <2>1
  <2>. HIDE DEF U
  <2>3. IsFiniteSet(U(k)) /\ Cardinality(U(i)) \in Nat /\ Cardinality(U(k)) \in Nat
    BY <1>4
  <2>4. Cardinality(U(i)) <= Cardinality(U(k)) /\ Cardinality(U(i)) # Cardinality(U(k))
    BY <2>1, <2>2, <2>3, FS_Subset
  <2>. QED
    BY <2>3, <2>4
<1>7. Regexps(e) = Cardinality(all)
  BY DEF Regexps
<1>. QED
  BY <1>2, <1>4, <1>5, <1>6, <1>7

\* Names are lists, wherever they come from.
LEMMA NamesAreLists ==
    /\ \A name \in Seq(STRING) : IsList(name)
    /\ \A x : IsList(<<x>>)
    /\ \A u : IsList(CreateOutname(Url(u).last)) /\ IsList(CreateOutname(Url(u).host))
    /\ \A u, out : IsList(out) => IsList(Outname(u, out))
<1>1. ASSUME NEW name \in Seq(STRING) PROVE IsList(name)
  BY DEF IsList
<1>2. ASSUME NEW x PROVE IsList(<<x>>)
  <2>1. <<x>> = [i \in 1 .. 1 |-> <<x>>[i]]
    OBVIOUS
  <2>. QED
    BY <2>1, FunctionList
<1>3. IsList(<<"index", "html">>)
  <2>1. <<"index", "html">> = [i \in 1 .. 2 |-> <<"index", "html">>[i]]
    OBVIOUS
  <2>. QED
    BY <2>1, FunctionList
<1>4. \A name : IsList(name) => IsList(CreateOutname(name))
  BY <1>1, <1>3 DEF CreateOutname
<1>5. ASSUME NEW u PROVE IsList(Url(u).last) /\ IsList(Url(u).host)
  <2>1. CASE u \in DOMAIN Site
    <3>1. Site[u] \in Page
      BY <2>1, ProgramsAssumption
    <3>2. Site[u].last \in Seq(STRING) /\ Site[u].host \in Seq(STRING)
      BY <3>1 DEF Page
    <3>. QED
      BY <1>1, <2>1, <3>2 DEF Url
  <2>2. CASE u \notin DOMAIN Site
    <3>1. Url(u).last = <<u>> /\ Url(u).host = <<u>>
      BY <2>2 DEF Url
    <3>. QED
      BY <1>2, <3>1
  <2>. QED
    BY <2>1, <2>2
<1>6. \A u, out : IsList(out) => IsList(Outname(u, out))
  BY <1>4, <1>5 DEF Outname
<1>. QED
  BY <1>1, <1>2, <1>4, <1>5, <1>6

\* What is added to the list are comics that wait, with page numbers that are new.
LEMMA NumberedComics ==
    ASSUME NEW e, IsList(e), \A i \in DOMAIN e : EntryOK(e[i]), NEW index, NEW n \in Nat
    PROVE  LET new == Numbered(e, n, index)
           IN /\ IsList(new) /\ DOMAIN new = DOMAIN e
              /\ \A i \in DOMAIN new : Queued(new[i]) /\ new[i].regexp = e[i].regexp
              /\ \A i \in DOMAIN new : new[i].regexp =>
                   \E m \in n + 1 .. n + Regexps(e) : new[i].page.name = Regfname(m)
              /\ Injective => \A i, k \in DOMAIN new :
                   new[i].regexp /\ new[k].regexp /\ i # k => new[i].page.name # new[k].page.name
<1>. DEFINE new == Numbered(e, n, index)
            N(i) == Cardinality({j \in 1 .. i : e[j].regexp})
<1>1. Len(e) \in Nat /\ DOMAIN e = 1 .. Len(e)
  BY ListType
<1>2. /\ Regexps(e) \in Nat
      /\ \A i \in DOMAIN e : /\ N(i) \in Nat /\ N(i) <= Regexps(e)
                             /\ e[i].regexp => N(i) >= 1
      /\ \A i, k \in DOMAIN e : i < k /\ e[k].regexp => N(i) < N(k)
  BY RegexpNumbers
<1>. HIDE DEF N
<1>3. /\ DOMAIN new = DOMAIN e
      /\ \A i \in DOMAIN e :
           new[i] = Comic(e[i].url, Outname(e[i].url, e[i].out), e[i].regexp, index, n + N(i))
  BY DEF Numbered, N
<1>4. new = [i \in 1 .. Len(e) |-> new[i]]
  BY <1>1 DEF Numbered
<1>. HIDE DEF new
<1>5. IsList(new)
  BY <1>1, <1>4, FunctionList
<1>6. \A i \in DOMAIN new :
        /\ Queued(new[i]) /\ new[i].regexp = e[i].regexp
        /\ new[i].regexp => new[i].page.name = Regfname(n + N(i))
  <2>. SUFFICES ASSUME NEW i \in DOMAIN new
                PROVE  /\ Queued(new[i]) /\ new[i].regexp = e[i].regexp
                       /\ new[i].regexp => new[i].page.name = Regfname(n + N(i))
    OBVIOUS
  <2>1. PICK url, out : new[i] = Comic(url, out, e[i].regexp, index, n + N(i)) /\ IsList(out)
    BY <1>3, NamesAreLists DEF EntryOK
  <2>2. e[i].regexp \in BOOLEAN
    BY <1>3 DEF EntryOK
  <2>3. /\ DOMAIN new[i] = {"url", "out", "regexp", "page", "unique", "stage", "exts", "resets", "whole"}
        /\ new[i].stage = "queued" /\ new[i].regexp = e[i].regexp /\ new[i].out = out
        /\ new[i].exts = <<>> /\ new[i].resets = 0 /\ new[i].whole = TRUE
        /\ e[i].regexp => new[i].page = File(index, Regfname(n + N(i)))
    <3>. DEFINE p == IF e[i].regexp THEN File(index, Regfname(n + N(i))) ELSE File("", <<>>)
    <3>1. new[i] = [url |-> url, out |-> out, regexp |-> e[i].regexp, page |-> p,
                    unique |-> set.unique, stage |-> "queued", exts |-> <<>>, resets |-> 0,
                    whole |-> TRUE]
      BY <2>1 DEF Comic
    <3>2. e[i].regexp => p = File(index, Regfname(n + N(i)))
      OBVIOUS
    <3>. HIDE DEF p
    <3>. QED
      BY <3>1, <3>2
  <2>4. \A name : File(index, name).name = name
    BY DEF File
  <2>5. <<>> \in Seq(Exts)
    OBVIOUS
  <2>6. ComicOK(new[i])
    <3>1. PICK c : c = new[i]
      OBVIOUS
    <3>2. /\ DOMAIN c = {"url", "out", "regexp", "page", "unique", "stage", "exts", "resets", "whole"}
          /\ c.stage = "queued" /\ c.regexp \in BOOLEAN /\ IsList(c.out)
          /\ c.exts \in Seq(Exts) /\ c.resets \in Nat /\ c.whole \in BOOLEAN
      <4>1. /\ DOMAIN c = {"url", "out", "regexp", "page", "unique", "stage", "exts", "resets", "whole"}
            /\ c.stage = "queued" /\ c.regexp = e[i].regexp /\ c.out = out
            /\ c.exts = <<>> /\ c.resets = 0 /\ c.whole = TRUE
        BY <2>3, <3>1, Zenon
      <4>2. c.exts \in Seq(Exts)
        BY <2>5, <4>1, Zenon
      <4>3. c.resets \in Nat
        BY <4>1
      <4>. QED
        BY <2>1, <2>2, <4>1, <4>2, <4>3, Zenon
    <3>3. ComicOK(c)
      BY <3>2 DEF ComicOK, Stages
    <3>. QED
      BY <3>1, <3>3
  <2>. QED
    BY <2>2, <2>3, <2>4, <2>6 DEF Queued
<1>7. ASSUME NEW i \in DOMAIN new, new[i].regexp
      PROVE  n + N(i) \in n + 1 .. n + Regexps(e)
  <2>1. e[i].regexp /\ i \in DOMAIN e
    BY <1>3, <1>6, <1>7
  <2>. QED
    BY <1>2, <2>1
<1>8. ASSUME Injective, NEW i \in DOMAIN new, NEW k \in DOMAIN new, new[i].regexp, new[k].regexp,
             i # k
      PROVE  new[i].page.name # new[k].page.name
  <2>1. e[i].regexp /\ e[k].regexp /\ i \in DOMAIN e /\ k \in DOMAIN e
    BY <1>3, <1>6, <1>8
  <2>2. N(i) \in Nat /\ N(k) \in Nat /\ N(i) # N(k)
    <3>1. i \in Nat /\ k \in Nat /\ (i < k \/ k < i)
      BY <1>1, <1>8, <2>1
    <3>. QED
      BY <1>2, <2>1, <3>1
  <2>3. n + N(i) \in Nat /\ n + N(k) \in Nat /\ n + N(i) # n + N(k)
    BY <2>2
  <2>. QED
    BY <1>6, <1>8, <2>3 DEF Injective
<1>. QED
  BY <1>3, <1>5, <1>6, <1>7, <1>8 DEF new

LEMMA AddComics ==
    ASSUME ListInv, PagesInv, pc \in {"options", "operands"},
           NEW e, IsList(e), \A i \in DOMAIN e : EntryOK(e[i]),
           NEW index, Add(e, index)
    PROVE  /\ IsList(comics') /\ unique' \in Nat
           /\ \A i \in DOMAIN comics' : Queued(comics'[i])
           /\ PagesInv'
<1>. DEFINE new == Numbered(e, unique, index)
            l == comics \o new
<1>. HIDE DEF l
<1>1. comics' = l /\ unique' = unique + Regexps(e) /\ unique \in Nat /\ IsList(comics)
  BY DEF Add, ListInv, l
<1>2. /\ IsList(new) /\ DOMAIN new = DOMAIN e
      /\ \A i \in DOMAIN new : Queued(new[i])
      /\ \A i \in DOMAIN new : new[i].regexp =>
           \E m \in unique + 1 .. unique + Regexps(e) : new[i].page.name = Regfname(m)
      /\ Injective => \A i, k \in DOMAIN new :
           new[i].regexp /\ new[k].regexp /\ i # k => new[i].page.name # new[k].page.name
  BY <1>1, NumberedComics
<1>. HIDE DEF new
<1>3. /\ IsList(l) /\ Len(l) = Len(comics) + Len(new) /\ DOMAIN l = 1 .. Len(comics) + Len(new)
      /\ \A i \in DOMAIN comics : l[i] = comics[i]
  BY <1>1, <1>2, ListJoined DEF l
<1>4. Regexps(e) \in Nat /\ Len(comics) \in Nat
  BY <1>1, RegexpNumbers, ListType
<1>5. \A i \in DOMAIN l :
        \/ i \in DOMAIN comics /\ l[i] = comics[i]
        \/ i - Len(comics) \in DOMAIN new /\ l[i] = new[i - Len(comics)]
  <2>1. \A i \in DOMAIN l : i \notin DOMAIN comics =>
          i - Len(comics) \in DOMAIN new /\ l[i] = new[i - Len(comics)]
    BY <1>1, <1>2, ListJoined DEF l
  <2>. QED
    BY <1>3, <2>1
<1>6. \A i \in DOMAIN comics : Queued(comics[i])
  BY DEF ListInv
<1>7. \A i \in DOMAIN l : Queued(l[i])
  BY <1>2, <1>5, <1>6
<1>8. ASSUME Injective PROVE PagesInv'
  <2>1. ASSUME NEW i \in DOMAIN l, l[i].regexp
        PROVE  \E m \in 1 .. unique' : l[i].page.name = Regfname(m)
    <3>1. CASE i \in DOMAIN comics /\ l[i] = comics[i]
      <4>1. PICK m \in 1 .. unique : comics[i].page.name = Regfname(m)
        BY <1>8, <2>1, <3>1 DEF PagesInv
      <4>2. m \in 1 .. unique'
        BY <1>1, <1>4
      <4>. QED
        BY <3>1, <4>1, <4>2
    <3>2. CASE i - Len(comics) \in DOMAIN new /\ l[i] = new[i - Len(comics)]
      <4>1. PICK m \in unique + 1 .. unique + Regexps(e) : l[i].page.name = Regfname(m)
        BY <1>2, <2>1, <3>2
      <4>2. m \in 1 .. unique'
        BY <1>1, <1>4
      <4>. QED
        BY <4>1, <4>2
    <3>. QED
      BY <1>5, <3>1, <3>2
  <2>2. ASSUME NEW i \in DOMAIN comics, NEW k \in DOMAIN new, comics[i].regexp, new[k].regexp
        PROVE  comics[i].page.name # new[k].page.name
    <3>1. PICK m \in 1 .. unique : comics[i].page.name = Regfname(m)
      BY <1>8, <2>2 DEF PagesInv
    <3>2. PICK n \in unique + 1 .. unique + Regexps(e) : new[k].page.name = Regfname(n)
      BY <1>2, <2>2
    <3>3. m \in Nat /\ n \in Nat /\ m # n
      BY <1>1, <1>4
    <3>. QED
      BY <1>8, <3>1, <3>2, <3>3 DEF Injective
  <2>3. ASSUME NEW i \in DOMAIN l, NEW k \in DOMAIN l, l[i].regexp, l[k].regexp, i # k
        PROVE  l[i].page.name # l[k].page.name
    <3>1. \A j \in DOMAIN l : j \in Int
      BY <1>3
    <3>2. i - Len(comics) # k - Len(comics)
      BY <1>4, <2>3, <3>1
    <3>3. \A h \in DOMAIN comics, j \in DOMAIN comics :
            comics[h].regexp /\ comics[j].regexp /\ h # j =>
                comics[h].page.name # comics[j].page.name
      BY <1>8 DEF PagesInv
    <3>4. CASE i \in DOMAIN comics /\ l[i] = comics[i]
      <4>1. CASE k \in DOMAIN comics /\ l[k] = comics[k]
        BY <2>3, <3>3, <3>4, <4>1
      <4>2. CASE k - Len(comics) \in DOMAIN new /\ l[k] = new[k - Len(comics)]
        BY <2>2, <2>3, <3>4, <4>2
      <4>. QED
        BY <1>5, <4>1, <4>2
    <3>5. CASE i - Len(comics) \in DOMAIN new /\ l[i] = new[i - Len(comics)]
      <4>1. CASE k \in DOMAIN comics /\ l[k] = comics[k]
        BY <2>2, <2>3, <3>5, <4>1
      <4>2. CASE k - Len(comics) \in DOMAIN new /\ l[k] = new[k - Len(comics)]
        BY <1>2, <1>8, <2>3, <3>2, <3>5, <4>2
      <4>. QED
        BY <1>5, <4>1, <4>2
    <3>. QED
      BY <1>5, <3>4, <3>5
  <2>. QED
    BY <1>1, <2>1, <2>3 DEF PagesInv
<1>9. Injective' = Injective
  BY DEF Injective
<1>10. PagesInv'
  <2>1. CASE Injective
    BY <1>8, <2>1
  <2>2. CASE ~Injective
    BY <1>9, <2>2 DEF PagesInv
  <2>. QED
    BY <2>1, <2>2
<1>11. unique' \in Nat
  BY <1>1, <1>4
<1>. QED
  BY <1>1, <1>3, <1>7, <1>10, <1>11

\* The lists that are added, by whom.
LEMMA LinkLists ==
    ASSUME OptionsInv, IsList(comics)
    PROVE  /\ \A l \in DOMAIN Lists : IsList(GetUrls(Lists[l])) /\ IsList(CheckUrls(Lists[l]))
           /\ \A u : IsList(GetUrls(<<u>>))
           /\ \A urls : /\ \A i \in DOMAIN GetUrls(urls) : EntryOK(GetUrls(urls)[i])
                        /\ \A i \in DOMAIN CheckUrls(urls) : EntryOK(CheckUrls(urls)[i])
<1>1. ASSUME NEW urls, NEW n \in Nat, DOMAIN urls = 1 .. n
      PROVE  IsList(GetUrls(urls)) /\ IsList(CheckUrls(urls))
  <2>. DEFINE a == GetUrls(urls)
              b == CheckUrls(urls)
  <2>1. a = [i \in 1 .. n |-> a[i]] /\ b = [i \in 1 .. n |-> b[i]]
    BY <1>1 DEF GetUrls, CheckUrls
  <2>. HIDE DEF a, b
  <2>2. IsList(a) /\ IsList(b)
    BY <2>1, FunctionList
  <2>. QED
    BY <2>2 DEF a, b
<1>2. \A l \in DOMAIN Lists : Len(Lists[l]) \in Nat /\ DOMAIN Lists[l] = 1 .. Len(Lists[l])
  BY ProgramsAssumption
<1>3. \A u : DOMAIN <<u>> = 1 .. 1
  OBVIOUS
<1>4. \A urls : /\ \A i \in DOMAIN GetUrls(urls) : EntryOK(GetUrls(urls)[i])
                /\ \A i \in DOMAIN CheckUrls(urls) : EntryOK(CheckUrls(urls)[i])
  <2>. SUFFICES ASSUME NEW urls
                PROVE  /\ \A i \in DOMAIN GetUrls(urls) : EntryOK(GetUrls(urls)[i])
                       /\ \A i \in DOMAIN CheckUrls(urls) : EntryOK(CheckUrls(urls)[i])
    OBVIOUS
  <2>1. ASSUME NEW i \in DOMAIN GetUrls(urls)
        PROVE  EntryOK(GetUrls(urls)[i])
    <3>. DEFINE x == GetUrls(urls)[i]
                made == Cardinality({k \in DOMAIN comics : comics[k].unique})
    <3>1. /\ x.regexp = set.regexp
          /\ x.out = IF set.unique THEN <<"out" \o ToString(made + i)>>
                     ELSE CreateOutname(Url(urls[i]).host)
      BY DEF GetUrls
    <3>. HIDE DEF x, made
    <3>2. IsList(x.out)
      BY <3>1, NamesAreLists
    <3>3. EntryOK(x)
      BY <3>1, <3>2 DEF EntryOK, OptionsInv
    <3>. QED
      BY <3>3 DEF x
  <2>2. \A i \in DOMAIN CheckUrls(urls) : EntryOK(CheckUrls(urls)[i])
    BY EmptyList DEF EntryOK, CheckUrls
  <2>. QED
    BY <2>1, <2>2
<1>. QED
  BY <1>1, <1>2, <1>3, <1>4

LEMMA ConfigLists ==
    ASSUME NEW c \in DOMAIN Configs
    PROVE  /\ IsList(Configs[c].comics)
           /\ \A i \in DOMAIN Configs[c].comics : EntryOK(Configs[c].comics[i])
<1>. DEFINE R == [url: STRING, out: Seq(STRING), regexp: BOOLEAN]
            l == Configs[c].comics
<1>1. l \in Seq(R)
  BY ProgramsAssumption DEF Config
<1>2. \A i \in DOMAIN l : l[i] \in R
  <2>. HIDE DEF R, l
  <2>. QED
    BY <1>1
<1>3. IsList(l)
  BY <1>1 DEF IsList
<1>4. \A x \in R : x.regexp \in BOOLEAN /\ x.out \in Seq(STRING)
  OBVIOUS
<1>5. \A i \in DOMAIN l : EntryOK(l[i])
  BY <1>2, <1>4, NamesAreLists DEF EntryOK
<1>. QED
  BY <1>3, <1>5

-----------------------------------------------------------------------------
(* Before the loop.                                                        *)

LEMMA GetoptReturns ==
    ASSUME NEW state, DOMAIN state = {"optind", "argptr", "ret", "optarg"},
           NEW words, NEW takes
    PROVE  LET r == Getopt(state, words, takes)
           IN /\ DOMAIN r = {"optind", "argptr", "ret", "optarg"}
              /\ r.ret \in DOMAIN takes \cup {"?", "end"}
<1>1. ASSUME NEW s, DOMAIN s = {"optind", "argptr", "ret", "optarg"}
      PROVE  Done(s).ret = "end" /\ DOMAIN Done(s) = {"optind", "argptr", "ret", "optarg"}
  BY <1>1 DEF Done
<1>2. ASSUME NEW s, DOMAIN s = {"optind", "argptr", "ret", "optarg"}, NEW letter, NEW rest
      PROVE  LET r == Argument(s, words, letter, rest)
             IN DOMAIN r = {"optind", "argptr", "ret", "optarg"} /\ r.ret \in {letter, "?"}
  BY <1>2 DEF Argument
<1>3. ASSUME NEW s, DOMAIN s = {"optind", "argptr", "ret", "optarg"}, NEW word
      PROVE  LET r == Letter(s, words, takes, word)
             IN /\ DOMAIN r = {"optind", "argptr", "ret", "optarg"}
                /\ r.ret \in DOMAIN takes \cup {"?"}
  <2>. DEFINE letter == Head(word)
              h == [s EXCEPT !.argptr = Tail(word), !.ret = letter]
              r == Letter(s, words, takes, word)
  <2>1. DOMAIN h = {"optind", "argptr", "ret", "optarg"} /\ h.ret = letter
    BY <1>3
  <2>2. CASE letter \notin DOMAIN takes
    <3>1. r = [h EXCEPT !.ret = "?"]
      BY <2>2 DEF Letter
    <3>. HIDE DEF h, r
    <3>. QED
      BY <2>1, <3>1 DEF r
  <2>3. CASE letter \in DOMAIN takes /\ takes[letter]
    <3>1. r = Argument(h, words, letter, Tail(word))
      BY <2>3 DEF Letter
    <3>. HIDE DEF h, r
    <3>2. /\ DOMAIN r = {"optind", "argptr", "ret", "optarg"} /\ r.ret \in {letter, "?"}
      BY <1>2, <2>1, <3>1
    <3>. QED
      BY <2>3, <3>2 DEF r
  <2>4. CASE letter \in DOMAIN takes /\ ~takes[letter]
    <3>1. r = h
      BY <2>4 DEF Letter
    <3>. HIDE DEF h, r
    <3>. QED
      BY <2>1, <2>4, <3>1 DEF r
  <2>. QED
    BY <2>2, <2>3, <2>4
<1>. DEFINE cleared == [state EXCEPT !.optarg = NoWord]
            s == IF state.argptr = <<>>
                 THEN [cleared EXCEPT !.optind = @ + 1, !.argptr = NoWord] ELSE cleared
            over == [s EXCEPT !.optind = @ + 1]
            word == words[s.optind]
            r == Getopt(state, words, takes)
<1>4. DOMAIN s = {"optind", "argptr", "ret", "optarg"}
  OBVIOUS
<1>5. DOMAIN over = {"optind", "argptr", "ret", "optarg"}
  <2>. HIDE DEF s
  <2>. QED
    BY <1>4
<1>6. r \in {Letter(s, words, takes, s.argptr), Done(s), Done(over), Letter(s, words, takes, Tail(word))}
  BY DEF Getopt
<1>. HIDE DEF s, over, word, r
<1>. QED
  BY <1>1, <1>3, <1>4, <1>5, <1>6 DEF r

\* Whatever option is given, a set remains one.
LEMMA OptionSets ==
    ASSUME OptionsInv, NEW letter \in DOMAIN Takes, letter # "h", NEW arg
    PROVE  LET s == OptionSet(letter, arg)
           IN /\ DOMAIN s = Fields
              /\ s.unlink \in BOOLEAN /\ s.links \in BOOLEAN /\ s.regexp \in BOOLEAN
<1>. DEFINE s == OptionSet(letter, arg)
<1>1. prog \in {"get-comics", "http-get", "link-check"}
  BY ProgramsAssumption DEF OptionsInv, prog
<1>2. CASE prog = "get-comics"
  <2>1. letter \in {"c", "h", "k", "v", "V", "d", "i", "l", "t", "T"}
    BY <1>2 DEF Takes, Optstring
  <2>2. s = GetComicsSet(letter, arg)
    BY <1>2 DEF OptionSet
  <2>. QED
    BY <2>1, <2>2 DEF GetComicsSet, OptionsInv, Fields
<1>3. CASE prog = "http-get"
  <2>1. letter \in {"h", "u", "U", "v", "l", "r", "R", "t", "T"}
    BY <1>3 DEF Takes, Optstring
  <2>2. s = HttpGetSet(letter, arg)
    BY <1>3 DEF OptionSet
  <2>. QED
    BY <2>1, <2>2 DEF HttpGetSet, OptionsInv, Fields
<1>4. CASE prog = "link-check"
  <2>1. letter \in {"h", "v", "t", "T"}
    BY <1>4 DEF Takes, Optstring
  <2>2. s = LinkCheckSet(letter, arg)
    BY <1>4 DEF OptionSet
  <2>. QED
    BY <2>1, <2>2 DEF LinkCheckSet, OptionsInv, Fields
<1>. QED
  BY <1>1, <1>2, <1>3, <1>4

\* Before the loop a program at most empties the file of -l.
LEMMA BeforeLoop ==
    ASSUME ProgramsInv, pc \in {"options", "operands"}, pc' \in {"options", "operands", "stopped"},
           UNCHANGED <<run, before, gotit>>,
           OptionsInv', IsList(comics'), unique' \in Nat,
           \A i \in DOMAIN comics' : Queued(comics'[i]),
           PagesInv',
           \A f \in DOMAIN disk :
               f.dir = "/" \/ (f \in DOMAIN disk' /\ disk'[f] = disk[f])
    PROVE  ProgramsInv'
<1>1. ListInv'
  BY DEF ListInv, Queued
<1>2. Got = {} /\ Got' = {} /\ Counted = {} /\ Counted' = {}
  BY DEF ProgramsInv, ListInv, Got, Counted, Queued
<1>3. Cardinality({}) = 0
  BY FS_EmptySet
<1>4. gotit' = 0
  BY <1>2, <1>3 DEF ProgramsInv, GotInv
<1>5. GotInv'
  BY <1>2, <1>3, <1>4 DEF GotInv
<1>6. ImagesInv'
  BY <1>2 DEF ImagesInv
<1>7. \A f \in DOMAIN before : f.dir = "/" \/ (f \in DOMAIN disk /\ disk[f] = before[f])
  BY DEF ProgramsInv, OthersKept, Begun
<1>8. OthersKept'
  BY <1>7 DEF OthersKept
<1>9. PageOwn'
  BY DEF PageOwn, Begun
<1>. QED
  BY <1>1, <1>5, <1>6, <1>8, <1>9 DEF ProgramsInv

\* The same when the list is left alone, or gets comics.
LEMMA BeforeLoopList ==
    ASSUME ProgramsInv, pc \in {"options", "operands"}, pc' \in {"options", "operands", "stopped"},
           UNCHANGED <<run, before, gotit>>, OptionsInv',
           \/ UNCHANGED <<comics, unique>>
           \/ \E e, index : /\ IsList(e) /\ \A i \in DOMAIN e : EntryOK(e[i])
                            /\ Add(e, index),
           \A f \in DOMAIN disk :
               f.dir = "/" \/ (f \in DOMAIN disk' /\ disk'[f] = disk[f])
    PROVE  ProgramsInv'
<1>1. ListInv /\ PagesInv
  BY DEF ProgramsInv
<1>2. CASE UNCHANGED <<comics, unique>>
  <2>1. /\ IsList(comics') /\ unique' \in Nat
        /\ \A i \in DOMAIN comics' : Queued(comics'[i])
    BY <1>1, <1>2 DEF ListInv, Queued
  <2>2. PagesInv'
    BY <1>1, <1>2 DEF PagesInv, Injective
  <2>. QED
    BY <2>1, <2>2, BeforeLoop
<1>3. CASE \E e, index : /\ IsList(e) /\ \A i \in DOMAIN e : EntryOK(e[i])
                         /\ Add(e, index)
  <2>1. /\ IsList(comics') /\ unique' \in Nat
        /\ \A i \in DOMAIN comics' : Queued(comics'[i])
        /\ PagesInv'
    BY <1>1, <1>3, AddComics
  <2>. QED
    BY <2>1, BeforeLoop
<1>. QED
  BY <1>2, <1>3

LEMMA OptionKeeps ==
    ASSUME ProgramsInv, Option
    PROVE  ProgramsInv'
<1>1. OptionsInv
  BY DEF ProgramsInv
<1>2. /\ DOMAIN g' = {"optind", "argptr", "ret", "optarg"}
      /\ g'.ret \in DOMAIN Takes \cup {"?", "end"}
  BY <1>1, GetoptReturns DEF Option, OptionsInv
<1>3. pc = "options" /\ UNCHANGED <<run, before, gotit>>
  BY DEF Option
<1>4. CASE pc' = "stopped" /\ UNCHANGED <<set, comics, unique, disk>>
  <2>1. OptionsInv'
    BY <1>1, <1>2, <1>3, <1>4 DEF OptionsInv
  <2>. QED
    BY <1>3, <1>4, <2>1, BeforeLoopList
<1>5. CASE g'.ret = "end" /\ pc' = "operands" /\ UNCHANGED <<exit, set, comics, unique, disk>>
  <2>1. OptionsInv'
    BY <1>1, <1>2, <1>3, <1>5 DEF OptionsInv
  <2>. QED
    BY <1>3, <1>5, <2>1, BeforeLoopList
<1>6. CASE /\ g'.ret \notin {"h", "?", "end"}
           /\ set' = OptionSet(g'.ret, g'.optarg)
           /\ IF prog = "http-get" /\ g'.ret = "l" THEN HttpGetList(g'.optarg)
              ELSE UNCHANGED <<comics, unique>>
           /\ disk' = IF prog = "get-comics" /\ g'.ret = "l"
                      THEN Put(disk, File("/", g'.optarg), <<"links">>) ELSE disk
           /\ UNCHANGED <<pc, exit>>
  <2>1. PICK letter, arg : letter = g'.ret /\ arg = g'.optarg
    OBVIOUS
  <2>2. letter \in DOMAIN Takes /\ letter # "h" /\ set' = OptionSet(letter, arg)
    BY <1>2, <1>6, <2>1
  <2>3. OptionsInv'
    BY <1>1, <1>2, <1>3, <1>6, <2>2, OptionSets DEF OptionsInv
  <2>4. \/ UNCHANGED <<comics, unique>>
        \/ \E e, index : /\ IsList(e) /\ \A i \in DOMAIN e : EntryOK(e[i])
                         /\ Add(e, index)
    <3>1. CASE HttpGetList(arg) /\ arg \in DOMAIN Lists
      <4>1. Add(GetUrls(Lists[arg]), ".")
        BY <3>1 DEF HttpGetList
      <4>2. IsList(comics)
        BY DEF ProgramsInv, ListInv
      <4>3. IsList(GetUrls(Lists[arg]))
            /\ \A i \in DOMAIN GetUrls(Lists[arg]) : EntryOK(GetUrls(Lists[arg])[i])
        BY <1>1, <3>1, <4>2, LinkLists
      <4>. QED
        BY <4>1, <4>3
    <3>2. CASE HttpGetList(arg) /\ arg \notin DOMAIN Lists
      BY <3>2 DEF HttpGetList
    <3>. QED
      BY <1>6, <2>1, <3>1, <3>2
  <2>5. \A f \in DOMAIN disk : f.dir = "/" \/ (f \in DOMAIN disk' /\ disk'[f] = disk[f])
    <3>1. CASE disk' = Put(disk, File("/", arg), <<"links">>)
      <4>1. File("/", arg).dir = "/"
        BY DEF File
      <4>2. \A f \in DOMAIN disk : f # File("/", arg) => f \in DOMAIN disk' /\ disk'[f] = disk[f]
        BY <3>1, PutDisk
      <4>. QED
        BY <4>1, <4>2
    <3>. QED
      BY <1>6, <2>1, <3>1
  <2>6. pc' = "options"
    BY <1>3, <1>6
  <2>. QED
    BY <1>3, <2>3, <2>4, <2>5, <2>6, BeforeLoopList
<1>. QED
  BY <1>4, <1>5, <1>6 DEF Option, Stop

LEMMA OperandKeeps ==
    ASSUME ProgramsInv, ConfigOperand \/ UrlOperand \/ ListOperand
    PROVE  ProgramsInv'
<1>1. OptionsInv /\ IsList(comics)
  BY DEF ProgramsInv, ListInv
<1>2. pc = "operands" /\ UNCHANGED <<run, g, before, gotit, disk>>
  BY DEF ConfigOperand, UrlOperand, ListOperand, Takeable
<1>3. /\ pc' \in {"operands", "stopped"}
      /\ OptionsInv'
      /\ \/ UNCHANGED <<comics, unique>>
         \/ \E e, index : /\ IsList(e) /\ \A i \in DOMAIN e : EntryOK(e[i])
                          /\ Add(e, index)
  <2>1. CASE ConfigOperand
    <3>1. CASE Word \in DOMAIN Configs /\ Configs[Word].ok
      <4>1. ReadConfig(Configs[Word]) /\ UNCHANGED <<pc, exit>>
        BY <2>1, <3>1 DEF ConfigOperand
      <4>2. \E index : Add(Configs[Word].comics, index)
        BY <4>1 DEF ReadConfig
      <4>3. IsList(Configs[Word].comics)
            /\ \A i \in DOMAIN Configs[Word].comics : EntryOK(Configs[Word].comics[i])
        BY <3>1, ConfigLists
      <4>4. OptionsInv'
        BY <1>1, <1>2, <4>1 DEF OptionsInv, ReadConfig, Fields
      <4>. QED
        BY <1>2, <4>1, <4>2, <4>3, <4>4
    <3>2. CASE ~(Word \in DOMAIN Configs /\ Configs[Word].ok)
      <4>1. Stop(1) /\ UNCHANGED <<set, comics, unique>>
        BY <2>1, <3>2 DEF ConfigOperand
      <4>. QED
        BY <1>1, <1>2, <4>1 DEF OptionsInv, Stop
    <3>. QED
      BY <3>1, <3>2
  <2>2. CASE UrlOperand
    <3>1. Add(GetUrls(<<Head(Word)>>), ".") /\ UNCHANGED <<pc, set, exit>>
      BY <2>2 DEF UrlOperand
    <3>2. IsList(GetUrls(<<Head(Word)>>)) /\ \A i \in DOMAIN GetUrls(<<Head(Word)>>) :
                                               EntryOK(GetUrls(<<Head(Word)>>)[i])
      BY <1>1, LinkLists
    <3>3. OptionsInv'
      BY <1>1, <1>2, <3>1 DEF OptionsInv
    <3>. QED
      BY <1>2, <3>1, <3>2, <3>3
  <2>3. CASE ListOperand
    <3>1. LinkCheckList(Word) /\ UNCHANGED <<pc, set, exit>>
      BY <2>3 DEF ListOperand
    <3>2. OptionsInv'
      BY <1>1, <1>2, <3>1 DEF OptionsInv
    <3>3. CASE Word \in DOMAIN Lists
      <4>1. Add(CheckUrls(Lists[Word]), ".")
        BY <3>1, <3>3 DEF LinkCheckList
      <4>2. IsList(CheckUrls(Lists[Word]))
            /\ \A i \in DOMAIN CheckUrls(Lists[Word]) : EntryOK(CheckUrls(Lists[Word])[i])
        BY <1>1, <3>3, LinkLists
      <4>. QED
        BY <1>2, <3>1, <3>2, <4>1, <4>2
    <3>4. CASE Word \notin DOMAIN Lists
      BY <1>2, <3>1, <3>2, <3>4 DEF LinkCheckList
    <3>. QED
      BY <3>3, <3>4
  <2>. QED
    BY <2>1, <2>2, <2>3
<1>. QED
  BY <1>2, <1>3, BeforeLoopList

LEMMA BeginKeeps ==
    ASSUME ProgramsInv, Begin \/ BeginHere
    PROVE  ProgramsInv'
<1>1. OptionsInv /\ ListInv /\ PagesInv /\ GotInv
  BY DEF ProgramsInv
<1>2. /\ pc = "operands" /\ UNCHANGED <<run, g, operand, comics, unique, gotit, before>>
      /\ pc' \in {"loop", "stopped", "exit"}
  BY DEF Begin, BeginHere, Exit, Stop
<1>3. /\ DOMAIN set' = Fields /\ set'.clean = set.clean /\ set'.verify = set.verify
      /\ set'.unlink = set.unlink /\ set'.links = set.links /\ set'.regexp = set.regexp
      /\ set'.index = set.index
      /\ Begin => set'.dir = ComicsDir /\ set'.threads = Threads
  BY <1>1 DEF Begin, BeginHere, OptionsInv, Fields
<1>4. OptionsInv'
  BY <1>1, <1>2, <1>3 DEF OptionsInv
<1>7. \A i \in DOMAIN comics : comics[i].stage = "queued" /\ comics[i].exts = <<>>
  BY <1>1, <1>2 DEF ListInv, Queued
<1>5. ListInv'
  BY <1>1, <1>2, <1>3, <1>7 DEF ListInv
<1>6. PagesInv'
  BY <1>1, <1>2 DEF PagesInv, Injective
<1>8. Got = {} /\ Got' = {} /\ Counted' = Counted
  BY <1>2, <1>7 DEF Got, Counted
<1>9. ~(pc' = "exit" /\ exit' = 0)
  BY <1>2 DEF Begin, BeginHere, Exit, Stop
<1>10. GotInv'
  BY <1>1, <1>2, <1>3, <1>8, <1>9 DEF GotInv
<1>11. ImagesInv'
  BY <1>8 DEF ImagesInv
<1>12. PageOwn'
  BY <1>2, <1>7 DEF PageOwn
<1>13. \A f \in DOMAIN before : f.dir = "/" \/ (f \in DOMAIN disk /\ disk[f] = before[f])
  BY <1>2 DEF ProgramsInv, OthersKept, Begun
<1>14. OthersKept'
  <2>1. CASE disk' = disk
    BY <1>2, <1>13, <2>1 DEF OthersKept
  <2>2. CASE /\ Begin /\ set.clean /\ ~Stops
             /\ disk' = CleanDir(disk, ComicsDir, set.index)
    <3>1. Begun'
      BY <1>2, <1>3, <2>2 DEF Begin, Begun, Stops, Exit
    <3>2. ASSUME NEW f \in DOMAIN before, f.dir # "/"
          PROVE  \/ f \in DOMAIN disk' /\ disk'[f] = before[f]
                 \/ Cleanable(f)' /\ ~Hidden(f.name)
      <4>1. f \in DOMAIN disk /\ disk[f] = before[f]
        BY <1>13, <3>2
      <4>2. \/ f \in DOMAIN disk' /\ disk'[f] = disk[f]
            \/ /\ ~Hidden(f.name)
               /\ \/ f.dir = ComicsDir /\ IsImgtype(Ext(f.name))
                  \/ f.dir = set.index /\ Ext(f.name) = "html"
        BY <2>2, <4>1, CleanKeeps
      <4>. QED
        BY <1>3, <2>2, <4>1, <4>2 DEF Cleanable
    <3>. QED
      BY <1>2, <3>1, <3>2 DEF OthersKept
  <2>. QED
    BY <2>1, <2>2 DEF Begin, BeginHere, Cleaned
<1>. QED
  BY <1>4, <1>5, <1>6, <1>10, <1>11, <1>12, <1>14 DEF ProgramsInv

-----------------------------------------------------------------------------
(* The names of images.                                                    *)

\* A name that begins like another one, and goes on with extensions.
LEMMA JoinedNames ==
    ASSUME NEW a, IsList(a), NEW b, IsList(b), NEW ea \in Seq(Exts), NEW eb \in Seq(Exts),
           a \o ea = b \o eb, Len(a) <= Len(b)
    PROVE  /\ SubSeq(b, 1, Len(a)) = a
           /\ \A k \in Len(a) + 1 .. Len(b) : b[k] \in Exts
<1>1. IsList(ea) /\ IsList(eb) /\ \A k \in DOMAIN ea : ea[k] \in Exts
  BY DEF IsList
<1>2. /\ Len(a) \in Nat /\ DOMAIN a = 1 .. Len(a) /\ Len(b) \in Nat /\ DOMAIN b = 1 .. Len(b)
  BY ListType
<1>. DEFINE n == a \o ea
<1>3. /\ \A i \in DOMAIN a : n[i] = a[i]
      /\ DOMAIN n = 1 .. Len(a) + Len(ea)
      /\ \A i \in DOMAIN n : i \notin DOMAIN a => i - Len(a) \in DOMAIN ea /\ n[i] = ea[i - Len(a)]
  BY <1>1, ListJoined
<1>4. /\ \A i \in DOMAIN b : n[i] = b[i]
      /\ DOMAIN n = 1 .. Len(b) + Len(eb)
  BY <1>1, ListJoined
<1>5. Len(ea) \in Nat /\ Len(eb) \in Nat
  BY <1>1, ListType
<1>. HIDE DEF n
<1>6. SubSeq(b, 1, Len(a)) = a
  <2>1. SubSeq(b, 1, Len(a)) = [i \in 1 .. Len(a) |-> b[i]]
    BY <1>2
  <2>2. \A i \in 1 .. Len(a) : b[i] = a[i]
    BY <1>2, <1>3, <1>4
  <2>3. a = [i \in 1 .. Len(a) |-> a[i]]
    BY <1>2 DEF IsList
  <2>. QED
    BY <2>1, <2>2, <2>3
<1>7. ASSUME NEW k \in Len(a) + 1 .. Len(b) PROVE b[k] \in Exts
  <2>1. k \in DOMAIN b /\ k \in 1 .. Len(b) + Len(eb) /\ k \notin DOMAIN a
    BY <1>2, <1>5
  <2>2. k \in DOMAIN n /\ n[k] = b[k]
    BY <1>4, <2>1
  <2>. QED
    BY <1>1, <1>3, <2>1, <2>2
<1>. QED
  BY <1>6, <1>7

\* The extensions a comic has fit the settings.
Extended(c) == ComicOK(c) /\ (~set.extend => c.exts = <<>>)

\* A name to which extensions are joined.
LEMMA JoinedName ==
    ASSUME NEW a, IsList(a), NEW e \in Seq(Exts)
    PROVE  /\ Len(a \o e) >= Len(a) /\ SubSeq(a \o e, 1, Len(a)) = a
           /\ \A k \in Len(a) + 1 .. Len(a \o e) : (a \o e)[k] \in Exts
           /\ e = <<>> => a \o e = a
<1>1. IsList(e) /\ \A k \in DOMAIN e : e[k] \in Exts
  BY DEF IsList
<1>2. Len(a) \in Nat /\ DOMAIN a = 1 .. Len(a) /\ Len(e) \in Nat
  BY <1>1, ListType
<1>. DEFINE n == a \o e
<1>3. /\ IsList(n) /\ Len(n) = Len(a) + Len(e) /\ DOMAIN n = 1 .. Len(a) + Len(e)
      /\ \A i \in DOMAIN a : n[i] = a[i]
      /\ \A i \in DOMAIN n : i \notin DOMAIN a => i - Len(a) \in DOMAIN e /\ n[i] = e[i - Len(a)]
  BY <1>1, ListJoined
<1>. HIDE DEF n
<1>4. Len(n) >= Len(a)
  BY <1>2, <1>3
<1>5. a = [i \in 1 .. Len(a) |-> a[i]] /\ n = [i \in 1 .. Len(n) |-> n[i]]
  BY <1>3 DEF IsList
<1>6. \A i \in 1 .. Len(a) : n[i] = a[i]
  BY <1>2, <1>3
<1>7. SubSeq(n, 1, Len(a)) = a
  <2>1. SubSeq(n, 1, Len(a)) = [i \in 1 .. Len(a) |-> n[i]]
    BY <1>2
  <2>. QED
    BY <1>5, <1>6, <2>1
<1>8. ASSUME NEW k \in Len(a) + 1 .. Len(n) PROVE n[k] \in Exts
  <2>1. k \in DOMAIN n /\ k \notin DOMAIN a
    BY <1>2, <1>3
  <2>. QED
    BY <1>1, <1>3, <2>1
<1>9. e = <<>> => n = a
  <2>1. e = <<>> => Len(e) = 0
    OBVIOUS
  <2>2. e = <<>> => Len(n) = Len(a)
    BY <1>2, <1>3, <2>1
  <2>. QED
    BY <1>5, <1>6, <2>2
<1>. QED
  BY <1>4, <1>7, <1>8, <1>9 DEF n

\* The name an image has is one that it may have.
LEMMA ImageNamed ==
    ASSUME NEW c, Extended(c)
    PROVE  Named(c, Image(c).name) /\ Image(c).dir = set.dir
<1>1. IsList(c.out) /\ c.exts \in Seq(Exts) /\ (~set.extend => c.exts = <<>>)
  BY DEF Extended, ComicOK
<1>2. \A d, m : File(d, m).name = m /\ File(d, m).dir = d
  BY DEF File
<1>3. Image(c).name = c.out \o c.exts /\ Image(c).dir = set.dir
  BY <1>2 DEF Image
<1>4. PICK n : n = c.out \o c.exts
  OBVIOUS
<1>5. /\ Len(n) >= Len(c.out) /\ SubSeq(n, 1, Len(c.out)) = c.out
      /\ \A k \in Len(c.out) + 1 .. Len(n) : n[k] \in Exts
      /\ c.exts = <<>> => n = c.out
  BY <1>1, <1>4, JoinedName
<1>6. Named(c, n)
  BY <1>1, <1>5 DEF Named
<1>. QED
  BY <1>3, <1>4, <1>6

\* Comics of which neither is named like the other have no name in common.
LEMMA NoCommonName ==
    ASSUME NEW c, Extended(c), NEW d, Extended(d), ~Named(c, d.out), ~Named(d, c.out)
    PROVE  Image(c) # Image(d)
<1>. SUFFICES ASSUME Image(c) = Image(d) PROVE FALSE
  OBVIOUS
<1>1. IsList(c.out) /\ IsList(d.out) /\ c.exts \in Seq(Exts) /\ d.exts \in Seq(Exts)
  BY DEF Extended, ComicOK
<1>2. c.out \o c.exts = d.out \o d.exts
  BY DEF Image, File
<1>3. Len(c.out) \in Nat /\ Len(d.out) \in Nat
  BY <1>1, ListType
<1>4. CASE set.extend /\ Len(c.out) <= Len(d.out)
  <2>1. /\ SubSeq(d.out, 1, Len(c.out)) = c.out
        /\ \A k \in Len(c.out) + 1 .. Len(d.out) : d.out[k] \in Exts
    BY <1>1, <1>2, <1>4, JoinedNames
  <2>. QED
    BY <1>3, <1>4, <2>1 DEF Named
<1>5. CASE set.extend /\ Len(d.out) <= Len(c.out)
  <2>1. /\ SubSeq(c.out, 1, Len(d.out)) = d.out
        /\ \A k \in Len(d.out) + 1 .. Len(c.out) : c.out[k] \in Exts
    BY <1>1, <1>2, <1>5, JoinedNames
  <2>. QED
    BY <1>3, <1>5, <2>1 DEF Named
<1>6. CASE ~set.extend
  <2>1. Image(c).name = c.out
    BY <1>6, ImageNamed DEF Named
  <2>2. Image(d).name = d.out
    BY <1>6, ImageNamed DEF Named
  <2>. QED
    BY <1>6, <2>1, <2>2 DEF Named
<1>. QED
  BY <1>3, <1>4, <1>5, <1>6

\* A comic whose file is opened is still one.
LEMMA OpenedOK ==
    ASSUME NEW c, Extended(c), NEW ext \in Types(c)
    PROVE  LET o == Opened(c, ext)
           IN /\ Extended(o) /\ o.stage = c.stage /\ o.whole = c.whole /\ o.regexp = c.regexp
              /\ o.url = c.url /\ o.out = c.out /\ o.page = c.page /\ o.unique = c.unique
              /\ o.resets = c.resets /\ (set.extend => o.exts # <<>>)
<1>1. LazyImgtype(Url(c.url).header) \in Exts /\ "xxx" \in Exts
  BY DEF LazyImgtype, Exts
<1>2. ext \in Exts
  BY <1>1 DEF Types
<1>3. c.exts \in Seq(Exts) /\ Append(c.exts, ext) \in Seq(Exts)
  BY <1>2 DEF Extended, ComicOK
<1>4. CASE set.extend
  <2>. DEFINE e == Append(c.exts, ext)
  <2>1. Opened(c, ext) = [c EXCEPT !.exts = e]
    BY <1>4 DEF Opened
  <2>. HIDE DEF e
  <2>2. e \in Seq(Exts) /\ e # <<>>
    BY <1>3, AppendProperties DEF e
  <2>. QED
    BY <1>4, <2>1, <2>2 DEF Extended, ComicOK
<1>5. CASE ~set.extend
  BY <1>5 DEF Opened
<1>. QED
  BY <1>4, <1>5

-----------------------------------------------------------------------------
(* The loop.                                                               *)

\* A file that a step leaves alone that turns the disk into d.
Kept(f, d) == (f \in DOMAIN disk <=> f \in DOMAIN d) /\ (f \in DOMAIN disk => d[f] = disk[f])

\* Two forms of the same comic.
SameComic(c, d) ==
    /\ c.url = d.url /\ c.out = d.out /\ c.regexp = d.regexp /\ c.page = d.page
    /\ c.unique = d.unique

\* What is written or removed when old becomes new, which leaves disk d.
Writes(old, new, d) ==
    \/ d = disk
    \/ /\ old.regexp
       /\ \/ d = Without(disk, {PageAt(old)})
          \/ \E data \in {PageData(old), PagePart(old)} : d = Put(disk, PageAt(old), data)
    \/ /\ set.extend => new.exts # <<>>
       /\ \E data \in {ImageData(old), ImagePart(old)} : d = Put(disk, Image(new), data)

\* What is left of a comic is still this comic, and it has touched no file but its own.
LEMMA LeavesOK ==
    ASSUME NEW c, Extended(c), NEW l \in Leaves(c)
    PROVE  /\ Extended(l.comic) /\ SameComic(l.comic, c)
           /\ l.comic.stage = c.stage /\ l.comic.whole = c.whole /\ l.comic.resets = c.resets
           /\ \A f : f # Image(l.comic) /\ ~(FirstStage(c) /\ f = PageAt(c)) => Kept(f, l.disk)
           /\ Writes(c, l.comic, l.disk)
<1>1. CASE l = [comic |-> c, disk |-> disk]
  BY <1>1 DEF SameComic, Kept, Writes
<1>2. CASE FirstStage(c) /\ l = [comic |-> c, disk |-> Put(disk, PageAt(c), PagePart(c))]
  <2>1. l.comic = c /\ l.disk = Put(disk, PageAt(c), PagePart(c))
    BY <1>2
  <2>2. \A f : f # PageAt(c) => Kept(f, l.disk)
    BY <2>1, PutDisk DEF Kept
  <2>3. Writes(c, l.comic, l.disk)
    BY <1>2, <2>1 DEF Writes, FirstStage
  <2>. QED
    BY <1>2, <2>1, <2>2, <2>3 DEF SameComic
<1>3. CASE \E ext \in Types(c) :
             l = [comic |-> Opened(c, ext), disk |-> Put(disk, Image(Opened(c, ext)), ImagePart(c))]
  <2>1. PICK ext \in Types(c) :
          l = [comic |-> Opened(c, ext), disk |-> Put(disk, Image(Opened(c, ext)), ImagePart(c))]
    BY <1>3
  <2>2. l.comic = Opened(c, ext) /\ l.disk = Put(disk, Image(l.comic), ImagePart(c))
    BY <2>1
  <2>3. \A f : f # Image(l.comic) => Kept(f, l.disk)
    BY <2>2, PutDisk DEF Kept
  <2>4. /\ Extended(l.comic) /\ SameComic(l.comic, c)
        /\ l.comic.stage = c.stage /\ l.comic.whole = c.whole /\ l.comic.resets = c.resets
        /\ set.extend => l.comic.exts # <<>>
    BY <2>2, OpenedOK DEF SameComic
  <2>5. Writes(c, l.comic, l.disk)
    BY <2>2, <2>4 DEF Writes
  <2>. QED
    BY <2>3, <2>4, <2>5
<1>. QED
  BY <1>1, <1>2, <1>3 DEF Leaves

\* The page of c is in d, whole.
There(d, c) == PageAt(c) \in DOMAIN d /\ d[PageAt(c)] = PageData(c)

\* Of comic c, what PageOwn says, when the disk is d.
PageInv(c, d) ==
    /\ c.stage = "page" /\ ~curl => PageAt(c) \in DOMAIN d /\ d[PageAt(c)] \in {PageData(c), PagePart(c)}
    /\ c.whole /\ c.stage = "page" => There(d, c)
    /\ c.whole /\ c.stage = "failed" /\ Url(c.url).page = "nothing" => There(d, c)
    /\ c.whole /\ c.stage = "failed" /\ Url(c.url).page = "partly" => (There(d, c) <=> ~set.unlink)
    /\ c.whole /\ c.regexp /\ c.stage \in {"image", "got", "stuck"} => (There(d, c) <=> ~set.unlink)

\* How far comic i comes in a step of the loop, in which n are counted.
Advances(i, new, n) ==
    LET old == comics[i]
    IN /\ Become(i, new) /\ UNCHANGED <<run, pc, g, operand, set, unique, exit, before>>
       /\ Extended(new) /\ SameComic(new, old)
       /\ old.stage \in {"queued", "page", "image"} /\ (set.links => new.stage # "image")
       /\ ~Untouched(new) /\ Writes(old, new, disk')
       /\ n \in 0 .. 2 /\ gotit' = gotit + n
       /\ n > 0 => new.stage \in {"got", "stuck"}
       /\ ~set.links => n = IF new.stage = "got" THEN 1 ELSE 0
       /\ \A f : f # Image(new) /\ ~(old.regexp /\ f = PageAt(old)) => Kept(f, disk')
       /\ new.stage = "got" /\ new.whole /\ ~set.links /\ ~HeadOnly =>
            Image(new) \in DOMAIN disk' /\ disk'[Image(new)] = ImageData(new)
       /\ PageInv(old, disk) /\ (old.regexp => Image(new) # PageAt(old)) => PageInv(new, disk')

\* A step of the loop, and of which comic.
LoopStep(i) ==
    /\ pc = "loop" /\ i \in DOMAIN comics
    /\ UNCHANGED <<run, pc, g, operand, set, unique, exit, before>>

LEMMA ListedOK ==
    ASSUME ListInv, NEW i \in DOMAIN comics
    PROVE  Extended(comics[i])
BY DEF ListInv, Extended

LEMMA LinkAdvances ==
    ASSUME ListInv, NEW i, LoopStep(i), Link(i)
    PROVE  \E new, n : Advances(i, new, n)
<1>. DEFINE old == comics[i]
            new == [old EXCEPT !.stage = "got"]
<1>1. Extended(old) /\ set.links /\ ~old.regexp /\ old.stage = "queued"
  BY ListedOK DEF LoopStep, Link, IsLink
<1>2. Extended(new) /\ SameComic(new, old) /\ new.stage = "got" /\ new.whole = old.whole
  BY <1>1 DEF Extended, ComicOK, SameComic, Stages
<1>3. Become(i, new) /\ gotit' = gotit + 2 /\ disk' = disk
  BY DEF Link
<1>. HIDE DEF new
<1>4. PageInv(new, disk')
  BY <1>1, <1>2 DEF PageInv, SameComic
<1>5. Advances(i, new, 2)
  BY <1>1, <1>2, <1>3, <1>4 DEF Advances, LoopStep, Kept, Untouched, Writes
<1>. QED
  BY <1>5

LEMMA PageCameAdvances ==
    ASSUME ListInv, gotit \in Nat, NEW i, LoopStep(i), PageCame(i)
    PROVE  \E new, n : Advances(i, new, n)
<1>. DEFINE old == comics[i]
            new == [old EXCEPT !.stage = "page"]
<1>1. Extended(old) /\ old.regexp /\ old.stage = "queued"
  BY ListedOK DEF LoopStep, PageCame, FirstStage
<1>2. Extended(new) /\ SameComic(new, old) /\ new.stage = "page"
  BY <1>1 DEF Extended, ComicOK, SameComic, Stages
<1>3. Become(i, new) /\ gotit' = gotit /\ disk' = Put(disk, PageAt(old), PageData(old))
  BY DEF PageCame
<1>. HIDE DEF new
<1>4. /\ PageAt(old) \in DOMAIN disk' /\ disk'[PageAt(old)] = PageData(old)
      /\ \A f : f # PageAt(old) => Kept(f, disk')
  BY <1>3, PutDisk DEF Kept
<1>5. PageAt(new) = PageAt(old) /\ PageData(new) = PageData(old)
  BY <1>2 DEF PageAt, PageData, SameComic
<1>6. PageInv(new, disk')
  BY <1>2, <1>4, <1>5 DEF PageInv, There
<1>7. gotit' = gotit + 0 /\ 0 \in 0 .. 2
  BY <1>3
<1>8. Writes(old, new, disk')
  BY <1>1, <1>3 DEF Writes
<1>9. Advances(i, new, 0)
  BY <1>1, <1>2, <1>3, <1>4, <1>6, <1>7, <1>8 DEF Advances, LoopStep, Untouched
<1>. QED
  BY <1>9

LEMMA PageBrokenAdvances ==
    ASSUME ListInv, gotit \in Nat, NEW i, LoopStep(i), PageBroken(i)
    PROVE  \E new, n : Advances(i, new, n)
<1>. DEFINE old == comics[i]
            new == [old EXCEPT !.stage = "page", !.whole = FALSE]
<1>1. Extended(old) /\ old.regexp /\ old.stage = "queued"
  BY ListedOK DEF LoopStep, PageBroken, FirstStage
<1>2. Extended(new) /\ SameComic(new, old) /\ new.stage = "page" /\ new.whole = FALSE
  BY <1>1 DEF Extended, ComicOK, SameComic, Stages
<1>3. /\ Become(i, new) /\ gotit' = gotit
      /\ \/ disk' = Put(disk, PageAt(old), PagePart(old))
         \/ curl /\ disk' = disk
  BY DEF PageBroken
<1>. HIDE DEF new
<1>4. /\ ~curl => PageAt(old) \in DOMAIN disk' /\ disk'[PageAt(old)] = PagePart(old)
      /\ \A f : f # PageAt(old) => Kept(f, disk')
  BY <1>3, PutDisk DEF Kept
<1>5. PageAt(new) = PageAt(old) /\ PagePart(new) = PagePart(old)
  BY <1>2 DEF PageAt, PagePart, SameComic
<1>6. PageInv(new, disk')
  BY <1>2, <1>4, <1>5 DEF PageInv
<1>7. gotit' = gotit + 0 /\ 0 \in 0 .. 2
  BY <1>3
<1>8. Writes(old, new, disk')
  BY <1>1, <1>3 DEF Writes
<1>9. Advances(i, new, 0)
  BY <1>1, <1>2, <1>3, <1>4, <1>6, <1>7, <1>8 DEF Advances, LoopStep, Untouched
<1>. QED
  BY <1>9

LEMMA RegexpAdvances ==
    ASSUME ListInv, set.unlink \in BOOLEAN, NEW i, LoopStep(i), FindRegexp(i)
    PROVE  \E new, n : Advances(i, new, n)
<1>. DEFINE old == comics[i]
<1>1. Extended(old) /\ old.stage = "page" /\ old.regexp
  BY ListedOK DEF LoopStep, FindRegexp, Extended, ComicOK
<1>2. PICK found \in Found(old) : \E to \in Goes(found) :
        /\ disk' = Unlinked(old, found) /\ gotit' = gotit + to.counts
        /\ Become(i, [old EXCEPT !.stage = to.stage, !.whole = @ /\ OwnPage(old)])
  BY DEF FindRegexp
<1>3. PICK to \in Goes(found) :
        /\ disk' = Unlinked(old, found) /\ gotit' = gotit + to.counts
        /\ Become(i, [old EXCEPT !.stage = to.stage, !.whole = @ /\ OwnPage(old)])
  BY <1>2
<1>4. /\ to.stage \in {"failed", "image", "stuck", "got"} /\ to.counts \in 0 .. 2
      /\ to.counts > 0 => to.stage \in {"got", "stuck"}
      /\ ~set.links => to.stage # "got" /\ to.counts = 0
      /\ set.links => to.stage # "image"
      /\ found = "names" <=> to.stage # "failed"
  BY DEF Goes
<1>. DEFINE new == [old EXCEPT !.stage = to.stage, !.whole = @ /\ OwnPage(old)]
<1>5. /\ Extended(new) /\ SameComic(new, old) /\ new.stage = to.stage
      /\ new.whole = (old.whole /\ OwnPage(old))
  BY <1>1, <1>4 DEF Extended, ComicOK, SameComic, Stages
<1>6. Become(i, new)
  BY <1>3
<1>. HIDE DEF new
<1>7. /\ \A f : f # PageAt(old) => Kept(f, disk')
      /\ PageAt(old) \in DOMAIN disk' =>
           ~(set.unlink /\ found # "nothing") /\ disk' = disk
      /\ ~(set.unlink /\ found # "nothing") => disk' = disk
  BY <1>3, WithoutDisk DEF Kept, Unlinked
<1>8. There(disk, old) => found = Url(old.url).page
  <2>. SUFFICES ASSUME There(disk, old) PROVE found = Url(old.url).page
    OBVIOUS
  <2>1. PageAt(old) \in DOMAIN disk /\ disk[PageAt(old)] = <<"page", old.url>>
    BY DEF There, PageData
  <2>2. disk[PageAt(old)][1] = "page" /\ disk[PageAt(old)][2] = old.url
    BY <2>1
  <2>. QED
    BY <2>1, <2>2 DEF Found
<1>9. PageAt(new) = PageAt(old) /\ PageData(new) = PageData(old) /\ new.url = old.url
  BY <1>5 DEF PageAt, PageData, SameComic
<1>10. PageInv(new, disk')
  <2>1. new.stage # "page"
    BY <1>4, <1>5
  <2>2. new.whole => There(disk, old)
    BY <1>5 DEF OwnPage, There
  <2>3. There(disk, old) => (There(disk', new) <=> ~(set.unlink /\ found # "nothing"))
    BY <1>7, <1>9 DEF There
  <2>. QED
    BY <1>4, <1>5, <1>8, <1>9, <2>1, <2>2, <2>3 DEF PageInv
<1>11. new.stage = "got" => set.links
  BY <1>4, <1>5
<1>12. Writes(old, new, disk')
  BY <1>1, <1>3 DEF Writes, Unlinked
<1>13. Advances(i, new, to.counts)
  BY <1>1, <1>3, <1>4, <1>5, <1>6, <1>7, <1>10, <1>11, <1>12 DEF Advances, LoopStep, Untouched
<1>. QED
  BY <1>13

\* An image does not touch the page.
LEMMA PageStays ==
    ASSUME NEW old, NEW new, SameComic(new, old), NEW d,
           old.stage = "image" \/ ~old.regexp, new.whole => old.whole,
           new.stage \in {"image", "got", "queued", "missed"}, ComicOK(new),
           old.regexp => Kept(PageAt(old), d), PageInv(old, disk)
    PROVE  PageInv(new, d)
<1>1. PageAt(new) = PageAt(old) /\ PageData(new) = PageData(old) /\ new.regexp = old.regexp
  BY DEF PageAt, PageData, SameComic
<1>2. CASE ~old.regexp
  BY <1>1, <1>2 DEF PageInv, ComicOK
<1>3. CASE old.regexp
  <2>1. There(d, new) <=> There(disk, old)
    BY <1>1, <1>3 DEF There, Kept
  <2>. QED
    BY <1>1, <1>3, <2>1 DEF PageInv
<1>. QED
  BY <1>1, <1>2, <1>3 DEF SameComic, ComicOK

LEMMA WantedComic ==
    ASSUME ListInv, NEW i \in DOMAIN comics, Wanted(comics[i])
    PROVE  /\ comics[i].stage = "image" \/ (comics[i].stage = "queued" /\ ~comics[i].regexp)
           /\ ~set.links /\ ~FirstStage(comics[i])
BY DEF ListInv, Wanted, FirstStage

LEMMA ImageCameAdvances ==
    ASSUME ListInv, NEW i, LoopStep(i), ImageCame(i)
    PROVE  \E new, n : Advances(i, new, n)
<1>. DEFINE old == comics[i]
<1>1. /\ Extended(old) /\ ~set.links
      /\ old.stage = "image" \/ (old.stage = "queued" /\ ~old.regexp)
  BY ListedOK, WantedComic DEF LoopStep, ImageCame
<1>2. PICK ext \in Types(old) :
        disk' = Written(Opened(old, ext)) /\ Become(i, [Opened(old, ext) EXCEPT !.stage = "got"])
  BY DEF ImageCame
<1>. DEFINE o == Opened(old, ext)
            new == [o EXCEPT !.stage = "got"]
<1>3. Extended(o) /\ SameComic(o, old) /\ o.whole = old.whole /\ (set.extend => o.exts # <<>>)
  BY <1>1, OpenedOK DEF SameComic
<1>4. disk' = Put(disk, Image(o), ImageData(o)) /\ Become(i, new) /\ gotit' = gotit + 1
  BY <1>2 DEF Written, ImageCame
<1>. HIDE DEF o
<1>5. /\ Extended(new) /\ SameComic(new, old) /\ new.stage = "got" /\ new.whole = old.whole
      /\ Image(new) = Image(o) /\ ImageData(new) = ImageData(o) /\ ComicOK(new)
      /\ ImageData(old) = ImageData(o) /\ new.exts = o.exts
  BY <1>3 DEF Extended, ComicOK, SameComic, Stages, Image, ImageData
<1>. HIDE DEF new
<1>6. /\ Image(new) \in DOMAIN disk' /\ disk'[Image(new)] = ImageData(new)
      /\ \A f : f # Image(new) => Kept(f, disk')
  BY <1>4, <1>5, PutDisk DEF Kept
<1>7. PageInv(old, disk) /\ (old.regexp => Image(new) # PageAt(old)) => PageInv(new, disk')
  BY <1>1, <1>5, <1>6, PageStays
<1>8. Writes(old, new, disk')
  BY <1>3, <1>4, <1>5 DEF Writes
<1>9. Advances(i, new, 1)
  BY <1>1, <1>4, <1>5, <1>6, <1>7, <1>8 DEF Advances, LoopStep, Untouched
<1>. QED
  BY <1>9

LEMMA HeadCameAdvances ==
    ASSUME ListInv, NEW i, LoopStep(i), HeadCame(i)
    PROVE  \E new, n : Advances(i, new, n)
<1>. DEFINE old == comics[i]
            new == [old EXCEPT !.stage = "got"]
<1>1. /\ Extended(old) /\ ~set.links
      /\ old.stage = "image" \/ (old.stage = "queued" /\ ~old.regexp)
  BY ListedOK, WantedComic DEF LoopStep, HeadCame
<1>2. Become(i, new) /\ gotit' = gotit + 1 /\ disk' = disk /\ HeadOnly
  BY DEF HeadCame
<1>3. /\ Extended(new) /\ SameComic(new, old) /\ new.stage = "got" /\ new.whole = old.whole
      /\ ComicOK(new)
  BY <1>1 DEF Extended, ComicOK, SameComic, Stages
<1>. HIDE DEF new
<1>4. \A f : Kept(f, disk')
  BY <1>2 DEF Kept
<1>5. PageInv(old, disk) => PageInv(new, disk')
  BY <1>1, <1>3, <1>4, PageStays
<1>6. Advances(i, new, 1)
  BY <1>1, <1>2, <1>3, <1>4, <1>5 DEF Advances, LoopStep, Untouched, Writes
<1>. QED
  BY <1>6

LEMMA ImageBrokenAdvances ==
    ASSUME ListInv, NEW i, LoopStep(i), ImageBroken(i)
    PROVE  \E new, n : Advances(i, new, n)
<1>. DEFINE old == comics[i]
<1>1. /\ Extended(old) /\ ~set.links /\ ~FirstStage(old)
      /\ old.stage = "image" \/ (old.stage = "queued" /\ ~old.regexp)
  BY ListedOK, WantedComic DEF LoopStep, ImageBroken
<1>2. PICK left \in Leaves(old) :
        disk' = left.disk /\ Become(i, [left.comic EXCEPT !.stage = "got", !.whole = FALSE])
  BY DEF ImageBroken
<1>. DEFINE o == left.comic
            new == [o EXCEPT !.stage = "got", !.whole = FALSE]
<1>3. /\ Extended(o) /\ SameComic(o, old) /\ Writes(old, o, disk')
      /\ \A f : f # Image(o) => Kept(f, disk')
  BY <1>1, <1>2, LeavesOK
<1>4. Become(i, new) /\ gotit' = gotit + 1
  BY <1>2 DEF ImageBroken
<1>. HIDE DEF o
<1>5. /\ Extended(new) /\ SameComic(new, old) /\ new.stage = "got" /\ new.whole = FALSE
      /\ Image(new) = Image(o) /\ new.exts = o.exts
  BY <1>3 DEF Extended, ComicOK, SameComic, Stages, Image
<1>. HIDE DEF new
<1>6. PageInv(new, disk') /\ Writes(old, new, disk')
  BY <1>3, <1>5 DEF PageInv, Writes
<1>7. Advances(i, new, 1)
  BY <1>1, <1>3, <1>4, <1>5, <1>6 DEF Advances, LoopStep, Untouched
<1>. QED
  BY <1>7

LEMMA ResetAdvances ==
    ASSUME ListInv, gotit \in Nat, NEW i, LoopStep(i), Reset(i)
    PROVE  \E new, n : Advances(i, new, n)
<1>. DEFINE old == comics[i]
<1>1. Extended(old) /\ old.stage \in {"queued", "image"} /\ (set.links => old.stage # "image")
  BY ListedOK DEF LoopStep, Reset, ListInv
<1>2. PICK left \in Leaves(old) :
        disk' = left.disk /\ Become(i, [left.comic EXCEPT !.resets = @ + 1])
  BY DEF Reset
<1>. DEFINE o == left.comic
            r == o.resets + 1
            new == [o EXCEPT !.resets = r]
<1>3. /\ Extended(o) /\ SameComic(o, old) /\ o.stage = old.stage /\ o.whole = old.whole
      /\ Writes(old, o, disk') /\ o.resets \in Nat
      /\ \A f : f # Image(o) /\ ~(FirstStage(old) /\ f = PageAt(old)) => Kept(f, disk')
  BY <1>1, <1>2, LeavesOK DEF Extended, ComicOK
<1>4. Become(i, new) /\ gotit' = gotit
  BY <1>2 DEF Reset
<1>. HIDE DEF o
<1>5. r \in Nat /\ r # 0
  BY <1>3
<1>. HIDE DEF r
<1>6. /\ Extended(new) /\ SameComic(new, old) /\ new.stage = old.stage /\ new.whole = old.whole
      /\ Image(new) = Image(o) /\ ComicOK(new) /\ new.exts = o.exts /\ new.resets = r
  BY <1>3, <1>5 DEF Extended, ComicOK, SameComic, Image
<1>. HIDE DEF new
<1>7. PageInv(old, disk) /\ (old.regexp => Image(new) # PageAt(old)) => PageInv(new, disk')
  <2>1. CASE old.stage = "queued"
    <3>1. new.stage = "queued"
      BY <1>6, <2>1
    <3>. QED
      BY <3>1 DEF PageInv
  <2>2. CASE old.stage = "image"
    <3>1. ~FirstStage(old)
      BY <2>2 DEF FirstStage
    <3>. QED
      BY <1>3, <1>6, <2>2, <3>1, PageStays
  <2>. QED
    BY <1>1, <2>1, <2>2
<1>8. gotit' = gotit + 0 /\ 0 \in 0 .. 2
  BY <1>4
<1>9. Writes(old, new, disk')
  BY <1>3, <1>6 DEF Writes
<1>10. Advances(i, new, 0)
  BY <1>1, <1>3, <1>4, <1>5, <1>6, <1>7, <1>8, <1>9 DEF Advances, LoopStep, FirstStage, Untouched
<1>. QED
  BY <1>10

LEMMA MissedAdvances ==
    ASSUME ListInv, gotit \in Nat, NEW i, LoopStep(i), Missed(i)
    PROVE  \E new, n : Advances(i, new, n)
<1>. DEFINE old == comics[i]
<1>1. Extended(old) /\ old.stage \in {"queued", "image"}
  BY ListedOK DEF LoopStep, Missed
<1>2. PICK left \in Leaves(old) :
        disk' = left.disk /\ Become(i, [left.comic EXCEPT !.stage = "missed"])
  BY DEF Missed
<1>. DEFINE o == left.comic
            new == [o EXCEPT !.stage = "missed"]
<1>3. /\ Extended(o) /\ SameComic(o, old) /\ Writes(old, o, disk')
      /\ \A f : f # Image(o) /\ ~(FirstStage(old) /\ f = PageAt(old)) => Kept(f, disk')
  BY <1>1, <1>2, LeavesOK
<1>4. Become(i, new) /\ gotit' = gotit
  BY <1>2 DEF Missed
<1>. HIDE DEF o
<1>5. /\ Extended(new) /\ SameComic(new, old) /\ new.stage = "missed" /\ Image(new) = Image(o)
      /\ new.exts = o.exts
  BY <1>3 DEF Extended, ComicOK, SameComic, Stages, Image
<1>. HIDE DEF new
<1>6. PageInv(new, disk')
  BY <1>5 DEF PageInv
<1>7. gotit' = gotit + 0 /\ 0 \in 0 .. 2
  BY <1>4
<1>8. Writes(old, new, disk')
  BY <1>3, <1>5 DEF Writes
<1>9. Advances(i, new, 0)
  BY <1>1, <1>3, <1>4, <1>5, <1>6, <1>7, <1>8 DEF Advances, LoopStep, FirstStage, Untouched
<1>. QED
  BY <1>9

\* What a step of comic i makes of the list.
LEMMA AdvancesList ==
    ASSUME ProgramsInv, NEW i \in DOMAIN comics, NEW new, NEW n, Advances(i, new, n)
    PROVE  /\ IsList(comics') /\ DOMAIN comics' = DOMAIN comics /\ Len(comics') = Len(comics)
           /\ \A k \in DOMAIN comics : comics'[k] = IF k = i THEN new ELSE comics[k]
           /\ \A k \in DOMAIN comics : SameComic(comics'[k], comics[k])
           /\ NamesApart' <=> NamesApart
           /\ \A f : Own(f)' <=> Own(f)
<1>1. Len(comics) \in Nat /\ DOMAIN comics = 1 .. Len(comics)
  BY ListType DEF ProgramsInv, ListInv
<1>. DEFINE l == [comics EXCEPT ![i] = new]
<1>2. comics' = l /\ set' = set
  BY DEF Advances, Become
<1>3. /\ l = [k \in 1 .. Len(comics) |-> l[k]] /\ DOMAIN l = DOMAIN comics
      /\ \A k \in DOMAIN comics : l[k] = IF k = i THEN new ELSE comics[k]
  BY <1>1
<1>. HIDE DEF l
<1>4. IsList(l)
  BY <1>1, <1>3, FunctionList
<1>5. Len(l) = Len(comics)
  <2>1. Len(l) \in Nat /\ DOMAIN l = 1 .. Len(l)
    BY <1>4, ListType
  <2>. QED
    BY <1>1, <1>3, <2>1
<1>6. \A k \in DOMAIN comics : SameComic(comics'[k], comics[k])
  BY <1>2, <1>3 DEF Advances, SameComic
<1>7. \A k \in DOMAIN comics : \A m : Named(comics[k], m)' <=> Named(comics[k], m)
  <2>. SUFFICES ASSUME NEW k \in DOMAIN comics, NEW m
                PROVE  Named(comics[k], m)' <=> Named(comics[k], m)
    OBVIOUS
  <2>1. comics'[k].out = comics[k].out /\ set' = set
    BY <1>2, <1>6 DEF SameComic
  <2>. QED
    BY <2>1 DEF Named
<1>8. \A k \in DOMAIN comics : PageAt(comics[k])' = PageAt(comics[k])
  BY <1>2, <1>6 DEF PageAt, At, SameComic
<1>9. NamesApart' <=> NamesApart
  <2>1. /\ DOMAIN comics' = DOMAIN comics /\ set' = set
        /\ \A k \in DOMAIN comics : comics'[k].out = comics[k].out /\ comics'[k].regexp = comics[k].regexp
    BY <1>2, <1>3, <1>6 DEF SameComic
  <2>2. ASSUME NEW j \in DOMAIN comics, NEW k \in DOMAIN comics
        PROVE  /\ Named(comics[j], comics[k].out)' <=> Named(comics[j], comics[k].out)
               /\ Named(comics[j], PageAt(comics[k]).name)' <=> Named(comics[j], PageAt(comics[k]).name)
               /\ PageAt(comics[k])'.dir = PageAt(comics[k]).dir
    BY <1>7, <1>8, <2>1 DEF Named
  <2>. QED
    BY <2>1, <2>2 DEF NamesApart
<1>10. \A f : Own(f)' <=> Own(f)
  BY <1>2, <1>3, <1>7, <1>8 DEF Own
<1>. QED
  BY <1>2, <1>3, <1>4, <1>5, <1>6, <1>9, <1>10

\* The names a comic may have stay the same.
LEMMA SameNames ==
    ASSUME NEW c, NEW d, SameComic(c, d)
    PROVE  /\ PageAt(c) = PageAt(d)
           /\ \A m : Named(c, m) <=> Named(d, m)
BY DEF SameComic, PageAt, Named

\* With names apart an image is no other comic's file.
LEMMA ImagesApart ==
    ASSUME ProgramsInv, NamesApart, NEW i \in DOMAIN comics, NEW k \in DOMAIN comics,
           NEW c, Extended(c), SameComic(c, comics[i])
    PROVE  /\ comics[k].regexp => Image(c) # PageAt(comics[k])
           /\ k # i => Image(c) # Image(comics[k])
<1>1. \A m : Named(c, m) <=> Named(comics[i], m)
  BY SameNames
<1>2. Named(c, Image(c).name) /\ Image(c).dir = set.dir
  BY ImageNamed
<1>3. comics[k].regexp => Image(c) # PageAt(comics[k])
  BY <1>1, <1>2 DEF NamesApart
<1>4. ASSUME k # i PROVE Image(c) # Image(comics[k])
  <2>1. Extended(comics[k])
    BY ListedOK DEF ProgramsInv
  <2>2. c.out = comics[i].out
    BY DEF SameComic
  <2>3. ~Named(c, comics[k].out) /\ ~Named(comics[k], c.out)
    BY <1>1, <1>4, <2>2 DEF NamesApart
  <2>. QED
    BY <2>1, <2>3, NoCommonName
<1>. QED
  BY <1>3, <1>4

LEMMA AdvancesGot ==
    ASSUME ProgramsInv, pc = "loop", NEW i \in DOMAIN comics, NEW new, NEW n, Advances(i, new, n)
    PROVE  GotInv' /\ Got' = IF new.stage = "got" THEN Got \cup {i} ELSE Got
<1>1. /\ DOMAIN comics' = DOMAIN comics
      /\ \A k \in DOMAIN comics : comics'[k] = IF k = i THEN new ELSE comics[k]
  BY AdvancesList
<1>2. /\ comics[i].stage \notin {"got", "stuck"} /\ set' = set /\ pc' = pc
      /\ n \in 0 .. 2 /\ gotit' = gotit + n
      /\ n > 0 => new.stage \in {"got", "stuck"}
      /\ ~set.links => n = IF new.stage = "got" THEN 1 ELSE 0
  BY DEF Advances
<1>3. Len(comics) \in Nat /\ DOMAIN comics = 1 .. Len(comics)
  BY ListType DEF ProgramsInv, ListInv
<1>4. Got' = IF new.stage = "got" THEN Got \cup {i} ELSE Got
  BY <1>1 , <1>2 DEF Got
<1>5. Counted' = IF new.stage \in {"got", "stuck"} THEN Counted \cup {i} ELSE Counted
  BY <1>1 , <1>2 DEF Counted
<1>6. /\ Got \in SUBSET (1 .. Len(comics)) /\ i \notin Got
      /\ Counted \in SUBSET (1 .. Len(comics)) /\ i \notin Counted
  BY <1>2, <1>3 DEF Got, Counted
<1>7. \A S \in SUBSET (1 .. Len(comics)) :
        i \notin S => Cardinality(S) \in Nat /\ Cardinality(S \cup {i}) = Cardinality(S) + 1
  <2>. SUFFICES ASSUME NEW S \in SUBSET (1 .. Len(comics)), i \notin S
                PROVE  Cardinality(S) \in Nat /\ Cardinality(S \cup {i}) = Cardinality(S) + 1
    OBVIOUS
  <2>1. IsFiniteSet(1 .. Len(comics))
    BY <1>3, FS_Interval
  <2>2. IsFiniteSet(S) /\ Cardinality(S) \in Nat
    BY <2>1, FS_Subset, FS_CardinalityType
  <2>. QED
    BY <2>2, FS_AddElement
<1>8. /\ Cardinality(Got) \in Nat /\ Cardinality(Got \cup {i}) = Cardinality(Got) + 1
      /\ Cardinality(Counted) \in Nat /\ Cardinality(Counted \cup {i}) = Cardinality(Counted) + 1
  BY <1>6, <1>7
<1>9. gotit \in Nat /\ IF set.links THEN gotit <= 2 * Cardinality(Counted) ELSE gotit = Cardinality(Got)
  BY DEF ProgramsInv, GotInv
<1>10. gotit' \in Nat /\ IF set'.links THEN gotit' <= 2 * Cardinality(Counted') ELSE gotit' = Cardinality(Got')
  <2>1. CASE set.links /\ new.stage \in {"got", "stuck"}
    <3>1. Counted' = Counted \cup {i}
      BY <1>5, <2>1
    <3>. QED
      BY <1>2, <1>8, <1>9, <2>1, <3>1
  <2>2. CASE set.links /\ new.stage \notin {"got", "stuck"}
    <3>1. Counted' = Counted /\ n = 0
      BY <1>2, <1>5, <2>2
    <3>. QED
      BY <1>2, <1>8, <1>9, <2>2, <3>1
  <2>3. CASE ~set.links
    BY <1>2, <1>4, <1>8, <1>9, <2>3
  <2>. QED
    BY <2>1, <2>2, <2>3
<1>. QED
  BY <1>2, <1>4, <1>10 DEF GotInv

LEMMA AdvancesImages ==
    ASSUME ProgramsInv, pc = "loop", NEW i \in DOMAIN comics, NEW new, NEW n, Advances(i, new, n)
    PROVE  ImagesInv'
<1>. SUFFICES ASSUME NamesApart', ~set'.links, ~HeadOnly', NEW k \in Got', comics'[k].whole
              PROVE  /\ Image(comics[k])' \in DOMAIN disk'
                     /\ disk'[Image(comics[k])'] = ImageData(comics[k])'
  BY DEF ImagesInv
<1>1. set' = set /\ run' = run /\ NamesApart
  BY AdvancesList DEF Advances
<1>2. ~set.links /\ ~HeadOnly
  BY <1>1 DEF HeadOnly, prog
<1>3. k \in DOMAIN comics /\ comics'[k] = IF k = i THEN new ELSE comics[k]
  BY AdvancesList DEF Got
<1>4. Image(comics[k])' = Image(comics'[k]) /\ ImageData(comics[k])' = ImageData(comics'[k])
  BY <1>1 DEF Image, ImageData
<1>5. CASE k = i
  <2>1. new.stage = "got" /\ comics'[k] = new
    BY <1>3, <1>5 DEF Got
  <2>. QED
    BY <1>2, <1>4, <1>5, <2>1 DEF Advances
<1>6. CASE k # i
  <2>1. k \in Got /\ comics'[k] = comics[k]
    BY <1>3, <1>6 DEF Got
  <2>2. Image(comics[k]) \in DOMAIN disk /\ disk[Image(comics[k])] = ImageData(comics[k])
    BY <1>1, <1>2, <2>1 DEF ProgramsInv, ImagesInv
  <2>3. Image(comics[k]) # Image(new)
    BY <1>1, <1>3, <1>6, ImagesApart DEF Advances
  <2>4. comics[i].regexp => Image(comics[k]) # PageAt(comics[i])
    <3>1. Extended(comics[k]) /\ SameComic(comics[k], comics[k])
      BY <1>3, ListedOK DEF ProgramsInv, SameComic
    <3>. QED
      BY <1>1, <1>3, <3>1, ImagesApart
  <2>5. Kept(Image(comics[k]), disk')
    BY <2>3, <2>4 DEF Advances
  <2>. QED
    BY <1>4, <2>1, <2>2, <2>5 DEF Kept
<1>. QED
  BY <1>5, <1>6

LEMMA PagesOwned ==
    ASSUME set.unlink \in BOOLEAN
    PROVE  PageOwn <=> (Begun /\ NamesApart => \A k \in DOMAIN comics : PageInv(comics[k], disk))
<1>1. \A c : OwnPage(c) <=> There(disk, c)
  BY DEF OwnPage, There
<1>2. \A c : OwnPage(c) = ~set.unlink <=> (There(disk, c) <=> ~set.unlink)
  BY DEF OwnPage, There
<1>3. ASSUME NEW k \in DOMAIN comics
      PROVE  PageInv(comics[k], disk) <=>
               LET c == comics[k]
                   there == OwnPage(c)
               IN /\ c.stage = "page" /\ ~curl =>
                       PageAt(c) \in DOMAIN disk /\ disk[PageAt(c)] \in {PageData(c), PagePart(c)}
                  /\ c.whole /\ c.stage = "page" => there
                  /\ c.whole /\ c.stage = "failed" /\ Url(c.url).page = "nothing" => there
                  /\ c.whole /\ c.stage = "failed" /\ Url(c.url).page = "partly" => there = ~set.unlink
                  /\ c.whole /\ c.regexp /\ c.stage \in {"image", "got", "stuck"} => there = ~set.unlink
  BY <1>1, <1>2 DEF PageInv
<1>. QED
  BY <1>3 DEF PageOwn

LEMMA AdvancesPages ==
    ASSUME ProgramsInv, Injective, pc = "loop", NEW i \in DOMAIN comics, NEW new, NEW n,
           Advances(i, new, n)
    PROVE  PageOwn'
<1>1. set' = set /\ pc' = pc /\ run' = run /\ set.unlink \in BOOLEAN
  BY DEF Advances, ProgramsInv, OptionsInv
<1>2. CASE ~NamesApart
  BY <1>2, AdvancesList DEF PageOwn
<1>3. CASE NamesApart
  <2>1. \A k \in DOMAIN comics : PageInv(comics[k], disk)
    <3>1. Begun
      BY DEF Begun
    <3>. QED
      BY <1>1, <1>3, <3>1, PagesOwned DEF ProgramsInv
  <2>2. \A k \in DOMAIN comics : comics[k].regexp => PageAt(comics[k]) # Image(new)
    BY <1>3, ImagesApart DEF Advances
  <2>3. ASSUME NEW k \in DOMAIN comics
        PROVE  PageInv(comics'[k], disk')
    <3>1. CASE k = i
      <4>1. comics'[k] = new
        BY <3>1, AdvancesList
      <4>. QED
        BY <2>1, <2>2, <3>1, <4>1 DEF Advances
    <3>2. CASE k # i /\ comics[k].regexp
      <4>1. comics'[k] = comics[k]
        BY <3>2, AdvancesList
      <4>2. comics[i].regexp => PageAt(comics[k]) # PageAt(comics[i])
        <5>1. comics[i].regexp => comics[k].page.name # comics[i].page.name
          BY <3>2 DEF ProgramsInv, PagesInv
        <5>2. \A f : At(f).name = f.name
          BY DEF At, File
        <5>. QED
          BY <5>1, <5>2 DEF PageAt
      <4>3. Kept(PageAt(comics[k]), disk')
        BY <2>2, <3>2, <4>2 DEF Advances
      <4>4. There(disk', comics[k]) <=> There(disk, comics[k])
        BY <4>3 DEF There, Kept
      <4>5. PageInv(comics[k], disk)
        BY <2>1
      <4>. QED
        BY <4>1, <4>3, <4>4, <4>5 DEF PageInv, Kept
    <3>3. CASE k # i /\ ~comics[k].regexp
      <4>1. comics'[k] = comics[k] /\ ComicOK(comics[k])
        BY <3>3, AdvancesList DEF ProgramsInv, ListInv
      <4>. QED
        BY <3>3, <4>1 DEF PageInv, ComicOK
    <3>. QED
      BY <3>1, <3>2, <3>3
  <2>4. ASSUME NEW k \in DOMAIN comics
        PROVE  PageInv(comics[k], disk)' <=> PageInv(comics'[k], disk')
    BY <1>1 DEF PageInv, There, PageAt, At, PageData, PagePart, curl
  <2>5. \A k \in DOMAIN comics' : PageInv(comics[k], disk)'
    BY <2>3, <2>4, AdvancesList
  <2>6. (set.unlink \in BOOLEAN)'
    BY <1>1
  <2>7. (PageOwn <=> (Begun /\ NamesApart => \A k \in DOMAIN comics : PageInv(comics[k], disk)))'
    BY <2>6, PagesOwned, PTL
  <2>. QED
    BY <2>5, <2>7
<1>. QED
  BY <1>2, <1>3

LEMMA AdvancesOthers ==
    ASSUME ProgramsInv, pc = "loop", NEW i \in DOMAIN comics, NEW new, NEW n, Advances(i, new, n)
    PROVE  OthersKept'
<1>1. before' = before /\ set' = set /\ pc' = pc
  BY DEF Advances
<1>2. Begun'
  BY <1>1 DEF Begun
<1>3. \A f : Own(f)' <=> Own(f)
  BY AdvancesList
<1>. SUFFICES ASSUME NEW f \in DOMAIN before, f.dir # "/"
              PROVE  \/ f \in DOMAIN disk' /\ disk'[f] = before[f]
                     \/ Own(f)
                     \/ Cleanable(f) /\ ~Hidden(f.name)
  BY <1>1, <1>2, <1>3 DEF OthersKept, Cleanable
<1>4. CASE f \in DOMAIN disk /\ disk[f] = before[f]
  <2>1. CASE f = PageAt(comics[i])
    BY <2>1 DEF Own
  <2>2. CASE f = Image(new)
    <3>1. Named(new, f.name) /\ f.dir = set.dir
      BY <2>2, ImageNamed DEF Advances
    <3>2. Named(comics[i], f.name)
      BY <3>1, SameNames DEF Advances
    <3>. QED
      BY <3>1, <3>2 DEF Own
  <2>3. CASE f # Image(new) /\ f # PageAt(comics[i])
    <3>1. Kept(f, disk')
      BY <2>3 DEF Advances
    <3>. QED
      BY <1>4, <3>1 DEF Kept
  <2>. QED
    BY <2>1, <2>2, <2>3
<1>. QED
  BY <1>4 DEF ProgramsInv, OthersKept

LEMMA DownloadAdvances ==
    ASSUME ProgramsInv, Download
    PROVE  \E i \in DOMAIN comics : \E new, n : Advances(i, new, n)
<1>1. pc = "loop" /\ UNCHANGED <<run, pc, g, operand, set, unique, exit, before>>
  BY DEF Download
<1>2. PICK i \in DOMAIN comics :
        \/ Link(i) \/ PageCame(i) \/ PageBroken(i) \/ FindRegexp(i)
        \/ ImageCame(i) \/ HeadCame(i) \/ ImageBroken(i) \/ Reset(i) \/ Missed(i)
  BY DEF Download
<1>3. LoopStep(i) /\ ListInv /\ gotit \in Nat /\ set.unlink \in BOOLEAN
  BY <1>1 DEF LoopStep, ProgramsInv, GotInv, OptionsInv
<1>4. \E new, n : Advances(i, new, n)
  BY <1>2, <1>3, LinkAdvances, PageCameAdvances, PageBrokenAdvances, RegexpAdvances,
     ImageCameAdvances, HeadCameAdvances, ImageBrokenAdvances, ResetAdvances, MissedAdvances
<1>. QED
  BY <1>4

LEMMA DownloadKeeps ==
    ASSUME ProgramsInv, Download
    PROVE  ProgramsInv'
<1>1. pc = "loop" /\ UNCHANGED <<run, pc, g, operand, set, unique, exit, before>>
  BY DEF Download
<1>2. PICK i \in DOMAIN comics : \E new, n : Advances(i, new, n)
  BY DownloadAdvances
<1>3. PICK new, n : Advances(i, new, n)
  BY <1>2
<1>4. OptionsInv'
  BY <1>1 DEF ProgramsInv, OptionsInv
<1>5. ListInv'
  <2>1. /\ IsList(comics') /\ DOMAIN comics' = DOMAIN comics
        /\ \A k \in DOMAIN comics : comics'[k] = IF k = i THEN new ELSE comics[k]
    BY <1>3, AdvancesList
  <2>2. Extended(new) /\ (set.links => new.stage # "image")
    BY <1>3 DEF Advances
  <2>. QED
    BY <1>1, <2>1, <2>2 DEF ProgramsInv, ListInv, Extended
<1>6. PagesInv'
  <2>1. /\ DOMAIN comics' = DOMAIN comics /\ unique' = unique /\ (Injective' <=> Injective)
        /\ \A k \in DOMAIN comics :
             comics'[k].regexp = comics[k].regexp /\ comics'[k].page = comics[k].page
    BY <1>1, <1>3, AdvancesList DEF Injective, SameComic
  <2>. QED
    BY <2>1 DEF ProgramsInv, PagesInv
<1>7. GotInv' /\ ImagesInv' /\ OthersKept'
  BY <1>1, <1>3, AdvancesGot, AdvancesImages, AdvancesOthers
<1>8. (Injective => PageOwn)'
  BY <1>1, <1>3, AdvancesPages DEF Injective
<1>. QED
  BY <1>4, <1>5, <1>6, <1>7, <1>8 DEF ProgramsInv

\* Files and comics that stay as they are.
LEMMA SameFiles ==
    ASSUME ProgramsInv, UNCHANGED <<run, set, comics, disk>>, Begun <=> Begun'
    PROVE  ImagesInv' /\ (Injective => PageOwn)'
<1>1. /\ HeadOnly' <=> HeadOnly
      /\ curl' = curl
  BY DEF HeadOnly, prog, curl
<1>2. \A c : Image(c)' = Image(c) /\ PageAt(c)' = PageAt(c)
  BY DEF Image, PageAt, At
<1>3. NamesApart' <=> NamesApart
  BY DEF NamesApart, Named, PageAt, At
<1>4. Got' = Got
  BY DEF Got
<1>5. ImagesInv'
  BY <1>1, <1>2, <1>3, <1>4 DEF ProgramsInv, ImagesInv, ImageData
<1>6. PageOwn <=> PageOwn'
  BY <1>1, <1>2, <1>3 DEF PageOwn, OwnPage, PageData, PagePart
<1>. QED
  BY <1>5, <1>6 DEF ProgramsInv, Injective

LEMMA ResultsKeep ==
    ASSUME ProgramsInv, Results
    PROVE  ProgramsInv'
<1>1. /\ pc = "loop" /\ pc' = "exit" /\ exit' = Status
      /\ \A i \in DOMAIN comics : Resolved(comics[i])
      /\ UNCHANGED <<run, g, operand, set, comics, unique, gotit, disk, before>>
  BY DEF Results, Exit
<1>2. OptionsInv'
  BY <1>1 DEF ProgramsInv, OptionsInv
<1>3. ListInv'
  BY <1>1 DEF ProgramsInv, ListInv
<1>4. PagesInv'
  BY <1>1 DEF ProgramsInv, PagesInv, Injective
<1>5. GotInv'
  <2>1. exit' = 0 => gotit = Len(comics)
    BY <1>1 DEF Status
  <2>2. Got' = Got /\ Counted' = Counted
    BY <1>1 DEF Got, Counted
  <2>. QED
    BY <1>1, <2>1, <2>2 DEF ProgramsInv, GotInv
<1>6. ImagesInv' /\ (Injective => PageOwn)'
  BY <1>1, SameFiles DEF Begun
<1>8. OthersKept'
  <2>1. Begun' /\ Begun
    BY <1>1 DEF Begun
  <2>2. \A f : (Own(f)' <=> Own(f)) /\ (Cleanable(f)' <=> Cleanable(f))
    BY <1>1 DEF Own, Cleanable, Named, PageAt, At
  <2>. QED
    BY <1>1, <2>1, <2>2 DEF ProgramsInv, OthersKept
<1>. QED
  BY <1>2, <1>3, <1>4, <1>5, <1>6, <1>8 DEF ProgramsInv

LEMMA NextRunKeeps ==
    ASSUME ProgramsInv, NextRun
    PROVE  ProgramsInv'
<1>1. /\ run' = Commands[run].then /\ Commands[run].then # 0
      /\ pc' = "options" /\ g' = Getopt0 /\ set' = Setting0 /\ comics' = <<>> /\ unique' = 0
      /\ gotit' = 0 /\ before' = disk /\ disk' = disk
  BY DEF NextRun, Fresh
<1>2. OptionsInv'
  <2>1. run' \in DOMAIN Commands
    BY <1>1, ProgramsAssumption DEF ProgramsInv, OptionsInv
  <2>2. DOMAIN g' = {"optind", "argptr", "ret", "optarg"}
    BY <1>1 DEF Getopt0
  <2>3. DOMAIN set' = Fields /\ set'.unlink \in BOOLEAN /\ set'.links \in BOOLEAN
        /\ set'.regexp \in BOOLEAN
    BY <1>1 DEF Setting0, Fields
  <2>. QED
    BY <1>1, <2>1, <2>2, <2>3 DEF OptionsInv
<1>3. ListInv'
  BY <1>1, EmptyList DEF ListInv
<1>4. PagesInv'
  BY <1>1, EmptyList DEF PagesInv
<1>5. Got' = {} /\ Counted' = {}
  BY <1>1, EmptyList DEF Got, Counted
<1>6. GotInv'
  BY <1>1, <1>5, FS_EmptySet DEF GotInv
<1>7. ImagesInv'
  BY <1>5 DEF ImagesInv
<1>8. OthersKept' /\ PageOwn'
  BY <1>1 DEF OthersKept, PageOwn, Begun
<1>. QED
  BY <1>2, <1>3, <1>4, <1>6, <1>7, <1>8 DEF ProgramsInv

LEMMA ProgramsInit == Init => ProgramsInv
<1>. SUFFICES ASSUME Init PROVE ProgramsInv
  OBVIOUS
<1>1. OptionsInv
  <2>1. DOMAIN g = {"optind", "argptr", "ret", "optarg"}
    BY DEF Init, Getopt0
  <2>2. DOMAIN set = Fields /\ set.unlink \in BOOLEAN /\ set.links \in BOOLEAN
        /\ set.regexp \in BOOLEAN
    BY DEF Init, Setting0, Fields
  <2>. QED
    BY <2>1, <2>2 DEF Init, OptionsInv
<1>2. ListInv /\ PagesInv
  BY EmptyList DEF Init, ListInv, PagesInv
<1>3. Got = {} /\ Counted = {}
  BY EmptyList DEF Init, Got, Counted
<1>4. GotInv
  BY <1>3, FS_EmptySet DEF Init, GotInv
<1>5. ImagesInv
  BY <1>3 DEF ImagesInv
<1>6. OthersKept /\ PageOwn
  BY DEF Init, OthersKept, PageOwn, Begun
<1>. QED
  BY <1>1, <1>2, <1>4, <1>5, <1>6 DEF ProgramsInv

LEMMA ProgramsStutter ==
    ASSUME ProgramsInv, UNCHANGED vars
    PROVE  ProgramsInv'
<1>1. OptionsInv' /\ ListInv' /\ PagesInv'
  BY DEF vars, ProgramsInv, OptionsInv, ListInv, PagesInv, Injective
<1>2. GotInv'
  BY DEF vars, ProgramsInv, GotInv, Got, Counted
<1>3. ImagesInv' /\ (Injective => PageOwn)'
  BY SameFiles DEF vars, Begun
<1>4. OthersKept'
  BY DEF vars, ProgramsInv, OthersKept, Begun, Own, Cleanable, Named, PageAt, At
<1>. QED
  BY <1>1, <1>2, <1>3, <1>4 DEF ProgramsInv

\* Lists, counts, files and pages, together, over runs that follow one another in the
\* same directories.
THEOREM ProgramsInductive == Spec => []ProgramsInv
<1>1. ASSUME ProgramsInv, [Next]_vars PROVE ProgramsInv'
  <2>1. CASE Terminating \/ Waits \/ UNCHANGED vars
    BY <1>1, <2>1, ProgramsStutter DEF Terminating, Waits
  <2>. QED
    BY <1>1, <2>1, OptionKeeps, OperandKeeps, BeginKeeps, DownloadKeeps, ResultsKeep,
       NextRunKeeps DEF Next
<1>. QED
  BY <1>1, ProgramsInit, PTL DEF Spec

\* Of the files that a run finds, it changes those of its own comics, and with -c removes
\* those that look like downloads; and when it does not come to its loop, none
\* (get-comics.c:109-207).
THEOREM ProgramsOthersKept == Spec => []OthersKept
<1>1. ProgramsInv => OthersKept
  BY DEF ProgramsInv
<1>. QED
  BY <1>1, ProgramsInductive, PTL

\* When the exit status is 0 every comic on the list was got: gotit counts each
\* once, over two stages and resets (get-comics.c:33).  What came whole is the only
\* thing in its file, whatever resets and earlier runs have left there, as
\* write_output begins each file anew (common.c:303).
THEOREM ProgramsSuccess == Spec => []SuccessMeansFiles
<1>1. ProgramsInv => SuccessMeansFiles
  <2>. SUFFICES ASSUME ProgramsInv, pc = "exit", exit = 0, NamesApart, ~set.links, ~HeadOnly,
                       NEW i \in DOMAIN comics
                PROVE  /\ comics[i].stage = "got"
                       /\ comics[i].whole => /\ Image(comics[i]) \in DOMAIN disk
                                             /\ disk[Image(comics[i])] = ImageData(comics[i])
    BY DEF SuccessMeansFiles
  <2>1. gotit = Len(comics) /\ gotit = Cardinality(Got)
    BY DEF ProgramsInv, GotInv
  <2>2. Len(comics) \in Nat /\ DOMAIN comics = 1 .. Len(comics)
    BY ListType DEF ProgramsInv, ListInv
  <2>3. Got \in SUBSET (1 .. Len(comics))
    BY <2>2 DEF Got
  <2>4. i \in Got
    <3>1. IsFiniteSet(1 .. Len(comics)) /\ Cardinality(1 .. Len(comics)) = Len(comics)
      <4>1. 1 \in Int /\ Len(comics) \in Int /\ Len(comics) - 1 + 1 = Len(comics) /\ Len(comics) \in Nat
        BY <2>2
      <4>2. \A n \in Nat : IsFiniteSet(1 .. n) /\ Cardinality(1 .. n) = n
        BY FS_Interval
      <4>. QED
        BY <4>1, <4>2
    <3>2. Got = 1 .. Len(comics)
      BY <2>1, <2>3, <3>1, FS_Subset
    <3>. QED
      BY <2>2, <3>2
  <2>. QED
    BY <2>4 DEF ProgramsInv, ImagesInv, Got
<1>. QED
  BY <1>1, ProgramsInductive, PTL

\* The page that find_regexp searches is the one that came for this comic, if it
\* came whole, and in the native engine always, when pages with different numbers
\* have different names; and it is unlinked exactly when the regexp has matched,
\* if only in part, and -k was not given (common.c:281, common.c:286-292).
THEOREM ProgramsPageOwn ==
    ASSUME Injective
    PROVE  Spec => []PageOwn
<1>1. Injective
  OBVIOUS
<1>2. ProgramsInv => PageOwn
  BY <1>1 DEF ProgramsInv
<1>. QED
  BY <1>2, ProgramsInductive, PTL

-----------------------------------------------------------------------------
(* Numbers.                                                                *)

\* A set of naturals that is not empty has a least member.
LEMMA LeastNatural ==
    ASSUME NEW S \in SUBSET Nat, S # {}
    PROVE  \E m \in S : \A n \in S : m <= n
<1>. DEFINE R == OpToRel(<, Nat)
<1>1. IsWellFoundedOn(R, Nat)
  BY NatLessThanWellFounded
<1>2. \A m, n \in Nat : n < m => <<n, m>> \in R
  BY DEF OpToRel
<1>. HIDE DEF R
<1>3. \E m \in S : \A n \in S : ~(<<n, m>> \in R)
  BY <1>1, WFMin
<1>4. \A m, n \in S : ~(<<n, m>> \in R) => m <= n
  BY <1>2
<1>. QED
  BY <1>3, <1>4

\* Induction from n down to 1, for a property that is a set of numbers.
LEMMA DownTo ==
    ASSUME NEW n \in Nat \ {0}, NEW S \in SUBSET (1 .. n), n \in S,
           \A k \in S : k > 1 => k - 1 \in S
    PROVE  1 \in S
<1>1. S \subseteq Nat /\ S # {}
  OBVIOUS
<1>2. PICK m \in S : \A k \in S : m <= k
  BY <1>1, LeastNatural
<1>3. m \in Nat /\ m >= 1
  OBVIOUS
<1>4. m > 1 => m - 1 \in S /\ ~(m <= m - 1)
  BY <1>3
<1>5. m = 1
  BY <1>2, <1>3, <1>4
<1>. QED
  BY <1>5

-----------------------------------------------------------------------------
(* What a command line means.                                              *)

\* The options and words that can be made of some characters; NoWord is no word.
OptOf(C) == [letter: C \cup {"?"}, arg: Seq(C) \cup {NoWord}]
MeaningOf(C) == [opts: Seq(OptOf(C)), operands: Seq(Seq(C))]

StopsAt(word, takes) == {i \in DOMAIN word : word[i] \notin DOMAIN takes \/ takes[word[i]]}
Plain(word, n) == [i \in 1 .. n |-> Opt(word[i], NoWord)]
IsFirst(S, m) == m \in S /\ \A j \in S : m <= j

\* The letters up to the first, at m, that is no option or takes an argument.
LEMMA ClusterAt ==
    ASSUME NEW word, NEW takes, NEW m, IsFirst(StopsAt(word, takes), m), DOMAIN word \subseteq Int
    PROVE  Cluster(word, takes) =
             IF word[m] \notin DOMAIN takes
             THEN [opts |-> Append(Plain(word, m - 1), Opt("?", NoWord)), more |-> FALSE]
             ELSE [opts |-> Append(Plain(word, m - 1), Opt(word[m], SubSeq(word, m + 1, Len(word)))),
                   more |-> SubSeq(word, m + 1, Len(word)) = <<>>]
<1>. DEFINE S == StopsAt(word, takes)
            First(i) == \A j \in S : i <= j
            last == CHOOSE i \in S : First(i)
<1>1. m \in S /\ First(m) /\ S \subseteq Int
  BY DEF IsFirst, StopsAt
<1>2. last = m
  <2>1. last \in S /\ First(last)
    <3>. HIDE DEF First, S
    <3>. QED
      BY <1>1
  <2>2. last <= m /\ m <= last /\ last \in Int /\ m \in Int
    BY <1>1, <2>1
  <2>. HIDE DEF last
  <2>. QED
    BY <2>2
<1>3. S # {}
  BY <1>1
<1>4. Cluster(word, takes) =
        IF S = {} THEN [opts |-> Plain(word, Len(word)), more |-> FALSE]
        ELSE IF word[last] \notin DOMAIN takes
        THEN [opts |-> Append(Plain(word, last - 1), Opt("?", NoWord)), more |-> FALSE]
        ELSE [opts |-> Append(Plain(word, last - 1), Opt(word[last], SubSeq(word, last + 1, Len(word)))),
              more |-> SubSeq(word, last + 1, Len(word)) = <<>>]
  BY DEF Cluster, StopsAt, Plain
<1>. HIDE DEF S, last
<1>. QED
  BY <1>2, <1>3, <1>4

\* All letters are options without an argument.
LEMMA ClusterNone ==
    ASSUME NEW word, NEW takes, StopsAt(word, takes) = {}
    PROVE  Cluster(word, takes) = [opts |-> Plain(word, Len(word)), more |-> FALSE]
BY DEF Cluster, StopsAt, Plain

\* If there is such a letter, there is a first.
LEMMA FirstOf ==
    ASSUME NEW C, NEW word \in Seq(C), NEW takes, StopsAt(word, takes) # {}
    PROVE  \E m \in 1 .. Len(word) : IsFirst(StopsAt(word, takes), m)
<1>1. StopsAt(word, takes) \subseteq 1 .. Len(word) /\ 1 .. Len(word) \subseteq Nat
  BY DEF StopsAt
<1>. QED
  BY <1>1, LeastNatural DEF IsFirst

\* No letter is left.
LEMMA ClusterEmpty ==
    ASSUME NEW takes
    PROVE  Cluster(<<>>, takes) = [opts |-> <<>>, more |-> FALSE]
<1>1. StopsAt(<<>>, takes) = {}
  BY DEF StopsAt
<1>2. Plain(<<>>, 0) = <<>>
  BY DEF Plain
<1>. QED
  BY <1>1, <1>2, ClusterNone

\* The first letter is the last of the word, as it is none, or its argument follows.
LEMMA ClusterStop ==
    ASSUME NEW C, NEW word \in Seq(C), word # <<>>, NEW takes
    PROVE  /\ word[1] \notin DOMAIN takes =>
                Cluster(word, takes) = [opts |-> <<Opt("?", NoWord)>>, more |-> FALSE]
           /\ word[1] \in DOMAIN takes /\ takes[word[1]] =>
                Cluster(word, takes) = [opts |-> <<Opt(word[1], Tail(word))>>, more |-> Tail(word) = <<>>]
<1>1. DOMAIN word \subseteq Int /\ Len(word) > 0 /\ 1 \in DOMAIN word /\ \A j \in DOMAIN word : 1 <= j
  OBVIOUS
<1>2. SubSeq(word, 2, Len(word)) = Tail(word)
  BY TailIsSubSeq
<1>3. Plain(word, 0) = <<>>
  BY DEF Plain
<1>4. \A o : Append(<<>>, o) = <<o>>
  OBVIOUS
<1>5. SUFFICES ASSUME word[1] \notin DOMAIN takes \/ takes[word[1]]
               PROVE  Cluster(word, takes) =
             IF word[1] \notin DOMAIN takes
             THEN [opts |-> <<Opt("?", NoWord)>>, more |-> FALSE]
             ELSE [opts |-> <<Opt(word[1], Tail(word))>>, more |-> Tail(word) = <<>>]
  OBVIOUS
<1>6. IsFirst(StopsAt(word, takes), 1)
  BY <1>1, <1>5 DEF IsFirst, StopsAt
<1>7. 1 - 1 = 0 /\ 1 + 1 = 2
  OBVIOUS
<1>. DEFINE q == Opt("?", NoWord)
            p == Opt(word[1], SubSeq(word, 1 + 1, Len(word)))
<1>8. Cluster(word, takes) =
        IF word[1] \notin DOMAIN takes
        THEN [opts |-> Append(Plain(word, 1 - 1), q), more |-> FALSE]
        ELSE [opts |-> Append(Plain(word, 1 - 1), p), more |-> SubSeq(word, 1 + 1, Len(word)) = <<>>]
  BY <1>1, <1>6, ClusterAt
<1>9. p = Opt(word[1], Tail(word))
  BY <1>2, <1>7
<1>. HIDE DEF p, q
<1>10. Append(Plain(word, 1 - 1), q) = <<q>> /\ Append(Plain(word, 1 - 1), p) = <<p>>
  BY <1>3, <1>4, <1>7
<1>. QED
  BY <1>2, <1>7, <1>8, <1>9, <1>10 DEF q

\* It is an option without an argument, and the rest goes on.
LEMMA ClusterGoesOn ==
    ASSUME NEW C, NEW word \in Seq(C), word # <<>>, NEW takes,
           word[1] \in DOMAIN takes, ~takes[word[1]]
    PROVE  Cluster(word, takes) =
             [opts |-> <<Opt(word[1], NoWord)>> \o Cluster(Tail(word), takes).opts,
              more |-> Cluster(Tail(word), takes).more]
<1>. DEFINE t == Tail(word)
            S == StopsAt(word, takes)
            T == StopsAt(t, takes)
            o == Opt(word[1], NoWord)
<1>1. /\ t \in Seq(C) /\ Len(word) \in Nat /\ Len(word) > 0 /\ Len(t) = Len(word) - 1
      /\ DOMAIN word = 1 .. Len(word) /\ DOMAIN t = 1 .. Len(word) - 1
      /\ \A i \in 1 .. Len(word) - 1 : t[i] = word[i + 1]
  OBVIOUS
<1>. HIDE DEF t
<1>2. \A i \in 1 .. Len(word) - 1 : i \in T <=> i + 1 \in S
  BY <1>1 DEF StopsAt
<1>3. 1 \notin S /\ S \subseteq 1 .. Len(word) /\ T \subseteq 1 .. Len(word) - 1
  BY <1>1 DEF StopsAt
<1>4. ASSUME NEW n \in 0 .. Len(word) - 1
      PROVE  /\ Plain(word, n + 1) = <<o>> \o Plain(t, n)
             /\ \A p : Append(Plain(word, n + 1), p) = <<o>> \o Append(Plain(t, n), p)
  <2>. DEFINE a == Plain(word, n + 1)
              b == Plain(t, n)
  <2>1. a = [i \in 1 .. n + 1 |-> a[i]] /\ b = [i \in 1 .. n |-> b[i]]
    BY DEF Plain
  <2>2. /\ n \in Nat /\ a[1] = o /\ \A i \in 1 .. n : a[i + 1] = b[i]
    <3>1. a[1] = o
      BY <1>1 DEF Plain
    <3>2. \A i \in 1 .. n : i \in 1 .. Len(word) - 1 /\ i + 1 \in 1 .. n + 1
      BY <1>1
    <3>3. \A i \in 1 .. n : a[i + 1] = Opt(word[i + 1], NoWord) /\ b[i] = Opt(t[i], NoWord)
      BY <3>2 DEF Plain
    <3>. QED
      BY <1>1, <3>1, <3>2, <3>3
  <2>. HIDE DEF a, b, o
  <2>. DEFINE V == {a[i] : i \in 1 .. n + 1} \cup {b[i] : i \in 1 .. n} \cup {o}
  <2>3. a \in Seq(V) /\ Len(a) = n + 1 /\ b \in Seq(V) /\ Len(b) = n /\ o \in V
    BY SMTT(60), <2>1, <2>2
  <2>. HIDE DEF V
  <2>4. a = <<o>> \o b
    BY <2>2, <2>3
  <2>5. \A p : Append(a, p) = <<o>> \o Append(b, p)
    <3>. SUFFICES ASSUME NEW p PROVE Append(a, p) = <<o>> \o Append(b, p)
      OBVIOUS
    <3>. DEFINE W == V \cup {p}
    <3>1. a \in Seq(W) /\ b \in Seq(W) /\ o \in W /\ p \in W
      BY <2>3
    <3>. HIDE DEF W
    <3>2. <<o>> \in Seq(W) /\ <<p>> \in Seq(W)
      BY <3>1
    <3>. QED
      BY <2>4, <3>1, <3>2, ConcatAssociative, AppendIsConcat
  <2>. QED
    BY <2>4, <2>5 DEF a, b
<1>5. CASE T = {}
  <2>1. S = {}
    <3>1. \A i \in S : i - 1 \in 1 .. Len(word) - 1 /\ (i - 1) + 1 = i
      BY <1>1, <1>3
    <3>. QED
      BY <1>2, <1>5, <3>1
  <2>2. Cluster(word, takes) = [opts |-> Plain(word, Len(word)), more |-> FALSE]
    BY <2>1, ClusterNone
  <2>3. Cluster(t, takes) = [opts |-> Plain(t, Len(t)), more |-> FALSE]
    BY <1>5, ClusterNone
  <2>4. Len(t) \in 0 .. Len(word) - 1 /\ Len(t) + 1 = Len(word)
    BY <1>1
  <2>5. Plain(word, Len(word)) = <<o>> \o Plain(t, Len(t))
    BY <1>4, <2>4
  <2>. DEFINE x == Plain(t, Len(t))
  <2>. HIDE DEF o, x
  <2>6. Cluster(t, takes).opts = x /\ Cluster(t, takes).more = FALSE
    BY <2>3 DEF x
  <2>7. Cluster(word, takes) = [opts |-> <<o>> \o x, more |-> FALSE]
    BY <2>2, <2>5 DEF x
  <2>. QED
    BY <2>6, <2>7 DEF o, t
<1>6. CASE T # {}
  <2>1. PICK m \in 1 .. Len(t) : IsFirst(T, m)
    BY <1>1, <1>6, FirstOf
  <2>2. m \in Int /\ m + 1 \in 1 .. Len(word) /\ m - 1 \in 0 .. Len(word) - 1 /\ (m - 1) + 1 = m
        /\ (m + 1) - 1 = m
    BY <1>1
  <2>3. IsFirst(S, m + 1)
    <3>1. m + 1 \in S
      BY <1>1, <1>2, <2>1 DEF IsFirst
    <3>2. ASSUME NEW j \in S PROVE m + 1 <= j
      <4>1. j - 1 \in 1 .. Len(word) - 1 /\ (j - 1) + 1 = j /\ j \in Int
        BY <1>1, <1>3
      <4>2. j - 1 \in T
        BY <1>2, <4>1
      <4>3. m <= j - 1
        BY <2>1, <4>2 DEF IsFirst
      <4>. QED
        BY <2>2, <4>1, <4>3
    <3>. QED
      BY <3>1, <3>2 DEF IsFirst
  <2>4. t[m] = word[m + 1]
    BY <1>1
  <2>5. SubSeq(t, m + 1, Len(t)) = SubSeq(word, (m + 1) + 1, Len(word))
    <3>. DEFINE a == SubSeq(t, m + 1, Len(t))
                b == SubSeq(word, (m + 1) + 1, Len(word))
    <3>1. a \in Seq(C) /\ b \in Seq(C)
      BY <1>1, <2>2
    <3>2. Len(a) = Len(b) /\ \A i \in 1 .. Len(a) : a[i] = b[i]
      BY <1>1, <2>2
    <3>. QED
      BY <3>1, <3>2, SeqEqual
  <2>6. /\ Plain(word, (m + 1) - 1) = <<o>> \o Plain(t, m - 1)
        /\ \A p : Append(Plain(word, (m + 1) - 1), p) = <<o>> \o Append(Plain(t, m - 1), p)
    BY <1>4, <2>2
  <2>7. DOMAIN word \subseteq Int /\ DOMAIN t \subseteq Int
    BY <1>1
  <2>8. CASE t[m] \notin DOMAIN takes
    <3>1. Cluster(t, takes) = [opts |-> Append(Plain(t, m - 1), Opt("?", NoWord)), more |-> FALSE]
      BY <2>1, <2>7, <2>8, ClusterAt
    <3>2. Cluster(word, takes) =
            [opts |-> Append(Plain(word, (m + 1) - 1), Opt("?", NoWord)), more |-> FALSE]
      BY SMTT(60), <2>3, <2>4, <2>7, <2>8, ClusterAt
    <3>. DEFINE q == Opt("?", NoWord)
                x == Append(Plain(t, m - 1), q)
    <3>3. Append(Plain(word, (m + 1) - 1), q) = <<o>> \o x
      BY <2>6
    <3>. HIDE DEF q, x, o
    <3>4. Cluster(t, takes).opts = x /\ ~Cluster(t, takes).more
      BY <3>1 DEF q, x
    <3>5. Cluster(word, takes) = [opts |-> <<o>> \o x, more |-> FALSE]
      BY <3>2, <3>3 DEF q
    <3>6. Cluster(t, takes).more = FALSE
      BY <3>1
    <3>. QED
      BY <3>4, <3>5, <3>6 DEF o, t
  <2>9. CASE t[m] \in DOMAIN takes
    <3>. DEFINE a == SubSeq(t, m + 1, Len(t))
    <3>1. Cluster(t, takes) = [opts |-> Append(Plain(t, m - 1), Opt(t[m], a)), more |-> a = <<>>]
      BY <2>1, <2>7, <2>9, ClusterAt
    <3>2. Cluster(word, takes) =
            [opts |-> Append(Plain(word, (m + 1) - 1), Opt(t[m], a)), more |-> a = <<>>]
      <4>. DEFINE b == SubSeq(word, (m + 1) + 1, Len(word))
      <4>1. word[m + 1] \in DOMAIN takes
        BY <2>4, <2>9
      <4>2. Cluster(word, takes) =
              [opts |-> Append(Plain(word, (m + 1) - 1), Opt(word[m + 1], b)), more |-> b = <<>>]
        BY <2>3, <2>7, <4>1, ClusterAt
      <4>3. a = b
        BY <2>5
      <4>. HIDE DEF a, b
      <4>. QED
        BY <2>4, <4>2, <4>3
    <3>. DEFINE q == Opt(t[m], a)
                x == Append(Plain(t, m - 1), q)
                more == a = <<>>
    <3>3. Append(Plain(word, (m + 1) - 1), q) = <<o>> \o x
      BY <2>6
    <3>. HIDE DEF q, x, o, more
    <3>4. Cluster(t, takes).opts = x /\ Cluster(t, takes).more = more
      BY <3>1 DEF q, x, more
    <3>5. Cluster(word, takes) = [opts |-> <<o>> \o x, more |-> more]
      BY <3>2, <3>3 DEF q, more
    <3>. QED
      BY <3>4, <3>5 DEF o, t
  <2>. QED
    BY <2>8, <2>9
<1>. QED
  BY <1>5, <1>6

\* The options in a word; when more is to come there is one that waits for it.
LEMMA ClusterType ==
    ASSUME NEW C, NEW word \in Seq(C), NEW takes
    PROVE  LET k == Cluster(word, takes)
           IN k.opts \in Seq(OptOf(C)) /\ k.more \in BOOLEAN /\ (k.more => Len(k.opts) > 0)
<1>. DEFINE k == Cluster(word, takes)
            P == OptOf(C)
<1>1. Len(word) \in Nat /\ DOMAIN word = 1 .. Len(word) /\ \A i \in 1 .. Len(word) : word[i] \in C
  OBVIOUS
<1>2. \A c \in C : Opt(c, NoWord) \in P /\ \A a \in Seq(C) : Opt(c, a) \in P
  BY DEF OptOf, Opt
<1>3. Opt("?", NoWord) \in P
  BY DEF OptOf, Opt
<1>. HIDE DEF P
<1>4. \A n \in 0 .. Len(word) : Plain(word, n) \in Seq(P)
  <2>. SUFFICES ASSUME NEW n \in 0 .. Len(word) PROVE Plain(word, n) \in Seq(P)
    OBVIOUS
  <2>1. n \in Nat /\ \A i \in 1 .. n : Opt(word[i], NoWord) \in P
    BY <1>1, <1>2
  <2>. QED
    BY <2>1 DEF Plain
<1>5. CASE StopsAt(word, takes) = {}
  <2>1. k = [opts |-> Plain(word, Len(word)), more |-> FALSE]
    BY <1>5, ClusterNone
  <2>. HIDE DEF k
  <2>2. k.opts = Plain(word, Len(word)) /\ k.more = FALSE
    BY <2>1
  <2>3. Plain(word, Len(word)) \in Seq(P)
    BY <1>1, <1>4
  <2>. QED
    BY <2>2, <2>3 DEF k, P
<1>6. CASE StopsAt(word, takes) # {}
  <2>1. PICK m \in 1 .. Len(word) : IsFirst(StopsAt(word, takes), m)
    BY <1>6, FirstOf
  <2>2. m - 1 \in 0 .. Len(word) /\ DOMAIN word \subseteq Int
    BY <1>1
  <2>. DEFINE a == SubSeq(word, m + 1, Len(word))
              p == Plain(word, m - 1)
  <2>3. k = IF word[m] \notin DOMAIN takes
            THEN [opts |-> Append(p, Opt("?", NoWord)), more |-> FALSE]
            ELSE [opts |-> Append(p, Opt(word[m], a)), more |-> a = <<>>]
    BY <2>1, <2>2, ClusterAt
  <2>4. p \in Seq(P)
    BY <1>4, <2>2
  <2>5. a \in Seq(C)
    BY <1>1
  <2>6. \A o \in P : Append(p, o) \in Seq(P) /\ Len(Append(p, o)) > 0
    <3>. HIDE DEF p
    <3>. QED
      BY <2>4
  <2>7. Opt(word[m], a) \in P
    BY <1>1, <1>2, <2>5
  <2>. DEFINE q == Opt("?", NoWord)
              r == Opt(word[m], a)
              more == a = <<>>
  <2>8. k.opts \in {Append(p, q), Append(p, r)} /\ k.more \in {FALSE, more}
    <3>. HIDE DEF p, q, r, more, k
    <3>. QED
      BY <2>3 DEF q, r, more
  <2>9. more \in BOOLEAN
    OBVIOUS
  <2>. HIDE DEF p, q, r, more, k
  <2>. QED
    BY <1>3, <2>6, <2>7, <2>8, <2>9 DEF q, r, k, P
<1>. QED
  BY <1>5, <1>6

IsOption(w) == Len(w) > 1 /\ w[1] = "-"

\* What is left of a command line, f being what is left from each later word: when word is
\* what is left of word i...
InWord(words, takes, f, word, i) ==
    LET k == Cluster(word, takes)
    IN IF ~k.more THEN [f[i + 1] EXCEPT !.opts = k.opts \o @]
       ELSE IF i = Len(words)
       THEN [opts |-> [k.opts EXCEPT ![Len(k.opts)] = Opt("?", NoWord)], operands |-> <<>>]
       ELSE [f[i + 2] EXCEPT !.opts = [k.opts EXCEPT ![Len(k.opts)].arg = words[i + 1]] \o @]

\* ...or the whole of word i.
Left(words, takes, f, i) ==
    IF i > Len(words) \/ ~IsOption(words[i])
    THEN [opts |-> <<>>, operands |-> SubSeq(words, i, Len(words))]
    ELSE IF words[i] = <<"-", "-">>
    THEN [opts |-> <<>>, operands |-> SubSeq(words, i + 1, Len(words))]
    ELSE InWord(words, takes, f, Tail(words[i]), i)

\* The last option of some may get its argument, or turn out to have none.
LEMMA LastSet ==
    ASSUME NEW C, NEW s \in Seq(OptOf(C)), Len(s) > 0
    PROVE  /\ [s EXCEPT ![Len(s)] = Opt("?", NoWord)] \in Seq(OptOf(C))
           /\ \A a \in Seq(C) : [s EXCEPT ![Len(s)].arg = a] \in Seq(OptOf(C))
<1>1. Opt("?", NoWord) \in OptOf(C)
  BY DEF OptOf, Opt
<1>2. Len(s) \in Nat /\ Len(s) \in 1 .. Len(s) /\ s[Len(s)] \in OptOf(C)
  OBVIOUS
<1>3. ASSUME NEW a \in Seq(C) PROVE [s[Len(s)] EXCEPT !.arg = a] \in OptOf(C)
  BY <1>2 DEF OptOf
<1>4. ASSUME NEW a PROVE [s EXCEPT ![Len(s)].arg = a] = [s EXCEPT ![Len(s)] = [s[Len(s)] EXCEPT !.arg = a]]
  OBVIOUS
<1>5. \A o \in OptOf(C) : [s EXCEPT ![Len(s)] = o] \in Seq(OptOf(C))
  BY <1>2, ExceptSeq
<1>. QED
  BY <1>1, <1>3, <1>4, <1>5

\* Options before what is left.
LEMMA MeaningAdd ==
    ASSUME NEW C, NEW r \in MeaningOf(C), NEW s \in Seq(OptOf(C))
    PROVE  /\ [r EXCEPT !.opts = s \o @] = [opts |-> s \o r.opts, operands |-> r.operands]
           /\ [r EXCEPT !.opts = s \o @] \in MeaningOf(C)
<1>1. r.opts \in Seq(OptOf(C)) /\ r = [opts |-> r.opts, operands |-> r.operands]
      /\ r.operands \in Seq(Seq(C))
  BY DEF MeaningOf
<1>2. s \o r.opts \in Seq(OptOf(C))
  BY <1>1
<1>3. [r EXCEPT !.opts = s \o @] = [opts |-> s \o r.opts, operands |-> r.operands]
  <2>1. PICK x, y : x = r.opts /\ y = r.operands
    OBVIOUS
  <2>2. PICK z : z = s \o x
    OBVIOUS
  <2>3. [r EXCEPT !.opts = s \o @] = [r EXCEPT !.opts = z]
    BY <2>1, <2>2
  <2>4. r = [opts |-> x, operands |-> y]
    BY <1>1, <2>1
  <2>5. [r EXCEPT !.opts = z] = [opts |-> z, operands |-> y]
    BY <2>4
  <2>. QED
    BY <2>1, <2>2, <2>3, <2>5
<1>. QED
  BY <1>1, <1>2, <1>3 DEF MeaningOf

\* What follows word i is known.
Follows(C, words, f, i) ==
    f[i + 1] \in MeaningOf(C) /\ (i < Len(words) => f[i + 2] \in MeaningOf(C))

\* What is left in a word, and what is left at a word, are options and operands.
LEMMA InWordType ==
    ASSUME NEW C, NEW words \in Seq(Seq(C)), NEW takes, NEW f, NEW i \in 1 .. Len(words),
           Follows(C, words, f, i), NEW word \in Seq(C)
    PROVE  InWord(words, takes, f, word, i) \in MeaningOf(C)
<1>. DEFINE k == Cluster(word, takes)
<1>1. k.opts \in Seq(OptOf(C)) /\ k.more \in BOOLEAN /\ (k.more => Len(k.opts) > 0)
  BY ClusterType
<1>. HIDE DEF k
<1>2. InWord(words, takes, f, word, i) =
        IF ~k.more THEN [f[i + 1] EXCEPT !.opts = k.opts \o @]
        ELSE IF i = Len(words)
        THEN [opts |-> [k.opts EXCEPT ![Len(k.opts)] = Opt("?", NoWord)], operands |-> <<>>]
        ELSE [f[i + 2] EXCEPT !.opts = [k.opts EXCEPT ![Len(k.opts)].arg = words[i + 1]] \o @]
  BY DEF InWord, k
<1>3. CASE ~k.more
  <2>1. [f[i + 1] EXCEPT !.opts = k.opts \o @] \in MeaningOf(C)
    BY <1>1, MeaningAdd DEF Follows
  <2>. QED
    BY <1>2, <1>3, <2>1
<1>4. CASE k.more /\ i = Len(words)
  <2>1. [k.opts EXCEPT ![Len(k.opts)] = Opt("?", NoWord)] \in Seq(OptOf(C))
    BY <1>1, <1>4, LastSet
  <2>2. \A s \in Seq(OptOf(C)) : [opts |-> s, operands |-> <<>>] \in MeaningOf(C)
    BY DEF MeaningOf
  <2>. QED
    BY <1>2, <1>4, <2>1, <2>2
<1>5. CASE k.more /\ i < Len(words)
  <2>1. words[i + 1] \in Seq(C)
    BY <1>5
  <2>2. [k.opts EXCEPT ![Len(k.opts)].arg = words[i + 1]] \in Seq(OptOf(C))
    BY <1>1, <1>5, <2>1, LastSet
  <2>3. f[i + 2] \in MeaningOf(C)
    BY <1>5 DEF Follows
  <2>4. [f[i + 2] EXCEPT !.opts = [k.opts EXCEPT ![Len(k.opts)].arg = words[i + 1]] \o @]
          \in MeaningOf(C)
    BY <2>2, <2>3, MeaningAdd
  <2>. QED
    BY <1>2, <1>5, <2>4
<1>. QED
  BY <1>1, <1>3, <1>4, <1>5

LEMMA LeftType ==
    ASSUME NEW C, NEW words \in Seq(Seq(C)), NEW takes, NEW f, NEW i \in 1 .. Len(words) + 1,
           i <= Len(words) => Follows(C, words, f, i)
    PROVE  Left(words, takes, f, i) \in MeaningOf(C)
<1>1. \A j \in 1 .. Len(words) + 2 : SubSeq(words, j, Len(words)) \in Seq(Seq(C))
  OBVIOUS
<1>2. i \in 1 .. Len(words) + 2 /\ i + 1 \in 1 .. Len(words) + 2
  OBVIOUS
<1>3. \A s \in Seq(Seq(C)) : [opts |-> <<>>, operands |-> s] \in MeaningOf(C)
  BY DEF MeaningOf
<1>4. CASE i > Len(words) \/ ~IsOption(words[i])
  BY <1>1, <1>2, <1>3, <1>4 DEF Left
<1>5. CASE i <= Len(words) /\ IsOption(words[i]) /\ words[i] = <<"-", "-">>
  BY <1>1, <1>2, <1>3, <1>5 DEF Left
<1>6. CASE i <= Len(words) /\ IsOption(words[i]) /\ words[i] # <<"-", "-">>
  <2>1. words[i] \in Seq(C) /\ i \in 1 .. Len(words) /\ Follows(C, words, f, i) /\ ~(i > Len(words))
    BY <1>6
  <2>2. Tail(words[i]) \in Seq(C)
    BY <1>6, <2>1 DEF IsOption
  <2>3. InWord(words, takes, f, Tail(words[i]), i) \in MeaningOf(C)
    BY <2>1, <2>2, InWordType
  <2>. QED
    BY <1>6, <2>1, <2>3 DEF Left
<1>. QED
  BY <1>4, <1>5, <1>6

\* What is left depends on later words only.
LEMMA LeftSame ==
    ASSUME NEW C, NEW words \in Seq(Seq(C)), NEW takes, NEW i \in 1 .. Len(words) + 1, NEW f, NEW h,
           i <= Len(words) => f[i + 1] = h[i + 1],
           i < Len(words) => f[i + 2] = h[i + 2]
    PROVE  Left(words, takes, f, i) = Left(words, takes, h, i)
<1>1. Len(words) \in Nat
  OBVIOUS
<1>2. ASSUME i <= Len(words), NEW word
      PROVE  InWord(words, takes, f, word, i) = InWord(words, takes, h, word, i)
  <2>1. PICK k : k = Cluster(word, takes)
    OBVIOUS
  <2>2. f[i + 1] = h[i + 1] /\ (i # Len(words) => f[i + 2] = h[i + 2])
    BY <1>1, <1>2
  <2>3. \A e : InWord(words, takes, e, word, i) =
          IF ~k.more THEN [e[i + 1] EXCEPT !.opts = k.opts \o @]
          ELSE IF i = Len(words)
          THEN [opts |-> [k.opts EXCEPT ![Len(k.opts)] = Opt("?", NoWord)], operands |-> <<>>]
          ELSE [e[i + 2] EXCEPT !.opts = [k.opts EXCEPT ![Len(k.opts)].arg = words[i + 1]] \o @]
    BY <2>1 DEF InWord
  <2>. QED
    BY <2>2, <2>3
<1>. QED
  BY <1>1, <1>2 DEF Left

\* The recursion of Meaning has a solution, from the last word to the first.
Solves(C, words, takes, f) ==
    /\ \A i \in 1 .. Len(words) + 1 : f[i] = Left(words, takes, f, i) /\ f[i] \in MeaningOf(C)

\* So the recursion has a solution...
LEMMA LeftSolved ==
    ASSUME NEW C, NEW words \in Seq(Seq(C)), NEW takes
    PROVE  \E f : f = [i \in 1 .. Len(words) + 1 |-> Left(words, takes, f, i)]
<1>. DEFINE n == Len(words) + 1
            From(k, f) == /\ f = [i \in k .. n |-> f[i]]
                          /\ \A i \in k .. n : f[i] = Left(words, takes, f, i)
            S == {k \in 1 .. n : \E f : From(k, f)}
<1>1. Len(words) \in Nat /\ n \in Nat /\ n >= 1
  OBVIOUS
<1>2. n \in S
  <2>. DEFINE v == Left(words, takes, <<>>, n)
              f == [i \in n .. n |-> v]
  <2>1. Left(words, takes, f, n) = v
    <3>. HIDE DEF f
    <3>. QED
      BY <1>1, LeftSame
  <2>2. \A i \in n .. n : i = n
    BY <1>1
  <2>. HIDE DEF v
  <2>3. f = [i \in n .. n |-> f[i]] /\ \A i \in n .. n : f[i] = v
    OBVIOUS
  <2>. HIDE DEF f, n
  <2>4. From(n, f)
    BY <2>1, <2>2, <2>3
  <2>. QED
    BY <1>1, <2>4
<1>3. ASSUME NEW k \in S, k > 1
      PROVE  k - 1 \in S
  <2>1. PICK f : From(k, f)
    BY <1>3
  <2>. DEFINE v == Left(words, takes, f, k - 1)
              h == [i \in k - 1 .. n |-> IF i = k - 1 THEN v ELSE f[i]]
  <2>2. k \in 1 .. n /\ k - 1 \in 1 .. n /\ k - 1 <= Len(words) /\ (k - 1) + 1 = k
    BY <1>1, <1>3
  <2>3. \A i \in k .. n : i \in k - 1 .. n /\ i # k - 1 /\ i \in 1 .. n /\ i \in Int
    BY <1>1, <2>2
  <2>4. h[k - 1] = v /\ \A i \in k .. n : h[i] = f[i]
    <3>. HIDE DEF v, n
    <3>1. k - 1 \in k - 1 .. n
      BY <1>1, <2>2
    <3>. QED
      BY <2>3, <3>1
  <2>5. \A i \in k - 1 .. n : i \in 1 .. n /\ (i = k - 1 \/ i \in k .. n)
    BY <1>1, <2>2
  <2>6. \A i \in k - 1 .. n : /\ i <= Len(words) => i + 1 \in k .. n
                              /\ i < Len(words) => i + 2 \in k .. n
    BY SMTT(60), <1>1, <2>2
  <2>. HIDE DEF h, v
  <2>7. ASSUME NEW i \in k - 1 .. n
        PROVE  Left(words, takes, h, i) = Left(words, takes, f, i)
    <3>1. i \in 1 .. Len(words) + 1
      BY <2>5
    <3>2. (i <= Len(words) => h[i + 1] = f[i + 1]) /\ (i < Len(words) => h[i + 2] = f[i + 2])
      BY <2>4, <2>6
    <3>. QED
      BY <3>1, <3>2, LeftSame
  <2>8. h = [i \in k - 1 .. n |-> h[i]]
    BY DEF h
  <2>9. \A i \in k - 1 .. n : h[i] = Left(words, takes, h, i)
    <3>. HIDE DEF n
    <3>. SUFFICES ASSUME NEW i \in k - 1 .. n PROVE h[i] = Left(words, takes, h, i)
      OBVIOUS
    <3>1. CASE i = k - 1
      BY <2>4, <2>7, <3>1 DEF v
    <3>2. CASE i \in k .. n
      BY <2>1, <2>4, <2>7, <3>2
    <3>. QED
      BY <2>5, <3>1, <3>2
  <2>. HIDE DEF n
  <2>10. From(k - 1, h)
    BY <2>8, <2>9
  <2>. HIDE DEF From
  <2>. QED
    BY <2>2, <2>10
<1>4. S \in SUBSET (1 .. n) /\ n \in Nat \ {0}
  BY <1>1
<1>. HIDE DEF S, n
<1>5. 1 \in S
  BY <1>2, <1>3, <1>4, DownTo
<1>6. PICK f : From(1, f)
  BY <1>5 DEF S
<1>7. f = [i \in 1 .. n |-> Left(words, takes, f, i)]
  BY <1>6
<1>. QED
  BY <1>7 DEF n

\* ...and the meaning of a command line is its value for the first word.
LEMMA MeaningSolved ==
    ASSUME NEW C, NEW words \in Seq(Seq(C)), NEW takes
    PROVE  \E f : Solves(C, words, takes, f) /\ Meaning(words, takes) = f[1]
<1>. DEFINE n == Len(words) + 1
            Is(f) == f = [i \in 1 .. n |-> Left(words, takes, f, i)]
            F == CHOOSE f : Is(f)
<1>1. Len(words) \in Nat /\ n \in Nat /\ n >= 1
  OBVIOUS
<1>2. Meaning(words, takes) = F[1]
  BY DEF Meaning, Left, InWord, IsOption
<1>3. PICK h : Is(h)
  BY LeftSolved
<1>4. Is(F)
  <2>. HIDE DEF Is
  <2>. QED
    BY <1>3
<1>. HIDE DEF F
<1>5. \A i \in 1 .. n : F[i] = Left(words, takes, F, i)
  <2>. HIDE DEF n
  <2>. QED
    BY <1>4
<1>. HIDE DEF Is
<1>. DEFINE Typed(k) == \A i \in k .. n : F[i] \in MeaningOf(C)
            S == {k \in 1 .. n + 1 : Typed(k)}
<1>6. n + 1 \in S
  BY <1>1
<1>7. ASSUME NEW k \in S, k > 1
      PROVE  k - 1 \in S
  <2>1. k \in Int /\ k - 1 \in 1 .. n /\ k - 1 \in 1 .. n + 1 /\ (k - 1) + 1 = k /\ (k - 1) + 2 = k + 1
        /\ (k - 1 <= Len(words) => k \in k .. n /\ k - 1 \in 1 .. Len(words))
        /\ (k - 1 < Len(words) => k + 1 \in k .. n)
        /\ \A i \in k - 1 .. n : i = k - 1 \/ i \in k .. n
    BY <1>1, <1>7
  <2>2. \A i \in k .. n : F[i] \in MeaningOf(C)
    BY <1>7
  <2>3. k - 1 <= Len(words) => Follows(C, words, F, k - 1)
    BY <2>1, <2>2 DEF Follows
  <2>4. Left(words, takes, F, k - 1) \in MeaningOf(C)
    BY <2>1, <2>3, LeftType
  <2>5. F[k - 1] \in MeaningOf(C)
    BY <1>5, <2>1, <2>4
  <2>6. Typed(k - 1)
    BY <2>1, <2>2, <2>5
  <2>. HIDE DEF Typed, n
  <2>. QED
    BY <2>1, <2>6
<1>8. S \in SUBSET (1 .. n + 1) /\ n + 1 \in Nat \ {0}
  BY <1>1
<1>9. 1 \in S
  <2>. HIDE DEF S, n
  <2>. QED
    BY <1>6, <1>7, <1>8, DownTo
<1>10. Typed(1)
  BY <1>9
<1>. QED
  BY <1>2, <1>5, <1>10 DEF Solves

\* A word that is used up leaves what follows.
LEMMA InWordEmpty ==
    ASSUME NEW C, NEW words, NEW takes, NEW f, NEW i, Follows(C, words, f, i)
    PROVE  InWord(words, takes, f, <<>>, i) = f[i + 1]
<1>1. PICK k : k = Cluster(<<>>, takes)
  OBVIOUS
<1>2. k.opts = <<>> /\ k.more = FALSE
  BY <1>1, ClusterEmpty
<1>3. InWord(words, takes, f, <<>>, i) = [f[i + 1] EXCEPT !.opts = k.opts \o @]
  BY <1>1, <1>2 DEF InWord
<1>4. <<>> \in Seq(OptOf(C)) /\ f[i + 1] \in MeaningOf(C)
  BY DEF Follows
<1>5. [f[i + 1] EXCEPT !.opts = <<>> \o @] = [opts |-> <<>> \o f[i + 1].opts, operands |-> f[i + 1].operands]
  BY <1>4, MeaningAdd
<1>6. /\ <<>> \o f[i + 1].opts = f[i + 1].opts
      /\ f[i + 1] = [opts |-> f[i + 1].opts, operands |-> f[i + 1].operands]
  BY <1>4 DEF MeaningOf
<1>. QED
  BY <1>2, <1>3, <1>5, <1>6

\* Sequences may be joined in either order.
LEMMA JoinedThree ==
    \A P : \A u, v, w \in Seq(P) : (u \o v) \o w = u \o (v \o w)
BY SMTT(60), ConcatAssociative

\* An option before the others.
Prefixed(o, m) == [opts |-> <<o>> \o m.opts, operands |-> m.operands]

\* Both sides have the same option first.
LEMMA OptionFirst ==
    ASSUME NEW a, NEW b, NEW x, NEW y, NEW z, NEW p, x = z \o y,
           a = [opts |-> x, operands |-> p], b = [opts |-> y, operands |-> p]
    PROVE  a = [opts |-> z \o b.opts, operands |-> b.operands]
<1>1. b.opts = y /\ b.operands = p
  OBVIOUS
<1>. QED
  BY <1>1

\* The first letter of what is left of a word has no argument.
LEMMA InWordGoesOn ==
    ASSUME NEW C, NEW words \in Seq(Seq(C)), NEW takes, NEW f, NEW i \in 1 .. Len(words),
           Follows(C, words, f, i), NEW word \in Seq(C), word # <<>>,
           word[1] \in DOMAIN takes, ~takes[word[1]]
    PROVE  InWord(words, takes, f, word, i) =
             Prefixed(Opt(word[1], NoWord), InWord(words, takes, f, Tail(word), i))
<1>. USE DEF Prefixed
<1>. DEFINE P == OptOf(C)
            o == Opt(word[1], NoWord)
            t == Tail(word)
<1>1. PICK k : k = Cluster(t, takes)
  OBVIOUS
<1>2. t \in Seq(C) /\ o \in P
  <2>1. word[1] \in C
    OBVIOUS
  <2>. QED
    BY <2>1 DEF OptOf, Opt
<1>3. k.opts \in Seq(P) /\ k.more \in BOOLEAN /\ (k.more => Len(k.opts) > 0)
  BY <1>1, <1>2, ClusterType
<1>. HIDE DEF P, o, t
<1>4. \A u, v, w \in Seq(P) : (u \o v) \o w = u \o (v \o w)
  BY SMTT(60), JoinedThree
<1>. DEFINE s == <<o>> \o k.opts
<1>5. /\ s \in Seq(P) /\ Len(s) = Len(k.opts) + 1 /\ Len(k.opts) \in Nat
      /\ s[1] = o /\ \A j \in 1 .. Len(k.opts) : s[j + 1] = k.opts[j]
  BY <1>2, <1>3
<1>6. Cluster(word, takes) = [opts |-> s, more |-> k.more]
  BY <1>1, ClusterGoesOn DEF o, t
<1>7. PICK q : q = Cluster(word, takes)
  OBVIOUS
<1>8. q.opts = s /\ q.more = k.more
  BY SMTT(60), <1>6, <1>7
<1>. HIDE DEF s
<1>9. \A m \in P : [s EXCEPT ![Len(s)] = m] = <<o>> \o [k.opts EXCEPT ![Len(k.opts)] = m] \/ ~k.more
  <2>. SUFFICES ASSUME NEW m \in P, k.more
                PROVE  [s EXCEPT ![Len(s)] = m] = <<o>> \o [k.opts EXCEPT ![Len(k.opts)] = m]
    OBVIOUS
  <2>. DEFINE x == [s EXCEPT ![Len(s)] = m]
              y == [k.opts EXCEPT ![Len(k.opts)] = m]
              z == <<o>> \o y
  <2>1. /\ x \in Seq(P) /\ Len(x) = Len(s)
        /\ \A j \in 1 .. Len(s) : x[j] = IF j = Len(s) THEN m ELSE s[j]
    <3>1. Len(s) \in 1 .. Len(s)
      BY <1>5
    <3>. QED
      BY SMTT(60), <1>5, <3>1, ExceptSeq
  <2>2. /\ y \in Seq(P) /\ Len(y) = Len(k.opts)
        /\ \A j \in 1 .. Len(k.opts) : y[j] = IF j = Len(k.opts) THEN m ELSE k.opts[j]
    <3>1. Len(k.opts) \in 1 .. Len(k.opts)
      BY <1>3, <1>5
    <3>. QED
      BY <1>3, <3>1, ExceptSeq
  <2>. HIDE DEF x, y
  <2>3. /\ z \in Seq(P) /\ Len(z) = Len(y) + 1 /\ z[1] = o
        /\ \A j \in 1 .. Len(y) : z[j + 1] = y[j]
    BY <1>2, <2>2
  <2>. HIDE DEF z
  <2>4. ASSUME NEW j \in 1 .. Len(s) PROVE x[j] = z[j]
    <3>1. CASE j = 1
      <4>1. j # Len(s)
        BY <1>3, <1>5, <3>1
      <4>. QED
        BY <1>5, <2>1, <2>3, <3>1, <4>1
    <3>2. CASE j > 1
      <4>1. j - 1 \in 1 .. Len(k.opts) /\ (j - 1) + 1 = j /\ (j = Len(s) <=> j - 1 = Len(k.opts))
        BY <1>5, <3>2
      <4>2. z[j] = y[j - 1] /\ s[j] = k.opts[j - 1]
        BY <1>5, <2>2, <2>3, <4>1
      <4>. QED
        BY <2>1, <2>2, <4>1, <4>2
    <3>. QED
      BY <1>5, <3>1, <3>2
  <2>5. x = z
    BY SMTT(60), <1>5, <2>1, <2>2, <2>3, <2>4, SeqEqual
  <2>. QED
    BY <2>5 DEF x, y, z
<1>10. Opt("?", NoWord) \in P
  BY DEF OptOf, Opt, P
<1>11. ASSUME NEW a \in Seq(C), k.more
       PROVE  [s EXCEPT ![Len(s)].arg = a] = <<o>> \o [k.opts EXCEPT ![Len(k.opts)].arg = a]
  <2>1. s[Len(s)] = k.opts[Len(k.opts)] /\ k.opts[Len(k.opts)] \in P
    <3>1. Len(k.opts) \in 1 .. Len(k.opts)
      BY <1>3, <1>5, <1>11
    <3>2. s[Len(k.opts) + 1] = k.opts[Len(k.opts)]
      BY <1>5, <3>1
    <3>3. k.opts[Len(k.opts)] \in P
      BY <1>3, <3>1
    <3>. QED
      BY <1>5, <3>2, <3>3
  <2>2. PICK m : m = [k.opts[Len(k.opts)] EXCEPT !.arg = a]
    OBVIOUS
  <2>3. m \in P
    BY <2>1, <2>2 DEF OptOf, P
  <2>4. /\ [s EXCEPT ![Len(s)].arg = a] = [s EXCEPT ![Len(s)] = m]
        /\ [k.opts EXCEPT ![Len(k.opts)].arg = a] = [k.opts EXCEPT ![Len(k.opts)] = m]
    BY <2>1, <2>2
  <2>. QED
    BY <1>9, <1>11, <2>3, <2>4
<1>. DEFINE a == InWord(words, takes, f, word, i)
            b == InWord(words, takes, f, t, i)
<1>12. CASE ~k.more
  <2>1. PICK r : r = f[i + 1]
    OBVIOUS
  <2>2. a = [r EXCEPT !.opts = s \o @] /\ b = [r EXCEPT !.opts = k.opts \o @]
    BY <1>1, <1>7, <1>8, <1>12, <2>1 DEF InWord
  <2>3. r \in MeaningOf(C)
    BY <2>1 DEF Follows
  <2>4. /\ a = [opts |-> s \o r.opts, operands |-> r.operands]
        /\ b = [opts |-> k.opts \o r.opts, operands |-> r.operands]
    BY ZenonT(60), <1>3, <1>5, <2>2, <2>3, MeaningAdd DEF P
  <2>5. s \o r.opts = <<o>> \o (k.opts \o r.opts)
    <3>1. r.opts \in Seq(P) /\ <<o>> \in Seq(P)
      BY <1>2, <2>3 DEF MeaningOf, P
    <3>2. s = <<o>> \o k.opts
      BY DEF s
    <3>. QED
      BY <1>3, <1>4, <3>1, <3>2
  <2>. HIDE DEF a, b
  <2>6. a = [opts |-> <<o>> \o b.opts, operands |-> b.operands]
    BY <2>4, <2>5, OptionFirst
  <2>. QED
    BY <2>6 DEF a, b, t, o
<1>13. CASE k.more /\ i = Len(words)
  <2>1. /\ a = [opts |-> [s EXCEPT ![Len(s)] = Opt("?", NoWord)], operands |-> <<>>]
        /\ b = [opts |-> [k.opts EXCEPT ![Len(k.opts)] = Opt("?", NoWord)], operands |-> <<>>]
    BY <1>1, <1>7, <1>8, <1>13 DEF InWord
  <2>2. PICK x, y : /\ x = [s EXCEPT ![Len(s)] = Opt("?", NoWord)]
                    /\ y = [k.opts EXCEPT ![Len(k.opts)] = Opt("?", NoWord)]
    OBVIOUS
  <2>3. x = <<o>> \o y
    BY <1>9, <1>10, <1>13, <2>2
  <2>. HIDE DEF a, b
  <2>4. a = [opts |-> <<o>> \o b.opts, operands |-> b.operands]
    BY <2>1, <2>2, <2>3, OptionFirst
  <2>. QED
    BY <2>4 DEF a, b, t, o
<1>14. CASE k.more /\ i < Len(words)
  <2>1. PICK r, m : r = f[i + 2] /\ m = words[i + 1]
    OBVIOUS
  <2>2. r \in MeaningOf(C) /\ m \in Seq(C) /\ i # Len(words)
    BY <1>14, <2>1 DEF Follows
  <2>3. PICK x, y : x = [s EXCEPT ![Len(s)].arg = m] /\ y = [k.opts EXCEPT ![Len(k.opts)].arg = m]
    OBVIOUS
  <2>4. a = [r EXCEPT !.opts = x \o @] /\ b = [r EXCEPT !.opts = y \o @]
    BY <1>1, <1>7, <1>8, <1>14, <2>1, <2>2, <2>3 DEF InWord
  <2>5. x = <<o>> \o y
    BY <1>11, <1>14, <2>2, <2>3
  <2>6. x \in Seq(P) /\ y \in Seq(P)
    <3>1. Len(s) > 0 /\ Len(k.opts) > 0
      BY <1>3, <1>5, <1>14
    <3>. QED
      BY <1>3, <1>5, <2>2, <2>3, <3>1, LastSet DEF P
  <2>7. /\ a = [opts |-> x \o r.opts, operands |-> r.operands]
        /\ b = [opts |-> y \o r.opts, operands |-> r.operands]
    BY <2>2, <2>4, <2>6, MeaningAdd DEF P
  <2>8. x \o r.opts = <<o>> \o (y \o r.opts)
    <3>1. r.opts \in Seq(P) /\ <<o>> \in Seq(P)
      BY <1>2, <2>2 DEF MeaningOf, P
    <3>. QED
      BY ZenonT(60), <1>4, <2>5, <2>6, <3>1
  <2>. HIDE DEF a, b
  <2>9. a = [opts |-> <<o>> \o b.opts, operands |-> b.operands]
    BY <2>7, <2>8, OptionFirst
  <2>. QED
    BY <2>9 DEF a, b, t, o
<1>. QED
  BY <1>3, <1>12, <1>13, <1>14

\* It has one, the rest of the word...
LEMMA InWordArgument ==
    ASSUME NEW C, NEW words \in Seq(Seq(C)), NEW takes, NEW f, NEW i \in 1 .. Len(words),
           Follows(C, words, f, i), NEW word \in Seq(C), word # <<>>,
           word[1] \in DOMAIN takes, takes[word[1]], Tail(word) # <<>>
    PROVE  InWord(words, takes, f, word, i) = Prefixed(Opt(word[1], Tail(word)), f[i + 1])
<1>. DEFINE o == Opt(word[1], Tail(word))
<1>. USE DEF Prefixed
<1>1. PICK k : k = Cluster(word, takes)
  OBVIOUS
<1>2. k = [opts |-> <<o>>, more |-> Tail(word) = <<>>]
  BY <1>1, ClusterStop
<1>3. word[1] \in C /\ Tail(word) \in Seq(C)
  OBVIOUS
<1>4. \A a \in Seq(C) : <<Opt(word[1], a)>> \in Seq(OptOf(C))
  BY <1>3 DEF OptOf, Opt
<1>5. k.opts = <<o>> /\ k.more = FALSE
  BY <1>2
<1>6. InWord(words, takes, f, word, i) = [f[i + 1] EXCEPT !.opts = <<o>> \o @]
  BY <1>1, <1>5 DEF InWord
<1>7. [f[i + 1] EXCEPT !.opts = <<o>> \o @] =
        [opts |-> <<o>> \o f[i + 1].opts, operands |-> f[i + 1].operands]
  BY <1>3, <1>4, MeaningAdd DEF Follows
<1>. QED
  BY <1>6, <1>7

\* ...or the next word.
Awaits(takes, word) ==
    word # <<>> /\ word[1] \in DOMAIN takes /\ takes[word[1]] /\ Tail(word) = <<>>

LEMMA InWordNext ==
    ASSUME NEW C, NEW words \in Seq(Seq(C)), NEW takes, NEW f, NEW i \in 1 .. Len(words),
           Follows(C, words, f, i), NEW word \in Seq(C), Awaits(takes, word), i < Len(words)
    PROVE  InWord(words, takes, f, word, i) = Prefixed(Opt(word[1], words[i + 1]), f[i + 2])
<1>. DEFINE o == Opt(word[1], Tail(word))
<1>1. word # <<>> /\ word[1] \in DOMAIN takes /\ takes[word[1]]
  BY DEF Awaits
<1>. USE DEF Prefixed
<1>2. PICK k : k = Cluster(word, takes)
  OBVIOUS
<1>3. k = [opts |-> <<o>>, more |-> Tail(word) = <<>>]
  BY <1>1, <1>2, ClusterStop
<1>4. word[1] \in C /\ Tail(word) \in Seq(C)
  BY <1>1
<1>5. \A a \in Seq(C) : <<Opt(word[1], a)>> \in Seq(OptOf(C))
  BY <1>4 DEF OptOf, Opt
<1>6. k.opts = <<o>> /\ k.more = TRUE /\ i # Len(words)
  <2>1. Tail(word) = <<>>
    BY DEF Awaits
  <2>. HIDE DEF o
  <2>2. i # Len(words)
    OBVIOUS
  <2>. QED
    BY <1>3, <2>1, <2>2
<1>7. PICK a : a = words[i + 1]
  OBVIOUS
<1>8. a \in Seq(C) /\ f[i + 2] \in MeaningOf(C)
  BY <1>7 DEF Follows
<1>9. InWord(words, takes, f, word, i) =
        [f[i + 2] EXCEPT !.opts = [<<o>> EXCEPT ![Len(<<o>>)].arg = a] \o @]
  BY <1>2, <1>6, <1>7 DEF InWord
<1>10. [<<o>> EXCEPT ![Len(<<o>>)].arg = a] = <<Opt(word[1], a)>>
  <2>1. [o EXCEPT !.arg = a] = Opt(word[1], a)
    BY DEF Opt
  <2>. HIDE DEF o
  <2>2. Len(<<o>>) = 1 /\ <<o>>[1] = o
    OBVIOUS
  <2>3. PICK m : m = [o EXCEPT !.arg = a]
    OBVIOUS
  <2>4. [<<o>> EXCEPT ![Len(<<o>>)].arg = a] = [<<o>> EXCEPT ![1] = m]
    BY <2>2, <2>3
  <2>5. [<<o>> EXCEPT ![1] = m] = <<m>>
    OBVIOUS
  <2>. QED
    BY <2>1, <2>3, <2>4, <2>5
<1>11. [f[i + 2] EXCEPT !.opts = <<Opt(word[1], a)>> \o @] =
        [opts |-> <<Opt(word[1], a)>> \o f[i + 2].opts, operands |-> f[i + 2].operands]
  BY <1>5, <1>8, MeaningAdd
<1>. QED
  BY <1>7, <1>9, <1>10, <1>11

-----------------------------------------------------------------------------
(* getopt takes the options one by one.                                    *)

GetoptOK(C, words, state) ==
    /\ DOMAIN state = {"optind", "argptr", "ret", "optarg"}
    /\ state.optind \in 1 .. Len(words) + 1
    /\ state.argptr = NoWord \/ (state.argptr \in Seq(C) /\ state.optind \in 1 .. Len(words))

\* What is left for it.
Remains(words, takes, f, state) ==
    IF state.argptr = NoWord THEN f[state.optind] ELSE InWord(words, takes, f, state.argptr, state.optind)

\* An argument: a part of a word, or a word.
IsArgument(C, words, arg) == arg \in Seq(C) /\ (arg # <<>> \/ \E i \in 1 .. Len(words) : arg = words[i])

\* h is the state of getopt when the next option was taken, m what was left before.
Takes1(C, words, takes, f, m, h) ==
    /\ DOMAIN h = {"optind", "argptr", "ret", "optarg"}
    /\ h.ret \in DOMAIN takes \cup {"?", "end"} /\ h.optind \in 1 .. Len(words) + 1
    /\ h.ret = "end" => m = [opts |-> <<>>, operands |-> SubSeq(words, h.optind, Len(words))]
    /\ h.ret \in DOMAIN takes =>
         /\ GetoptOK(C, words, h) /\ h.ret \in C
         /\ h.optarg \in Seq(C) \cup {NoWord} /\ (takes[h.ret] => IsArgument(C, words, h.optarg))
         /\ m.opts = <<Opt(h.ret, h.optarg)>> \o Remains(words, takes, f, h).opts
         /\ m.operands = Remains(words, takes, f, h).operands

\* NoWord is no word.
LEMMA NoWordFact ==
    ASSUME NEW C, "null" \notin C
    PROVE  NoWord \notin Seq(C) /\ NoWord # <<>>
<1>1. NoWord \in Seq({"null"}) /\ Len(NoWord) = 1 /\ NoWord[1] = "null"
  BY DEF NoWord
<1>2. \A s \in Seq(C) : Len(s) = 1 => s[1] \in C
  OBVIOUS
<1>. HIDE DEF NoWord
<1>. QED
  BY <1>1, <1>2

\* A solution is known after every word.
LEMMA FollowsAll ==
    ASSUME NEW C, NEW words \in Seq(Seq(C)), NEW takes, NEW f, Solves(C, words, takes, f)
    PROVE  \A i \in 1 .. Len(words) : Follows(C, words, f, i)
<1>. SUFFICES ASSUME NEW i \in 1 .. Len(words) PROVE Follows(C, words, f, i)
  OBVIOUS
<1>1. i + 1 \in 1 .. Len(words) + 1 /\ (i < Len(words) => i + 2 \in 1 .. Len(words) + 1)
  OBVIOUS
<1>. QED
  BY <1>1 DEF Follows, Solves

\* One letter of a word: it is the first of the options that were left there.
LEMMA LetterTakes ==
    ASSUME NEW C, "null" \notin C, NEW words \in Seq(Seq(C)),
           NEW takes, "?" \notin DOMAIN takes, "end" \notin DOMAIN takes,
           NEW f, Solves(C, words, takes, f),
           NEW state, GetoptOK(C, words, state), state.optind \in 1 .. Len(words), state.optarg = NoWord,
           NEW word \in Seq(C), word # <<>>
    PROVE  Takes1(C, words, takes, f, InWord(words, takes, f, word, state.optind),
                  Letter(state, words, takes, word))
<1>. DEFINE D == {"optind", "argptr", "ret", "optarg"}
<1>1. PICK i, c, t : i = state.optind /\ c = word[1] /\ t = Tail(word)
  OBVIOUS
<1>2. /\ i \in 1 .. Len(words) /\ c \in C /\ t \in Seq(C) /\ c = Head(word)
      /\ DOMAIN state = D /\ Follows(C, words, f, i) /\ Len(words) \in Nat
  BY <1>1, FollowsAll DEF GetoptOK
<1>3. PICK s : s = [state EXCEPT !.argptr = t, !.ret = c]
  OBVIOUS
<1>4. DOMAIN s = D /\ s.optind = i /\ s.argptr = t /\ s.ret = c /\ s.optarg = NoWord
  BY <1>1, <1>2, <1>3
<1>5. PICK h : h = Letter(state, words, takes, word)
  OBVIOUS
<1>6. h = IF c \notin DOMAIN takes THEN [s EXCEPT !.ret = "?"]
          ELSE IF takes[c] THEN Argument(s, words, c, t) ELSE s
  BY <1>1, <1>2, <1>3, <1>5 DEF Letter
<1>7. NoWord \notin Seq(C) /\ NoWord # <<>>
  BY NoWordFact
<1>8. PICK m : m = InWord(words, takes, f, word, i)
  OBVIOUS
<1>9. i \in 1 .. Len(words) + 1
  BY <1>2
<1>. SUFFICES Takes1(C, words, takes, f, m, h)
  BY <1>1, <1>5, <1>8
<1>10. CASE c \notin DOMAIN takes
  <2>1. h = [s EXCEPT !.ret = "?"]
    BY <1>6, <1>10
  <2>2. DOMAIN h = D /\ h.ret = "?" /\ h.optind = i
    BY <1>4, <2>1
  <2>. QED
    BY <1>9, <2>2 DEF Takes1
<1>11. CASE c \in DOMAIN takes /\ ~takes[c]
  <2>1. h = s
    BY <1>6, <1>11
  <2>2. GetoptOK(C, words, h)
    BY <1>2, <1>4, <1>9, <2>1 DEF GetoptOK
  <2>3. Remains(words, takes, f, h) = InWord(words, takes, f, t, i)
    BY <1>2, <1>4, <1>7, <2>1 DEF Remains
  <2>4. PICK r : r = InWord(words, takes, f, t, i)
    OBVIOUS
  <2>5. m = [opts |-> <<Opt(c, NoWord)>> \o r.opts, operands |-> r.operands]
    <3>1. word[1] \in DOMAIN takes /\ ~takes[word[1]]
      BY <1>1, <1>11
    <3>2. InWord(words, takes, f, word, i) =
            Prefixed(Opt(word[1], NoWord), InWord(words, takes, f, Tail(word), i))
      BY <1>2, <3>1, InWordGoesOn
    <3>. QED
      BY <1>1, <1>8, <2>4, <3>2 DEF Prefixed
  <2>6. m.opts = <<Opt(c, NoWord)>> \o r.opts /\ m.operands = r.operands
    BY <2>5
  <2>7. c # "end" /\ c # "?"
    BY <1>11
  <2>. QED
    BY <1>2, <1>4, <1>9, <1>11, <2>1, <2>2, <2>3, <2>4, <2>6, <2>7 DEF Takes1
<1>12. CASE c \in DOMAIN takes /\ takes[c]
  <2>1. h = Argument(s, words, c, t) /\ c # "end" /\ c # "?"
    BY <1>6, <1>12
  <2>2. CASE t # <<>>
    <3>1. h = [optind |-> i + 1, argptr |-> NoWord, ret |-> c, optarg |-> t]
      BY <1>4, <2>1, <2>2 DEF Argument
    <3>2. DOMAIN h = D /\ h.optind = i + 1 /\ h.argptr = NoWord /\ h.ret = c /\ h.optarg = t
      BY <3>1
    <3>3. i + 1 \in 1 .. Len(words) + 1
      BY <1>2
    <3>4. GetoptOK(C, words, h)
      BY <3>2, <3>3 DEF GetoptOK
    <3>5. PICK r : r = f[i + 1]
      OBVIOUS
    <3>6. Remains(words, takes, f, h) = r
      BY <3>2, <3>5 DEF Remains
    <3>7. m = [opts |-> <<Opt(c, t)>> \o r.opts, operands |-> r.operands]
      <4>1. word[1] \in DOMAIN takes /\ takes[word[1]] /\ Tail(word) # <<>>
        BY <1>1, <1>12, <2>2
      <4>2. InWord(words, takes, f, word, i) = Prefixed(Opt(word[1], Tail(word)), f[i + 1])
        BY <1>2, <4>1, InWordArgument
      <4>. QED
        BY <1>1, <1>8, <3>5, <4>2 DEF Prefixed
    <3>8. m.opts = <<Opt(c, t)>> \o r.opts /\ m.operands = r.operands
      BY <3>7
    <3>. QED
      BY <1>2, <1>12, <2>1, <2>2, <3>2, <3>3, <3>4, <3>6, <3>8 DEF Takes1, IsArgument
  <2>3. CASE t = <<>> /\ i + 1 > Len(words)
    <3>1. h = [s EXCEPT !.optind = @ + 1, !.argptr = <<>>, !.ret = "?"]
      BY <1>4, <2>1, <2>3 DEF Argument
    <3>2. DOMAIN h = D /\ h.ret = "?" /\ h.optind = i + 1
      BY <1>4, <3>1
    <3>3. i + 1 \in 1 .. Len(words) + 1
      BY <1>2
    <3>. QED
      BY <3>2, <3>3 DEF Takes1
  <2>4. CASE t = <<>> /\ ~(i + 1 > Len(words))
    <3>1. PICK a : a = words[i + 1]
      OBVIOUS
    <3>2. h = [optind |-> i + 1, argptr |-> <<>>, ret |-> c, optarg |-> a]
      BY <1>4, <2>1, <2>4, <3>1 DEF Argument
    <3>3. DOMAIN h = D /\ h.optind = i + 1 /\ h.argptr = <<>> /\ h.ret = c /\ h.optarg = a
      BY <3>2
    <3>4. i + 1 \in 1 .. Len(words) /\ i + 1 \in 1 .. Len(words) + 1 /\ i < Len(words) /\ (i + 1) + 1 = i + 2
          /\ <<>> \in Seq(C)
      BY <1>2, <2>4
    <3>5. GetoptOK(C, words, h) /\ a \in Seq(C)
      BY <3>1, <3>3, <3>4 DEF GetoptOK
    <3>6. PICK r : r = f[i + 2]
      OBVIOUS
    <3>7. Follows(C, words, f, i + 1)
      BY <3>4, FollowsAll
    <3>8. Remains(words, takes, f, h) = r
      <4>1. InWord(words, takes, f, <<>>, i + 1) = f[(i + 1) + 1]
        BY <3>7, InWordEmpty
      <4>. QED
        BY <1>7, <3>3, <3>4, <3>6, <4>1 DEF Remains
    <3>9. m = [opts |-> <<Opt(c, a)>> \o r.opts, operands |-> r.operands]
      <4>1. Awaits(takes, word)
        BY <1>1, <1>12, <2>4 DEF Awaits
      <4>2. i < Len(words) /\ i \in 1 .. Len(words) /\ Follows(C, words, f, i)
        BY <1>2, <3>4
      <4>3. InWord(words, takes, f, word, i) = Prefixed(Opt(word[1], words[i + 1]), f[i + 2])
        BY <4>1, <4>2, InWordNext
      <4>. QED
        BY <1>1, <1>8, <3>1, <3>6, <4>3 DEF Prefixed
    <3>10. m.opts = <<Opt(c, a)>> \o r.opts /\ m.operands = r.operands
      BY <3>9
    <3>. QED
      BY <1>2, <1>12, <2>1, <3>1, <3>3, <3>4, <3>5, <3>8, <3>10 DEF Takes1, IsArgument
  <2>. QED
    BY <2>2, <2>3, <2>4
<1>. QED
  BY <1>10, <1>11, <1>12

\* A word has a letter unless it is empty.
LEMMA EmptyWord ==
    ASSUME NEW C, NEW w \in Seq(C)
    PROVE  Len(w) \in Nat /\ (w # <<>> <=> Len(w) > 0)
BY EmptySeq

\* What getopt asks of a word before it looks for options in it.
LEMMA OptionWord ==
    ASSUME NEW C, NEW w \in Seq(C)
    PROVE  /\ IsOption(w) <=> ~(w = <<>> \/ Head(w) # "-" \/ Len(w) = 1)
           /\ IsOption(w) => Tail(w) \in Seq(C) /\ Tail(w) # <<>>
<1>1. Len(w) \in Nat /\ (w # <<>> <=> Len(w) > 0)
  BY EmptyWord
<1>2. IsOption(w) <=> ~(w = <<>> \/ Head(w) # "-" \/ Len(w) = 1)
  <2>1. CASE w = <<>>
    BY <1>1, <2>1 DEF IsOption
  <2>2. CASE w # <<>>
    <3>1. PICK n, c : n \in Nat /\ n = Len(w) /\ c = w[1]
      BY <1>1
    <3>2. c = Head(w)
      BY <2>2, <3>1
    <3>. HIDE <1>1
    <3>. QED
      BY <1>1, <2>2, <3>1, <3>2 DEF IsOption
  <2>. QED
    BY <2>1, <2>2
<1>3. ASSUME IsOption(w)
      PROVE  Tail(w) \in Seq(C) /\ Tail(w) # <<>>
  <2>1. PICK t : t = Tail(w)
    OBVIOUS
  <2>2. Len(w) > 1 /\ w # <<>>
    BY <1>1, <1>3 DEF IsOption
  <2>3. t \in Seq(C) /\ Len(t) = Len(w) - 1
    BY <2>1, <2>2, HeadTailProperties
  <2>4. t # <<>>
    BY <1>1, <2>2, <2>3, EmptyWord
  <2>. QED
    BY <2>1, <2>3, <2>4
<1>. QED
  BY <1>2, <1>3

\* A call of getopt takes the first of the options that are left, and leaves the others;
\* at the end it leaves the operands.
LEMMA GetoptTakes ==
    ASSUME NEW C, "null" \notin C, NEW words \in Seq(Seq(C)),
           NEW takes, "?" \notin DOMAIN takes, "end" \notin DOMAIN takes,
           NEW f, Solves(C, words, takes, f), NEW state, GetoptOK(C, words, state)
    PROVE  Takes1(C, words, takes, f, Remains(words, takes, f, state), Getopt(state, words, takes))
<1>. DEFINE D == {"optind", "argptr", "ret", "optarg"}
<1>1. NoWord \notin Seq(C) /\ NoWord # <<>> /\ Len(words) \in Nat
  BY NoWordFact
<1>2. PICK cleared : cleared = [state EXCEPT !.optarg = NoWord]
  OBVIOUS
<1>3. /\ DOMAIN cleared = D /\ cleared.optarg = NoWord /\ cleared.argptr = state.argptr
      /\ cleared.optind = state.optind
  BY <1>2 DEF GetoptOK
<1>4. PICK s : s = IF state.argptr = <<>> THEN [cleared EXCEPT !.optind = @ + 1, !.argptr = NoWord]
                   ELSE cleared
  OBVIOUS
<1>5. /\ GetoptOK(C, words, s) /\ s.optarg = NoWord /\ s.argptr # <<>>
      /\ Remains(words, takes, f, s) = Remains(words, takes, f, state)
  <2>1. CASE state.argptr = <<>>
    <3>1. DOMAIN s = D /\ s.optarg = NoWord /\ s.argptr = NoWord /\ s.optind = state.optind + 1
      BY <1>3, <1>4, <2>1
    <3>2. state.optind \in 1 .. Len(words) /\ state.optind + 1 \in 1 .. Len(words) + 1
      BY <1>1, <2>1 DEF GetoptOK
    <3>3. Follows(C, words, f, state.optind)
      BY <3>2, FollowsAll
    <3>4. InWord(words, takes, f, <<>>, state.optind) = f[state.optind + 1]
      BY <3>3, InWordEmpty
    <3>. QED
      BY <1>1, <2>1, <3>1, <3>2, <3>4 DEF GetoptOK, Remains
  <2>2. CASE state.argptr # <<>>
    <3>1. s = cleared
      BY <1>4, <2>2
    <3>. QED
      BY <1>3, <2>2, <3>1 DEF GetoptOK, Remains
  <2>. QED
    BY <2>1, <2>2
<1>6. PICK h, m, i : /\ h = Getopt(state, words, takes) /\ m = Remains(words, takes, f, state)
                     /\ i = s.optind
  OBVIOUS
<1>. SUFFICES Takes1(C, words, takes, f, m, h)
  BY <1>6
<1>7. h = IF s.argptr # NoWord THEN Letter(s, words, takes, s.argptr)
          ELSE IF i > Len(words) THEN Done(s)
          ELSE IF words[i] = <<"-", "-">> THEN Done([s EXCEPT !.optind = @ + 1])
          ELSE IF words[i] = <<>> \/ Head(words[i]) # "-" \/ Len(words[i]) = 1 THEN Done(s)
          ELSE Letter(s, words, takes, Tail(words[i]))
  BY <1>2, <1>4, <1>6 DEF Getopt
<1>8. CASE s.argptr # NoWord
  <2>1. s.argptr \in Seq(C) /\ i \in 1 .. Len(words)
    BY <1>5, <1>6, <1>8 DEF GetoptOK
  <2>2. m = InWord(words, takes, f, s.argptr, i)
    BY <1>5, <1>6, <1>8 DEF Remains
  <2>. QED
    BY <1>5, <1>6, <1>7, <1>8, <2>1, <2>2, LetterTakes
<1>9. CASE s.argptr = NoWord
  <2>1. m = Left(words, takes, f, i) /\ i \in 1 .. Len(words) + 1
    <3>1. i \in 1 .. Len(words) + 1 /\ m = f[i]
      BY <1>5, <1>6, <1>9 DEF GetoptOK, Remains
    <3>. QED
      BY <3>1 DEF Solves
  <2>2. ASSUME NEW e, DOMAIN e = D, e.optind \in 1 .. Len(words) + 1, h = Done(e),
               m = [opts |-> <<>>, operands |-> SubSeq(words, e.optind, Len(words))]
        PROVE  Takes1(C, words, takes, f, m, h)
    <3>1. DOMAIN h = D /\ h.ret = "end" /\ h.optind = e.optind
      BY <2>2 DEF Done
    <3>. QED
      BY <2>2, <3>1 DEF Takes1
  <2>3. DOMAIN s = D
    BY <1>5 DEF GetoptOK
  <2>4. CASE i > Len(words)
    <3>1. m = [opts |-> <<>>, operands |-> SubSeq(words, i, Len(words))]
      BY <2>1, <2>4 DEF Left
    <3>2. h = Done(s)
      BY <1>7, <1>9, <2>4
    <3>. QED
      BY <1>6, <2>1, <2>2, <2>3, <3>1, <3>2
  <2>5. CASE ~(i > Len(words)) /\ words[i] = <<"-", "-">>
    <3>1. IsOption(words[i])
      BY <2>5 DEF IsOption
    <3>2. m = [opts |-> <<>>, operands |-> SubSeq(words, i + 1, Len(words))]
      BY <2>1, <2>5, <3>1 DEF Left
    <3>3. PICK e : e = [s EXCEPT !.optind = @ + 1]
      OBVIOUS
    <3>4. DOMAIN e = D /\ e.optind = i + 1 /\ i + 1 \in 1 .. Len(words) + 1
      BY <1>1, <1>6, <2>1, <2>3, <2>5, <3>3
    <3>5. h = Done(e)
      BY <1>7, <1>9, <2>5, <3>3
    <3>. QED
      BY <2>2, <3>2, <3>4, <3>5
  <2>6. CASE ~(i > Len(words)) /\ words[i] # <<"-", "-">>
    <3>1. i \in 1 .. Len(words) /\ words[i] \in Seq(C)
      BY <1>1, <2>1, <2>6
    <3>2. IsOption(words[i]) <=> ~(words[i] = <<>> \/ Head(words[i]) # "-" \/ Len(words[i]) = 1)
      BY <3>1, OptionWord
    <3>3. CASE ~IsOption(words[i])
      <4>1. m = [opts |-> <<>>, operands |-> SubSeq(words, i, Len(words))]
        BY <2>1, <3>3 DEF Left
      <4>2. h = Done(s)
        BY <1>7, <1>9, <2>6, <3>2, <3>3
      <4>. QED
        BY <1>6, <2>1, <2>2, <2>3, <4>1, <4>2
    <3>4. CASE IsOption(words[i])
      <4>1. m = InWord(words, takes, f, Tail(words[i]), i)
        BY <2>1, <2>6, <3>4 DEF Left
      <4>2. h = Letter(s, words, takes, Tail(words[i]))
        BY <1>7, <1>9, <2>6, <3>2, <3>4
      <4>3. Tail(words[i]) \in Seq(C) /\ Tail(words[i]) # <<>>
        BY <3>1, <3>4, OptionWord
      <4>. QED
        BY <1>5, <1>6, <3>1, <4>1, <4>2, <4>3, LetterTakes
    <3>. QED
      BY <3>3, <3>4
  <2>. QED
    BY <2>4, <2>5, <2>6
<1>. QED
  BY <1>8, <1>9

-----------------------------------------------------------------------------
(* What is asked for twice, and read one after the other.                  *)

\* A set of some of the numbers from 1 to n has a greatest member.
LEMMA GreatestNatural ==
    ASSUME NEW n \in Nat, NEW S \in SUBSET (1 .. n), S # {}
    PROVE  \E m \in S : \A k \in S : k <= m
<1>. DEFINE T == {n - k : k \in S}
<1>1. T \in SUBSET Nat /\ T # {}
  <2>1. \A k \in S : k \in 1 .. n /\ n - k \in Nat
    OBVIOUS
  <2>. QED
    BY <2>1
<1>2. PICK t \in T : \A u \in T : t <= u
  <2>. HIDE DEF T
  <2>. QED
    BY <1>1, LeastNatural
<1>3. PICK m \in S : t = n - m
  BY <1>2
<1>4. \A k \in S : k \in Int /\ n - k \in T
  OBVIOUS
<1>5. \A k \in S : n - m <= n - k
  BY <1>2, <1>3, <1>4
<1>. QED
  BY <1>3, <1>4, <1>5

\* The least, and the greatest, are what CHOOSE gives.
LEMMA ChosenLeast ==
    ASSUME NEW S, S \subseteq Int, NEW m \in S, \A j \in S : m <= j
    PROVE  (CHOOSE i \in S : \A j \in S : i <= j) = m
<1>. DEFINE First(i) == \A j \in S : i <= j
            c == CHOOSE i \in S : First(i)
<1>1. c \in S /\ First(c)
  <2>1. First(m)
    OBVIOUS
  <2>. HIDE DEF First
  <2>. QED
    BY <2>1
<1>2. c <= m /\ m <= c /\ c \in Int /\ m \in Int
  BY <1>1
<1>. HIDE DEF c
<1>3. c = m
  BY <1>2
<1>. QED
  BY <1>3 DEF c

LEMMA ChosenGreatest ==
    ASSUME NEW S, S \subseteq Int, NEW m \in S, \A j \in S : j <= m
    PROVE  (CHOOSE i \in S : \A j \in S : j <= i) = m
<1>. DEFINE Last(i) == \A j \in S : j <= i
            c == CHOOSE i \in S : Last(i)
<1>1. c \in S /\ Last(c)
  <2>1. Last(m)
    OBVIOUS
  <2>. HIDE DEF Last
  <2>. QED
    BY <2>1
<1>2. c <= m /\ m <= c /\ c \in Int /\ m \in Int
  BY <1>1
<1>. HIDE DEF c
<1>3. c = m
  BY <1>2
<1>. QED
  BY <1>3 DEF c

\* One more option: it is the last of its letter.
LEMMA OneMoreGiven ==
    ASSUME NEW P, NEW opts \in Seq(P), NEW o \in P, NEW letter
    PROVE  LET more == Append(opts, o)
           IN /\ o.letter # letter => /\ Given(more, letter) = Given(opts, letter)
                                      /\ Given(opts, letter) # {} => LastArg(more, letter) = LastArg(opts, letter)
              /\ o.letter = letter => Given(more, letter) # {} /\ LastArg(more, letter) = o.arg
<1>. DEFINE more == Append(opts, o)
            n == Len(opts)
<1>1. /\ n \in Nat /\ DOMAIN opts = 1 .. n /\ DOMAIN more = 1 .. n + 1
      /\ \A i \in 1 .. n : more[i] = opts[i]
      /\ more[n + 1] = o
  OBVIOUS
<1>. HIDE DEF more, n
<1>2. ASSUME o.letter # letter
      PROVE  /\ Given(more, letter) = Given(opts, letter)
             /\ Given(opts, letter) # {} => LastArg(more, letter) = LastArg(opts, letter)
  <2>1. Given(more, letter) = Given(opts, letter)
    BY <1>1, <1>2 DEF Given
  <2>2. ASSUME Given(opts, letter) # {}
        PROVE  LastArg(more, letter) = LastArg(opts, letter)
    <3>1. Given(opts, letter) \in SUBSET (1 .. n)
      BY <1>1 DEF Given
    <3>2. PICK m \in Given(opts, letter) : \A k \in Given(opts, letter) : k <= m
      BY <1>1, <2>2, <3>1, GreatestNatural
    <3>3. Given(opts, letter) \subseteq Int /\ m \in 1 .. n
      BY <1>1, <3>1
    <3>4. LastArg(opts, letter) = opts[m].arg
      BY <3>2, <3>3, ChosenGreatest DEF LastArg
    <3>5. LastArg(more, letter) = more[m].arg
      BY <2>1, <3>2, <3>3, ChosenGreatest DEF LastArg
    <3>. QED
      BY <1>1, <3>3, <3>4, <3>5
  <2>. QED
    BY <2>1, <2>2
<1>3. ASSUME o.letter = letter
      PROVE  Given(more, letter) # {} /\ LastArg(more, letter) = o.arg
  <2>1. n + 1 \in Given(more, letter)
    BY <1>1, <1>3 DEF Given
  <2>2. Given(more, letter) \subseteq Int /\ \A k \in Given(more, letter) : k <= n + 1
    BY <1>1 DEF Given
  <2>3. LastArg(more, letter) = more[n + 1].arg
    BY <2>1, <2>2, ChosenGreatest DEF LastArg
  <2>. QED
    BY <1>1, <2>1, <2>3
<1>. QED
  BY <1>2, <1>3 DEF more

\* What the configurations that were read say of the directory.
DirRead(read) ==
    LET say == {i \in DOMAIN read : read[i].dir # NoTag}
    IN IF say = {} THEN NoTag ELSE read[CHOOSE i \in say : \A j \in say : i <= j].dir

ThreadsRead(read) ==
    LET say == {i \in DOMAIN read : read[i].threads # NoThreads}
    IN IF say = {} THEN ThreadLimit ELSE read[CHOOSE i \in say : \A j \in say : j <= i].threads

\* One more is read.
LEMMA OneMoreRead ==
    ASSUME NEW n \in Nat, NEW read, DOMAIN read = 1 .. n,
           NEW more, DOMAIN more = 1 .. n + 1, \A i \in 1 .. n : more[i] = read[i], NEW opts
    PROVE  /\ DirRead(more) = IF DirRead(read) = NoTag THEN more[n + 1].dir ELSE DirRead(read)
           /\ ThreadsRead(more) =
                IF more[n + 1].threads = NoThreads THEN ThreadsRead(read) ELSE more[n + 1].threads
           /\ TimeoutAsked(opts, more) =
                IF more[n + 1].timeout = NoTimeout THEN TimeoutAsked(opts, read)
                ELSE more[n + 1].timeout
<1>1. DirRead(more) = IF DirRead(read) = NoTag THEN more[n + 1].dir ELSE DirRead(read)
  <2>. DEFINE S == {i \in DOMAIN read : read[i].dir # NoTag}
              T == {i \in DOMAIN more : more[i].dir # NoTag}
  <2>1. /\ S \in SUBSET (1 .. n) /\ S \subseteq Int /\ T \subseteq Int
        /\ T = S \cup (IF more[n + 1].dir # NoTag THEN {n + 1} ELSE {})
        /\ \A i \in S : read[i].dir # NoTag /\ more[i] = read[i]
    OBVIOUS
  <2>2. /\ DirRead(read) = IF S = {} THEN NoTag ELSE read[CHOOSE i \in S : \A j \in S : i <= j].dir
        /\ DirRead(more) = IF T = {} THEN NoTag ELSE more[CHOOSE i \in T : \A j \in T : i <= j].dir
    BY DEF DirRead
  <2>. HIDE DEF S, T
  <2>3. CASE S = {} /\ T = {}
    BY <2>1, <2>2, <2>3
  <2>4. CASE S = {} /\ T # {}
    <3>1. T = {n + 1} /\ \A j \in T : n + 1 <= j
      BY <2>1, <2>4
    <3>2. (CHOOSE i \in T : \A j \in T : i <= j) = n + 1
      BY <2>1, <3>1, ChosenLeast
    <3>. QED
      BY <2>2, <2>4, <3>2
  <2>5. CASE S # {}
    <3>1. PICK m \in S : \A j \in S : m <= j
      <4>1. S \in SUBSET Nat
        BY <2>1
      <4>. QED
        BY <2>5, <4>1, LeastNatural
    <3>2. m \in 1 .. n /\ m \in T /\ \A j \in T : m <= j
      BY <2>1, <3>1
    <3>3. (CHOOSE i \in S : \A j \in S : i <= j) = m
      BY <2>1, <3>1, ChosenLeast
    <3>4. (CHOOSE i \in T : \A j \in T : i <= j) = m
      BY <2>1, <3>2, ChosenLeast
    <3>5. DirRead(read) = read[m].dir /\ DirRead(more) = more[m].dir
      BY <2>2, <2>5, <3>2, <3>3, <3>4
    <3>. QED
      BY <2>1, <3>1, <3>5
  <2>. QED
    BY <2>3, <2>4, <2>5
<1>2. ThreadsRead(more) =
        IF more[n + 1].threads = NoThreads THEN ThreadsRead(read) ELSE more[n + 1].threads
  <2>. DEFINE S == {i \in DOMAIN read : read[i].threads # NoThreads}
              T == {i \in DOMAIN more : more[i].threads # NoThreads}
  <2>1. /\ S \in SUBSET (1 .. n) /\ S \subseteq Int /\ T \subseteq Int
        /\ T = S \cup (IF more[n + 1].threads # NoThreads THEN {n + 1} ELSE {})
        /\ \A i \in S : more[i] = read[i]
    OBVIOUS
  <2>2. /\ ThreadsRead(read) =
             IF S = {} THEN ThreadLimit ELSE read[CHOOSE i \in S : \A j \in S : j <= i].threads
        /\ ThreadsRead(more) =
             IF T = {} THEN ThreadLimit ELSE more[CHOOSE i \in T : \A j \in T : j <= i].threads
    BY DEF ThreadsRead
  <2>. HIDE DEF S, T
  <2>3. CASE more[n + 1].threads # NoThreads
    <3>1. n + 1 \in T /\ \A j \in T : j <= n + 1
      BY <2>1, <2>3
    <3>2. (CHOOSE i \in T : \A j \in T : j <= i) = n + 1
      BY <2>1, <3>1, ChosenGreatest
    <3>. QED
      BY <2>2, <2>3, <3>1, <3>2
  <2>4. CASE more[n + 1].threads = NoThreads /\ S = {}
    BY <2>1, <2>2, <2>4
  <2>5. CASE more[n + 1].threads = NoThreads /\ S # {}
    <3>1. T = S
      BY <2>1, <2>5
    <3>2. PICK m \in S : \A j \in S : j <= m
      BY <2>1, <2>5, GreatestNatural
    <3>3. (CHOOSE i \in S : \A j \in S : j <= i) = m
      BY <2>1, <3>2, ChosenGreatest
    <3>4. (CHOOSE i \in T : \A j \in T : j <= i) = m
      BY <3>1, <3>3
    <3>. QED
      BY <2>1, <2>2, <2>5, <3>1, <3>2, <3>3, <3>4
  <2>. QED
    BY <2>3, <2>4, <2>5
<1>3. TimeoutAsked(opts, more) =
        IF more[n + 1].timeout = NoTimeout THEN TimeoutAsked(opts, read) ELSE more[n + 1].timeout
  <2>. DEFINE S == {i \in DOMAIN read : read[i].timeout # NoTimeout}
              T == {i \in DOMAIN more : more[i].timeout # NoTimeout}
              unsaid == IF Given(opts, "T") = {} THEN SocketTimeout ELSE Number(LastArg(opts, "T"))
  <2>1. /\ S \in SUBSET (1 .. n) /\ S \subseteq Int /\ T \subseteq Int
        /\ T = S \cup (IF more[n + 1].timeout # NoTimeout THEN {n + 1} ELSE {})
        /\ \A i \in S : more[i] = read[i]
    OBVIOUS
  <2>2. /\ TimeoutAsked(opts, read) =
             IF S # {} THEN read[CHOOSE i \in S : \A j \in S : j <= i].timeout ELSE unsaid
        /\ TimeoutAsked(opts, more) =
             IF T # {} THEN more[CHOOSE i \in T : \A j \in T : j <= i].timeout ELSE unsaid
    BY DEF TimeoutAsked
  <2>. HIDE DEF S, T, unsaid
  <2>3. CASE more[n + 1].timeout # NoTimeout
    <3>1. n + 1 \in T /\ \A j \in T : j <= n + 1
      BY <2>1, <2>3
    <3>2. (CHOOSE i \in T : \A j \in T : j <= i) = n + 1
      BY <2>1, <3>1, ChosenGreatest
    <3>. QED
      BY <2>2, <2>3, <3>1, <3>2
  <2>4. CASE more[n + 1].timeout = NoTimeout /\ S = {}
    BY <2>1, <2>2, <2>4
  <2>5. CASE more[n + 1].timeout = NoTimeout /\ S # {}
    <3>1. T = S
      BY <2>1, <2>5
    <3>2. PICK m \in S : \A j \in S : j <= m
      BY <2>1, <2>5, GreatestNatural
    <3>3. (CHOOSE i \in S : \A j \in S : j <= i) = m
      BY <2>1, <3>2, ChosenGreatest
    <3>4. (CHOOSE i \in T : \A j \in T : j <= i) = m
      BY <3>1, <3>3
    <3>. QED
      BY <2>1, <2>2, <2>5, <3>1, <3>2, <3>3, <3>4
  <2>. QED
    BY <2>3, <2>4, <2>5
<1>. QED
  BY <1>1, <1>2, <1>3

\* Nothing is read yet.
LEMMA NothingRead ==
    ASSUME NEW read, DOMAIN read = {}, NEW opts
    PROVE  /\ DirRead(read) = NoTag /\ ThreadsRead(read) = ThreadLimit
           /\ TimeoutAsked(opts, read) =
                IF Given(opts, "T") = {} THEN SocketTimeout ELSE Number(LastArg(opts, "T"))
BY DEF DirRead, ThreadsRead, TimeoutAsked

\* The regexps of two lists one after the other.
LEMMA RegexpsJoined ==
    ASSUME NEW l, IsList(l), NEW m, IsList(m)
    PROVE  Regexps(l \o m) = Regexps(l) + Regexps(m)
<1>. DEFINE n == Len(l)
            j == l \o m
            A == {i \in DOMAIN l : l[i].regexp}
            B == {i \in DOMAIN m : m[i].regexp}
            C == {i \in DOMAIN j : j[i].regexp}
            D == {i \in C : i \notin A}
            f == [i \in B |-> i + n]
<1>1. n \in Nat /\ DOMAIN l = 1 .. n /\ Len(m) \in Nat /\ DOMAIN m = 1 .. Len(m)
  BY ListType
<1>2. /\ DOMAIN j = 1 .. n + Len(m)
      /\ \A i \in DOMAIN l : j[i] = l[i]
      /\ \A i \in DOMAIN j : i \notin DOMAIN l => i - n \in DOMAIN m /\ j[i] = m[i - n]
  BY ListJoined
<1>3. Regexps(l) = Cardinality(A) /\ Regexps(m) = Cardinality(B) /\ Regexps(j) = Cardinality(C)
  BY DEF Regexps
<1>. HIDE DEF n, j
<1>4. IsFiniteSet(A) /\ IsFiniteSet(B) /\ IsFiniteSet(C)
  <2>1. A \in SUBSET (1 .. n) /\ B \in SUBSET (1 .. Len(m)) /\ C \in SUBSET (1 .. n + Len(m))
    BY <1>1, <1>2
  <2>2. IsFiniteSet(1 .. n) /\ IsFiniteSet(1 .. Len(m)) /\ IsFiniteSet(1 .. n + Len(m))
    <3>1. 1 \in Int /\ n \in Int /\ Len(m) \in Int /\ n + Len(m) \in Int
      BY <1>1
    <3>. QED
      BY <3>1, FS_Interval
  <2>. HIDE DEF A, B, C
  <2>. QED
    BY <2>1, <2>2, FS_Subset
<1>5. A \in SUBSET C /\ C = A \cup D /\ A \cap D = {}
  <2>1. \A i \in A : i \in C
    BY <1>1, <1>2
  <2>. QED
    BY <2>1
<1>6. f \in Bijection(B, D)
  <2>1. \A i \in B : i + n \in D
    <3>. SUFFICES ASSUME NEW i \in B PROVE i + n \in D
      OBVIOUS
    <3>1. i \in 1 .. Len(m) /\ m[i].regexp
      BY <1>1
    <3>2. i + n \in DOMAIN j /\ i + n \notin DOMAIN l /\ (i + n) - n = i
      BY <1>1, <1>2, <3>1
    <3>3. j[i + n] = m[i]
      BY <1>2, <3>2
    <3>. QED
      BY <3>1, <3>2, <3>3
  <2>2. \A i \in D : i - n \in B /\ (i - n) + n = i
    <3>. SUFFICES ASSUME NEW i \in D PROVE i - n \in B /\ (i - n) + n = i
      OBVIOUS
    <3>1. i \in DOMAIN j /\ j[i].regexp /\ i \notin A
      OBVIOUS
    <3>2. i \notin DOMAIN l
      BY <1>2, <3>1
    <3>3. i - n \in DOMAIN m /\ m[i - n].regexp
      BY <1>2, <3>1, <3>2
    <3>4. i \in Int /\ n \in Int
      BY <1>1, <1>2, <3>1
    <3>. QED
      BY <3>3, <3>4
  <2>3. \A i, k \in B : i + n = k + n => i = k
    BY <1>1
  <2>. HIDE DEF B, D
  <2>4. f \in [B -> D] /\ \A i \in B : f[i] = i + n
    BY <2>1
  <2>. HIDE DEF f
  <2>5. f \in Injection(B, D)
    BY <2>3, <2>4 DEF Injection, IsInjective
  <2>6. f \in Surjection(B, D)
    <3>1. \A i \in D : \E k \in B : f[k] = i
      BY <2>2, <2>4
    <3>. QED
      BY <2>4, <3>1 DEF Surjection
  <2>. QED
    BY <2>5, <2>6 DEF Bijection
<1>. HIDE DEF A, B, C, D, f
<1>7. IsFiniteSet(D) /\ Cardinality(D) = Cardinality(B)
  <2>1. ExistsBijection(B, D)
    BY <1>6 DEF ExistsBijection
  <2>. QED
    BY <1>4, <2>1, FS_Bijection
<1>8. Cardinality(C) = Cardinality(A) + Cardinality(D)
  <2>1. Cardinality(A \cap D) = 0
    BY <1>5, FS_EmptySet
  <2>2. Cardinality(A \cup D) = Cardinality(A) + Cardinality(D) - Cardinality(A \cap D)
    BY <1>4, <1>7, FS_Union
  <2>3. Cardinality(A) \in Nat /\ Cardinality(D) \in Nat
    BY <1>4, <1>7, FS_CardinalityType
  <2>. QED
    BY <1>5, <2>1, <2>2, <2>3
<1>. QED
  BY <1>3, <1>7, <1>8 DEF j

\* What is added is counted and keeps its urls.
LEMMA AddUrls ==
    ASSUME ListInv, unique = Regexps(comics),
           NEW e, IsList(e), \A i \in DOMAIN e : EntryOK(e[i]), NEW index, Add(e, index)
    PROVE  /\ unique' = Regexps(comics')
           /\ \A i \in DOMAIN comics : i \in DOMAIN comics' /\ comics'[i] = comics[i]
           /\ \A i \in DOMAIN e : \E k \in DOMAIN comics' : comics'[k].url = e[i].url
<1>. DEFINE new == Numbered(e, unique, index)
            l == comics \o new
<1>1. comics' = l /\ unique' = unique + Regexps(e) /\ unique \in Nat /\ IsList(comics)
  BY DEF Add, ListInv
<1>2. /\ IsList(new) /\ DOMAIN new = DOMAIN e
      /\ \A i \in DOMAIN new : new[i].regexp = e[i].regexp
  BY <1>1, NumberedComics
<1>3. \A i \in DOMAIN new : new[i].url = e[i].url
  <2>1. \A url, out, regexp, n : Comic(url, out, regexp, index, n).url = url
    BY DEF Comic
  <2>2. \A i \in DOMAIN e : \E url, out, regexp, n :
          url = e[i].url /\ new[i] = Comic(url, out, regexp, index, n)
    BY DEF Numbered
  <2>. HIDE DEF new
  <2>. QED
    BY <1>2, <2>1, <2>2
<1>4. Regexps(new) = Regexps(e)
  <2>1. {i \in DOMAIN new : new[i].regexp} = {i \in DOMAIN e : e[i].regexp}
    BY <1>2
  <2>. QED
    BY <2>1 DEF Regexps
<1>. HIDE DEF new
<1>5. /\ Regexps(l) = Regexps(comics) + Regexps(new)
      /\ Len(l) = Len(comics) + Len(new) /\ DOMAIN l = 1 .. Len(comics) + Len(new)
      /\ \A i \in DOMAIN comics : l[i] = comics[i]
      /\ \A i \in DOMAIN l : i \notin DOMAIN comics =>
           i - Len(comics) \in DOMAIN new /\ l[i] = new[i - Len(comics)]
  BY <1>1, <1>2, RegexpsJoined, ListJoined
<1>6. /\ Len(comics) \in Nat /\ DOMAIN comics = 1 .. Len(comics)
      /\ Len(new) \in Nat /\ DOMAIN new = 1 .. Len(new)
  BY <1>1, <1>2, ListType
<1>. HIDE DEF l
<1>7. \A i \in DOMAIN comics : i \in DOMAIN l
  BY <1>5, <1>6
<1>8. ASSUME NEW i \in DOMAIN e
      PROVE  \E k \in DOMAIN l : l[k].url = e[i].url
  <2>1. i \in 1 .. Len(new)
    BY <1>2, <1>6
  <2>2. /\ i + Len(comics) \in DOMAIN l /\ i + Len(comics) \notin DOMAIN comics
        /\ (i + Len(comics)) - Len(comics) = i
    BY <1>5, <1>6, <2>1
  <2>3. l[i + Len(comics)] = new[i]
    BY <1>5, <2>2
  <2>. QED
    BY <1>2, <1>3, <2>2, <2>3
<1>. QED
  BY <1>1, <1>4, <1>5, <1>7, <1>8

-----------------------------------------------------------------------------
(* The settings.                                                           *)

\* What set holds, after the options and the configurations.
SaidBy(opts, read) ==
    /\ Given(opts, "h") = {} /\ Given(opts, "?") = {}
    /\ prog = "get-comics" =>
         /\ set.dir = IF Given(opts, "d") = {} THEN DirRead(read) ELSE Head(LastArg(opts, "d"))
         /\ Given(opts, "d") # {} => set.dir # NoTag
         /\ set.threadsSet = (Given(opts, "t") # {})
         /\ set.threads = IF Given(opts, "t") = {} THEN ThreadsRead(read)
                          ELSE Number(LastArg(opts, "t"))
         /\ set.timeout = TimeoutAsked(opts, read)
         /\ set.unlink = (Given(opts, "k") = {}) /\ set.links = (Given(opts, "l") # {})

\* The options that getopt has returned, with what remains for it, are those
\* that the command line means.
OptionsTaken ==
    \E f, opts :
        /\ Solves(Character, argv, Takes, f) /\ Asked = f[1]
        /\ opts \in Seq(OptOf(Character)) /\ GetoptOK(Character, argv, g)
        /\ Asked.opts = opts \o Remains(argv, Takes, f, g).opts
        /\ Asked.operands = Remains(argv, Takes, f, g).operands
        /\ SaidBy(opts, <<>>)

Read(n) == [i \in 1 .. n |-> Configs[Words[i]]]

\* The first n operands are on the list.
UrlsListed(n) ==
    /\ prog = "get-comics" =>
         \A i \in 1 .. n : \A k \in DOMAIN Configs[Words[i]].comics :
             \E c \in DOMAIN comics : comics[c].url = Configs[Words[i]].comics[k].url
    /\ prog = "http-get" =>
         \A i \in 1 .. n : \E c \in DOMAIN comics : comics[c].url = Head(Words[i])

TypesInv ==
    /\ g.optind \in 1 .. Len(argv) + 1 /\ operand \in 0 .. Len(Words)
    /\ set.threads \in Int /\ set.timeout \in Int /\ exit \in {Running, 0, 1}
    /\ unique = Regexps(comics)

SettingsInv ==
    /\ TypesInv
    /\ pc = "options" => operand = 0 /\ OptionsTaken
    /\ pc = "operands" =>
         Asked.operands = Operands /\ SaidBy(Asked.opts, Read(operand)) /\ UrlsListed(operand)
    /\ pc = "loop" => Settled

\* What is assumed of command lines, of the one that runs.
LEMMA CommandLine ==
    ASSUME OptionsInv
    PROVE  /\ argv \in Seq(Seq(Character)) /\ Len(argv) \in Nat
           /\ \A i \in 1 .. Len(argv) : argv[i] # <<>>
           /\ "null" \notin Character /\ NoTag \notin Character
           /\ prog \in {"get-comics", "http-get", "link-check"}
           /\ "?" \notin DOMAIN Takes /\ "end" \notin DOMAIN Takes
<1>1. prog \in {"get-comics", "http-get", "link-check"}
  BY ProgramsAssumption DEF OptionsInv, prog
<1>2. argv \in Seq(Seq(Character) \ {<<>>})
  BY ProgramsAssumption DEF OptionsInv, argv
<1>3. "null" \notin Character /\ NoTag \notin Character
  BY DEF Character
<1>4. "?" \notin DOMAIN Takes /\ "end" \notin DOMAIN Takes
  BY <1>1 DEF Takes, Optstring
<1>. HIDE DEF Character, argv
<1>5. PICK w : w = argv
  OBVIOUS
<1>6. w \in Seq(Seq(Character)) /\ Len(w) \in Nat /\ \A i \in 1 .. Len(w) : w[i] # <<>>
  <2>1. \A i \in 1 .. Len(w) : w[i] \in Seq(Character) \ {<<>>}
    BY <1>2, <1>5
  <2>2. w \in Seq(Seq(Character))
    BY <1>2, <1>5, SeqMonotonic
  <2>. QED
    BY <2>1, <2>2
<1>. QED
  BY <1>1, <1>3, <1>4, <1>5, <1>6

\* Nothing is taken yet.
LEMMA NothingTaken ==
    (OptionsInv /\ g = Getopt0 /\ set = Setting0) => OptionsTaken
<1>. SUFFICES ASSUME OptionsInv, g = Getopt0, set = Setting0 PROVE OptionsTaken
  OBVIOUS
<1>1. argv \in Seq(Seq(Character)) /\ Len(argv) \in Nat
  BY CommandLine
<1>2. PICK f : Solves(Character, argv, Takes, f) /\ Asked = f[1]
  BY <1>1, MeaningSolved DEF Asked
<1>3. g.optind = 1 /\ g.argptr = NoWord /\ DOMAIN g = {"optind", "argptr", "ret", "optarg"}
  BY DEF Getopt0
<1>4. GetoptOK(Character, argv, g)
  BY <1>1, <1>3 DEF GetoptOK
<1>5. Remains(argv, Takes, f, g) = Asked
  BY <1>2, <1>3 DEF Remains
<1>6. Asked.opts \in Seq(OptOf(Character))
  <2>1. 1 \in 1 .. Len(argv) + 1
    BY <1>1
  <2>2. f[1] \in MeaningOf(Character)
    BY <1>2, <2>1 DEF Solves
  <2>. QED
    BY <1>2, <2>2 DEF MeaningOf
<1>7. <<>> \in Seq(OptOf(Character)) /\ Asked.opts = <<>> \o Asked.opts
  BY <1>6, ConcatEmptySeq
<1>8. SaidBy(<<>>, <<>>)
  <2>1. \A letter : Given(<<>>, letter) = {}
    BY DEF Given
  <2>2. /\ set.dir = NoTag /\ set.threadsSet = FALSE /\ set.threads = ThreadLimit
        /\ set.unlink = TRUE /\ set.links = FALSE /\ set.timeout = SocketTimeout
    BY DEF Setting0
  <2>3. DirRead(<<>>) = NoTag /\ ThreadsRead(<<>>) = ThreadLimit
        /\ TimeoutAsked(<<>>, <<>>) = SocketTimeout
    BY <2>1, EmptyList, NothingRead
  <2>. QED
    BY <2>1, <2>2, <2>3 DEF SaidBy
<1>. QED
  BY <1>2, <1>4, <1>5, <1>7, <1>8 DEF OptionsTaken

\* What a configuration or an option says of threads is a number.
LEMMA NumbersGiven ==
    /\ \A word : Number(word) \in Int
    /\ \A c \in DOMAIN Configs : Configs[c].threads \in Int /\ Configs[c].timeout \in Int
<1>1. \A word : Number(word) \in Int
  BY ProgramsAssumption DEF Number
<1>2. \A c \in DOMAIN Configs : Configs[c].threads \in Int /\ Configs[c].timeout \in Int
  BY ProgramsAssumption DEF Config
<1>. QED
  BY <1>1, <1>2

\* One more option: what is set is what all of them say.
LEMMA OneMoreSaid ==
    ASSUME OptionsInv, NEW opts \in Seq(OptOf(Character)), SaidBy(opts, <<>>),
           NEW letter \in DOMAIN Takes, letter # "h", letter \in Character, NEW arg,
           arg \in Seq(Character) \cup {NoWord},
           Takes[letter] => IsArgument(Character, argv, arg),
           set' = OptionSet(letter, arg), run' = run
    PROVE  SaidBy(Append(opts, Opt(letter, arg)), <<>>)'
<1>. DEFINE o == Opt(letter, arg)
            more == Append(opts, o)
<1>1. o \in OptOf(Character) /\ o.letter = letter /\ o.arg = arg
  BY DEF OptOf, Opt
<1>. HIDE DEF o
<1>2. /\ \A x : letter # x => Given(more, x) = Given(opts, x)
      /\ \A x : letter # x /\ Given(opts, x) # {} => LastArg(more, x) = LastArg(opts, x)
      /\ Given(more, letter) # {} /\ LastArg(more, letter) = arg
  BY <1>1, OneMoreGiven
<1>. HIDE DEF more
<1>3. letter # "?"
  BY CommandLine
<1>4. Given(more, "h") = {} /\ Given(more, "?") = {}
  BY <1>2, <1>3 DEF SaidBy
<1>5. prog' = prog
  BY DEF prog
<1>6. ASSUME prog = "get-comics"
      PROVE  /\ set'.dir = IF Given(more, "d") = {} THEN DirRead(<<>>) ELSE Head(LastArg(more, "d"))
             /\ Given(more, "d") # {} => set'.dir # NoTag
             /\ set'.threadsSet = (Given(more, "t") # {})
             /\ set'.threads = IF Given(more, "t") = {} THEN ThreadsRead(<<>>)
                               ELSE Number(LastArg(more, "t"))
             /\ set'.timeout = TimeoutAsked(more, <<>>)
             /\ set'.unlink = (Given(more, "k") = {}) /\ set'.links = (Given(more, "l") # {})
  <2>1. letter \in {"c", "k", "v", "V", "d", "i", "l", "t", "T"}
    BY <1>6 DEF Takes, Optstring
  <2>2. set' = GetComicsSet(letter, arg) /\ DOMAIN set = Fields
    BY <1>6 DEF OptionSet, OptionsInv
  <2>3. /\ set'.dir = IF letter = "d" THEN Head(arg) ELSE set.dir
        /\ set'.threadsSet = IF letter = "t" THEN TRUE ELSE set.threadsSet
        /\ set'.threads = IF letter = "t" THEN Number(arg) ELSE set.threads
        /\ set'.timeout = IF letter = "T" THEN Number(arg) ELSE set.timeout
        /\ set'.unlink = IF letter = "k" THEN FALSE ELSE set.unlink
        /\ set'.links = IF letter = "l" THEN TRUE ELSE set.links
    <3>1. \/ /\ letter \in {"c", "i", "v", "V"}
             /\ set' \in {set, [set EXCEPT !.clean = TRUE], [set EXCEPT !.index = Head(arg)],
                          [set EXCEPT !.verify = TRUE]}
          \/ letter = "T" /\ set' = [set EXCEPT !.timeout = Number(arg)]
          \/ letter = "d" /\ set' = [set EXCEPT !.dir = Head(arg)]
          \/ letter = "k" /\ set' = [set EXCEPT !.unlink = FALSE]
          \/ letter = "l" /\ set' = [set EXCEPT !.links = TRUE]
          \/ letter = "t" /\ set' = [set EXCEPT !.threads = Number(arg), !.threadsSet = TRUE]
      BY <2>1, <2>2 DEF GetComicsSet
    <3>. QED
      BY <2>2, <3>1 DEF Fields
  <2>4. letter = "d" => Head(arg) # NoTag
    <3>. SUFFICES ASSUME letter = "d" PROVE Head(arg) # NoTag
      OBVIOUS
    <3>1. Takes["d"]
      BY <1>6 DEF Takes, Optstring
    <3>2. arg \in Seq(Character) /\ arg # <<>>
      BY <3>1, CommandLine DEF IsArgument
    <3>3. Head(arg) \in Character
      BY <3>2
    <3>. QED
      BY <3>3, CommandLine
  <2>5. /\ set.dir = IF Given(opts, "d") = {} THEN DirRead(<<>>) ELSE Head(LastArg(opts, "d"))
        /\ Given(opts, "d") # {} => set.dir # NoTag
        /\ set.threadsSet = (Given(opts, "t") # {})
        /\ set.threads = IF Given(opts, "t") = {} THEN ThreadsRead(<<>>)
                         ELSE Number(LastArg(opts, "t"))
        /\ set.timeout = TimeoutAsked(opts, <<>>)
        /\ set.unlink = (Given(opts, "k") = {}) /\ set.links = (Given(opts, "l") # {})
    BY <1>6 DEF SaidBy
  <2>6. /\ set'.dir = IF Given(more, "d") = {} THEN DirRead(<<>>) ELSE Head(LastArg(more, "d"))
        /\ Given(more, "d") # {} => set'.dir # NoTag
    <3>1. CASE letter = "d"
      BY <1>2, <2>3, <2>4, <3>1
    <3>2. CASE letter # "d"
      BY <1>2, <2>3, <2>5, <3>2
    <3>. QED
      BY <3>1, <3>2
  <2>7. /\ set'.threadsSet = (Given(more, "t") # {})
        /\ set'.threads = IF Given(more, "t") = {} THEN ThreadsRead(<<>>)
                          ELSE Number(LastArg(more, "t"))
    <3>1. CASE letter = "t"
      BY <1>2, <2>3, <3>1
    <3>2. CASE letter # "t"
      BY <1>2, <2>3, <2>5, <3>2
    <3>. QED
      BY <3>1, <3>2
  <2>8. set'.unlink = (Given(more, "k") = {}) /\ set'.links = (Given(more, "l") # {})
    BY <1>2, <2>3, <2>5
  <2>9. set'.timeout = TimeoutAsked(more, <<>>)
    <3>1. \A o2 : TimeoutAsked(o2, <<>>) =
                  IF Given(o2, "T") = {} THEN SocketTimeout ELSE Number(LastArg(o2, "T"))
      BY EmptyList, NothingRead
    <3>2. CASE letter = "T"
      BY <1>2, <2>3, <3>1, <3>2
    <3>3. CASE letter # "T"
      <4>1. set'.timeout = TimeoutAsked(opts, <<>>)
        BY <2>3, <2>5, <3>3
      <4>2. TimeoutAsked(more, <<>>) = TimeoutAsked(opts, <<>>)
        BY <1>2, <3>1, <3>3
      <4>. QED
        BY <4>1, <4>2
    <3>. QED
      BY <3>2, <3>3
  <2>. QED
    BY <2>6, <2>7, <2>8, <2>9
<1>7. SaidBy(more, <<>>)'
  BY <1>4, <1>5, <1>6 DEF SaidBy
<1>. QED
  BY <1>7 DEF more, o

\* Its numbers are numbers.
LEMMA NumbersSet ==
    ASSUME OptionsInv, set.threads \in Int, set.timeout \in Int,
           NEW letter \in DOMAIN Takes, letter # "h", NEW arg, set' = OptionSet(letter, arg)
    PROVE  set'.threads \in Int /\ set'.timeout \in Int
<1>1. PICK n \in Int : n = Number(arg)
  BY NumbersGiven
<1>2. prog \in {"get-comics", "http-get", "link-check"}
  BY CommandLine
<1>3. CASE prog = "get-comics"
  <2>1. letter \in {"c", "k", "v", "V", "d", "i", "l", "t", "T"}
    BY <1>3 DEF Takes, Optstring
  <2>2. set' = GetComicsSet(letter, arg)
    BY <1>3 DEF OptionSet
  <2>. QED
    BY <1>1, <2>1, <2>2 DEF GetComicsSet, OptionsInv, Fields
<1>4. CASE prog = "http-get"
  <2>1. letter \in {"u", "U", "v", "l", "r", "R", "t", "T"}
    BY <1>4 DEF Takes, Optstring
  <2>2. set' = HttpGetSet(letter, arg)
    BY <1>4 DEF OptionSet
  <2>. QED
    BY <1>1, <2>1, <2>2 DEF HttpGetSet, OptionsInv, Fields
<1>5. CASE prog = "link-check"
  <2>1. letter \in {"v", "t", "T"}
    BY <1>5 DEF Takes, Optstring
  <2>2. set' = LinkCheckSet(letter, arg)
    BY <1>5 DEF OptionSet
  <2>. QED
    BY <1>1, <2>1, <2>2 DEF LinkCheckSet, OptionsInv, Fields
<1>. QED
  BY <1>2, <1>3, <1>4, <1>5

\* How many words there are to take.
LEMMA WordsToTake ==
    ASSUME NEW words \in Seq(Seq(Character)), NEW n \in 1 .. Len(words) + 1
    PROVE  /\ SubSeq(words, n, Len(words)) \in Seq(Seq(Character))
           /\ Len(SubSeq(words, n, Len(words))) \in Nat
<1>1. Len(words) \in Nat /\ \A i \in n .. Len(words) : words[i] \in Seq(Character)
  OBVIOUS
<1>2. SubSeq(words, n, Len(words)) \in Seq(Seq(Character))
  BY <1>1, SubSeqProperties
<1>. QED
  BY <1>2

LEMMA WordsCount ==
    (OptionsInv /\ g.optind \in 1 .. Len(argv) + 1) =>
        /\ Len(Words) \in Nat /\ DOMAIN Words = 1 .. Len(Words)
        /\ Operands \in Seq(Seq(Character)) /\ Len(Operands) \in Nat
        /\ DOMAIN Operands = 1 .. Len(Operands)
<1>. SUFFICES ASSUME OptionsInv, g.optind \in 1 .. Len(argv) + 1
              PROVE  /\ Len(Words) \in Nat /\ DOMAIN Words = 1 .. Len(Words)
                     /\ Operands \in Seq(Seq(Character)) /\ Len(Operands) \in Nat
                     /\ DOMAIN Operands = 1 .. Len(Operands)
  OBVIOUS
<1>1. Operands \in Seq(Seq(Character)) /\ Len(Operands) \in Nat
  BY CommandLine, WordsToTake DEF Operands
<1>2. DOMAIN Operands = 1 .. Len(Operands)
  BY <1>1
<1>3. Len(<<Default>>) = 1 /\ DOMAIN <<Default>> = 1 .. 1
  OBVIOUS
<1>4. Words = Operands \/ Words = <<Default>>
  BY DEF Words
<1>. HIDE DEF Operands, Words
<1>. QED
  BY <1>1, <1>2, <1>3, <1>4

LEMMA WordsCountNext ==
    ASSUME OptionsInv', run' = run, g'.optind \in 1 .. Len(argv) + 1
    PROVE  Len(Words') \in Nat
<1>1. (OptionsInv /\ g.optind \in 1 .. Len(argv) + 1 => Len(Words) \in Nat)'
  BY WordsCount, PTL
<1>2. argv' = argv
  BY DEF argv
<1>. QED
  BY <1>1, <1>2

\* An option is one of those the command line means, and does what it means; after the
\* last of them what getopt leaves are the operands.
LEMMA OptionSettings ==
    ASSUME ProgramsInv, SettingsInv, Option
    PROVE  SettingsInv'
<1>1. /\ OptionsInv /\ ListInv /\ OptionsInv'
      /\ pc = "options" /\ operand = 0 /\ operand' = 0 /\ run' = run
      /\ g' = Getopt(g, argv, Takes)
  BY OptionKeeps DEF ProgramsInv, SettingsInv, Option
<1>2. argv' = argv /\ prog' = prog /\ Takes' = Takes /\ Asked' = Asked
  BY <1>1 DEF argv, prog, Takes, Asked
<1>3. PICK f, opts :
        /\ Solves(Character, argv, Takes, f) /\ Asked = f[1]
        /\ opts \in Seq(OptOf(Character)) /\ GetoptOK(Character, argv, g)
        /\ Asked.opts = opts \o Remains(argv, Takes, f, g).opts
        /\ Asked.operands = Remains(argv, Takes, f, g).operands
        /\ SaidBy(opts, <<>>)
  BY <1>1 DEF SettingsInv, OptionsTaken
<1>4. PICK m : m = Remains(argv, Takes, f, g)
  OBVIOUS
<1>5. Takes1(Character, argv, Takes, f, m, g')
  BY <1>1, <1>3, <1>4, CommandLine, GetoptTakes
<1>6. g'.ret \in DOMAIN Takes \cup {"?", "end"} /\ g'.optind \in 1 .. Len(argv) + 1
  BY <1>5 DEF Takes1
<1>7. Len(Words') \in Nat /\ operand' \in 0 .. Len(Words')
  BY <1>1, <1>6, WordsCountNext
<1>8. /\ g'.optind \in 1 .. Len(argv') + 1 /\ operand' \in 0 .. Len(Words')
      /\ set.threads \in Int /\ set.timeout \in Int /\ exit \in {Running, 0, 1}
      /\ unique = Regexps(comics)
  BY <1>2, <1>6, <1>7 DEF SettingsInv, TypesInv
<1>9. CASE (\E status \in {0, 1} : Stop(status)) /\ UNCHANGED <<set, comics, unique, disk>>
  <2>1. TypesInv' /\ pc' = "stopped"
    BY <1>8, <1>9 DEF TypesInv, Stop, Regexps
  <2>. QED
    BY <2>1 DEF SettingsInv
<1>10. CASE g'.ret = "end" /\ pc' = "operands" /\ UNCHANGED <<exit, set, comics, unique, disk>>
  <2>1. TypesInv'
    BY <1>8, <1>10 DEF TypesInv, Regexps
  <2>2. m = [opts |-> <<>>, operands |-> SubSeq(argv, g'.optind, Len(argv))]
    BY <1>5, <1>10 DEF Takes1
  <2>3. Asked.operands = SubSeq(argv, g'.optind, Len(argv)) /\ m.opts = <<>>
    <3>1. PICK l : l = SubSeq(argv, g'.optind, Len(argv))
      OBVIOUS
    <3>2. m = [opts |-> <<>>, operands |-> l]
      BY <2>2, <3>1
    <3>3. m.opts = <<>> /\ m.operands = l
      BY <3>2
    <3>4. Asked.operands = m.operands
      BY <1>3, <1>4
    <3>. QED
      BY <3>1, <3>3, <3>4
  <2>4. Asked.opts = opts
    <3>1. opts \o <<>> = opts
      BY <1>3, ConcatEmptySeq
    <3>2. Asked.opts = opts \o m.opts
      BY <1>3, <1>4
    <3>. QED
      BY <2>3, <3>1, <3>2
  <2>5. Asked'.operands = Operands'
    BY <1>2, <2>3 DEF Operands
  <2>6. SaidBy(opts, <<>>)'
    BY <1>1, <1>2, <1>3, <1>10 DEF SaidBy
  <2>7. Read(operand)' = <<>>
    <3>1. Read(0)' = <<>>
      BY DEF Read
    <3>. QED
      BY <1>1, <3>1 DEF Read
  <2>8. SaidBy(Asked.opts, Read(operand))'
    BY <1>2, <2>4, <2>6, <2>7 DEF SaidBy
  <2>9. UrlsListed(operand)'
    BY <1>1 DEF UrlsListed
  <2>. QED
    BY <1>10, <2>1, <2>5, <2>8, <2>9 DEF SettingsInv
<1>11. CASE /\ g'.ret \notin {"h", "?", "end"}
            /\ set' = OptionSet(g'.ret, g'.optarg)
            /\ IF prog = "http-get" /\ g'.ret = "l" THEN HttpGetList(g'.optarg)
               ELSE UNCHANGED <<comics, unique>>
            /\ disk' = IF prog = "get-comics" /\ g'.ret = "l"
                       THEN Put(disk, File("/", g'.optarg), <<"links">>) ELSE disk
            /\ UNCHANGED <<pc, exit>>
  <2>1. PICK letter, arg : letter = g'.ret /\ arg = g'.optarg
    OBVIOUS
  <2>2. letter \in DOMAIN Takes /\ letter # "h" /\ set' = OptionSet(letter, arg)
    BY <1>6, <1>11, <2>1
  <2>3. PICK r : r = Remains(argv, Takes, f, g')
    OBVIOUS
  <2>4. /\ GetoptOK(Character, argv, g') /\ letter \in Character
        /\ arg \in Seq(Character) \cup {NoWord}
        /\ Takes[letter] => IsArgument(Character, argv, arg)
        /\ m.opts = <<Opt(letter, arg)>> \o r.opts /\ m.operands = r.operands
    BY <1>5, <2>1, <2>2, <2>3 DEF Takes1
  <2>5. SaidBy(Append(opts, Opt(letter, arg)), <<>>)'
    BY <1>1, <1>3, <2>2, <2>4, OneMoreSaid
  <2>6. unique' = Regexps(comics')
    <3>1. CASE HttpGetList(arg) /\ arg \in DOMAIN Lists
      <4>1. Add(GetUrls(Lists[arg]), ".")
        BY <3>1 DEF HttpGetList
      <4>2. IsList(comics)
        BY <1>1 DEF ListInv
      <4>3. IsList(GetUrls(Lists[arg]))
            /\ \A i \in DOMAIN GetUrls(Lists[arg]) : EntryOK(GetUrls(Lists[arg])[i])
        BY <1>1, <3>1, <4>2, LinkLists
      <4>. QED
        BY <1>1, <1>8, <4>1, <4>3, AddUrls
    <3>2. CASE HttpGetList(arg) /\ arg \notin DOMAIN Lists
      BY <1>8, <3>2 DEF HttpGetList, Regexps
    <3>3. CASE UNCHANGED <<comics, unique>>
      BY <1>8, <3>3 DEF Regexps
    <3>. QED
      BY <1>11, <2>1, <3>1, <3>2, <3>3
  <2>7. TypesInv'
    <3>1. set'.threads \in Int /\ set'.timeout \in Int
      BY <1>1, <1>8, <2>2, NumbersSet
    <3>. QED
      BY <1>8, <1>11, <2>6, <3>1 DEF TypesInv
  <2>8. OptionsTaken'
    <3>1. PICK more : more = Append(opts, Opt(letter, arg))
      OBVIOUS
    <3>2. PICK o \in OptOf(Character) : o = Opt(letter, arg)
      BY <2>4 DEF OptOf, Opt
    <3>3. more \in Seq(OptOf(Character)) /\ more = opts \o <<o>> /\ <<o>> \in Seq(OptOf(Character))
      BY <1>3, <3>1, <3>2, AppendIsConcat
    <3>4. r \in MeaningOf(Character)
      <4>1. CASE g'.argptr = NoWord
        <5>1. r = f[g'.optind]
          BY <2>3, <4>1 DEF Remains
        <5>. QED
          BY <1>3, <1>6, <5>1 DEF Solves
      <4>2. CASE g'.argptr # NoWord
        <5>1. g'.argptr \in Seq(Character) /\ g'.optind \in 1 .. Len(argv)
          BY <2>4, <4>2 DEF GetoptOK
        <5>2. r = InWord(argv, Takes, f, g'.argptr, g'.optind)
          BY <2>3, <4>2 DEF Remains
        <5>3. Follows(Character, argv, f, g'.optind)
          BY <1>1, <1>3, <5>1, CommandLine, FollowsAll
        <5>. QED
          BY <1>1, <5>1, <5>2, <5>3, CommandLine, InWordType
      <4>. QED
        BY <4>1, <4>2
    <3>5. r.opts \in Seq(OptOf(Character))
      BY <3>4 DEF MeaningOf
    <3>6. Asked.opts = opts \o (<<o>> \o r.opts)
      BY <1>3, <1>4, <2>4, <3>2
    <3>7. opts \o (<<o>> \o r.opts) = (opts \o <<o>>) \o r.opts
      <4>1. PICK P, x : P = OptOf(Character) /\ x = r.opts
        OBVIOUS
      <4>2. opts \in Seq(P) /\ <<o>> \in Seq(P) /\ x \in Seq(P)
        BY <1>3, <3>3, <3>5, <4>1
      <4>3. opts \o (<<o>> \o x) = (opts \o <<o>>) \o x
        BY <4>2, ConcatAssociative
      <4>. QED
        BY <4>1, <4>3
    <3>8. Asked.opts = more \o r.opts /\ Asked.operands = r.operands
      BY <1>3, <1>4, <2>4, <3>3, <3>6, <3>7
    <3>. QED
      BY <1>2, <1>3, <2>3, <2>4, <2>5, <3>1, <3>3, <3>8 DEF OptionsTaken
  <2>. QED
    BY <1>1, <1>11, <2>7, <2>8 DEF SettingsInv
<1>. QED
  <2>1. Stop(0) \/ Stop(1) => \E status \in {0, 1} : Stop(status)
    OBVIOUS
  <2>. QED
    BY <1>9, <1>10, <1>11, <2>1 DEF Option

\* The configurations are read one after the other.
LEMMA ReadSettings ==
    ASSUME OptionsInv, set.threads \in Int, set.timeout \in Int,
           NEW opts, SaidBy(opts, Read(operand)), operand \in Nat,
           Word \in DOMAIN Configs, ReadConfig(Configs[Word]),
           operand' = operand + 1, UNCHANGED <<run, g>>
    PROVE  SaidBy(opts, Read(operand))' /\ set'.threads \in Int /\ set'.timeout \in Int
<1>1. prog' = prog /\ Words' = Words
  BY DEF prog, Words, Operands, argv
<1>2. PICK c, n : c = Configs[Word] /\ n = operand /\ n \in Nat
  OBVIOUS
<1>3. set' = [set EXCEPT
                 !.dir = IF @ = NoTag THEN c.dir ELSE @,
                 !.threads = IF set.threadsSet \/ c.threads = NoThreads THEN @ ELSE c.threads,
                 !.timeout = IF c.timeout = NoTimeout THEN @ ELSE c.timeout]
  BY <1>2 DEF ReadConfig
<1>4. DOMAIN set = Fields
  BY DEF OptionsInv
<1>5. /\ set'.dir = IF set.dir = NoTag THEN c.dir ELSE set.dir
      /\ set'.threads = IF set.threadsSet \/ c.threads = NoThreads THEN set.threads ELSE c.threads
      /\ set'.timeout = IF c.timeout = NoTimeout THEN set.timeout ELSE c.timeout
      /\ set'.threadsSet = set.threadsSet /\ set'.unlink = set.unlink /\ set'.links = set.links
  BY <1>3, <1>4 DEF Fields
<1>6. c.threads \in Int /\ c.timeout \in Int
  BY <1>2, NumbersGiven
<1>7. set'.threads \in Int /\ set'.timeout \in Int
  BY <1>5, <1>6
<1>8. PICK read, more : read = Read(n) /\ more = Read(n + 1)
  OBVIOUS
<1>9. Read(operand)' = more
  BY <1>1, <1>2, <1>8 DEF Read
<1>10. /\ DOMAIN read = 1 .. n /\ DOMAIN more = 1 .. n + 1
       /\ \A i \in 1 .. n : more[i] = read[i]
       /\ more[n + 1] = c
  BY <1>2, <1>8 DEF Read, Word
<1>11. /\ DirRead(more) = IF DirRead(read) = NoTag THEN c.dir ELSE DirRead(read)
       /\ ThreadsRead(more) = IF c.threads = NoThreads THEN ThreadsRead(read) ELSE c.threads
       /\ TimeoutAsked(opts, more) =
            IF c.timeout = NoTimeout THEN TimeoutAsked(opts, read) ELSE c.timeout
  <2>1. n \in Nat /\ DOMAIN read = 1 .. n /\ DOMAIN more = 1 .. n + 1
        /\ \A i \in 1 .. n : more[i] = read[i]
    BY <1>2, <1>10
  <2>2. /\ DirRead(more) = IF DirRead(read) = NoTag THEN more[n + 1].dir ELSE DirRead(read)
        /\ ThreadsRead(more) =
             IF more[n + 1].threads = NoThreads THEN ThreadsRead(read) ELSE more[n + 1].threads
        /\ TimeoutAsked(opts, more) =
             IF more[n + 1].timeout = NoTimeout THEN TimeoutAsked(opts, read)
             ELSE more[n + 1].timeout
    BY <2>1, OneMoreRead
  <2>. QED
    BY <1>10, <2>2
<1>12. SaidBy(opts, read)
  BY <1>2, <1>8
<1>13. SaidBy(opts, more)'
  BY <1>1, <1>5, <1>11, <1>12 DEF SaidBy
<1>. QED
  BY <1>7, <1>9, <1>13 DEF SaidBy

\* An operand is read after those before it.
LEMMA OperandSettings ==
    ASSUME ProgramsInv, SettingsInv, ConfigOperand \/ UrlOperand \/ ListOperand
    PROVE  SettingsInv'
<1>1. /\ OptionsInv /\ ListInv /\ IsList(comics) /\ TypesInv
      /\ pc = "operands" /\ operand < Len(Words) /\ operand' = operand + 1 /\ UNCHANGED <<run, g>>
      /\ Asked.operands = Operands /\ SaidBy(Asked.opts, Read(operand)) /\ UrlsListed(operand)
  BY DEF ProgramsInv, ListInv, SettingsInv, ConfigOperand, UrlOperand, ListOperand, Takeable
<1>2. /\ prog' = prog /\ argv' = argv /\ Words' = Words /\ Operands' = Operands /\ Asked' = Asked
      /\ Word' = Words[operand' + 1]
  BY <1>1 DEF argv, prog, Takes, Asked, Words, Operands, Word
<1>3. Len(Words) \in Nat /\ operand \in Nat /\ operand' \in 0 .. Len(Words') /\ operand' \in Nat
  BY <1>1, <1>2, WordsCount DEF TypesInv
<1>4. g'.optind \in 1 .. Len(argv') + 1
  BY <1>1, <1>2 DEF TypesInv
<1>5. CASE ConfigOperand /\ Word \in DOMAIN Configs /\ Configs[Word].ok
  <2>1. ReadConfig(Configs[Word]) /\ UNCHANGED <<pc, exit>> /\ prog = "get-comics"
    BY <1>5 DEF ConfigOperand, Takeable
  <2>2. PICK e, index : e = Configs[Word].comics /\ Add(e, index)
    BY <2>1 DEF ReadConfig
  <2>3. IsList(e) /\ \A i \in DOMAIN e : EntryOK(e[i])
    BY <1>5, <2>2, ConfigLists
  <2>4. /\ unique' = Regexps(comics')
        /\ \A i \in DOMAIN comics : i \in DOMAIN comics' /\ comics'[i] = comics[i]
        /\ \A i \in DOMAIN e : \E k \in DOMAIN comics' : comics'[k].url = e[i].url
    BY <1>1, <2>2, <2>3, AddUrls DEF TypesInv
  <2>5. SaidBy(Asked.opts, Read(operand))' /\ set'.threads \in Int /\ set'.timeout \in Int
    <3>1. PICK opts : opts = Asked.opts
      OBVIOUS
    <3>2. SaidBy(opts, Read(operand))' /\ set'.threads \in Int /\ set'.timeout \in Int
      BY <1>1, <1>3, <1>5, <2>1, <3>1, ReadSettings DEF TypesInv
    <3>3. Asked'.opts = opts
      BY <1>2, <3>1
    <3>. QED
      BY <3>2, <3>3 DEF SaidBy
  <2>6. TypesInv'
    BY <1>1, <1>3, <1>4, <2>1, <2>4, <2>5 DEF TypesInv
  <2>7. UrlsListed(operand)'
    <3>. SUFFICES ASSUME NEW i \in 1 .. operand', NEW k \in DOMAIN Configs[Words[i]].comics
                  PROVE  \E c \in DOMAIN comics' : comics'[c].url = Configs[Words[i]].comics[k].url
      BY <1>2, <2>1 DEF UrlsListed
    <3>1. CASE i \in 1 .. operand
      <4>1. PICK c \in DOMAIN comics : comics[c].url = Configs[Words[i]].comics[k].url
        BY <1>1, <2>1, <3>1 DEF UrlsListed
      <4>. QED
        BY <2>4, <4>1
    <3>2. CASE i = operand + 1
      BY <2>2, <2>4, <3>2 DEF Word
    <3>. QED
      BY <1>1, <1>3, <3>1, <3>2
  <2>. QED
    BY <1>1, <1>2, <2>1, <2>5, <2>6, <2>7 DEF SettingsInv
<1>6. CASE ConfigOperand /\ ~(Word \in DOMAIN Configs /\ Configs[Word].ok)
  <2>1. Stop(1) /\ UNCHANGED <<set, comics, unique>>
    BY <1>6 DEF ConfigOperand
  <2>2. TypesInv'
    BY <1>1, <1>3, <1>4, <2>1 DEF TypesInv, Stop, Regexps
  <2>. QED
    BY <2>1, <2>2 DEF SettingsInv, Stop
<1>7. CASE UrlOperand \/ ListOperand
  <2>1. prog # "get-comics" /\ UNCHANGED <<pc, set, exit>>
    BY <1>7 DEF UrlOperand, ListOperand, Takeable
  <2>2. /\ unique' = Regexps(comics')
        /\ \A i \in DOMAIN comics : i \in DOMAIN comics' /\ comics'[i] = comics[i]
        /\ prog = "http-get" => \E k \in DOMAIN comics' : comics'[k].url = Head(Word)
    <3>1. CASE UrlOperand
      <4>1. Add(GetUrls(<<Head(Word)>>), ".")
        BY <3>1 DEF UrlOperand
      <4>2. PICK e : e = GetUrls(<<Head(Word)>>)
        OBVIOUS
      <4>3. IsList(e) /\ \A i \in DOMAIN e : EntryOK(e[i])
        BY <1>1, <4>2, LinkLists
      <4>4. 1 \in DOMAIN e /\ e[1].url = Head(Word)
        BY <4>2 DEF GetUrls
      <4>5. /\ unique' = Regexps(comics')
            /\ \A i \in DOMAIN comics : i \in DOMAIN comics' /\ comics'[i] = comics[i]
            /\ \A i \in DOMAIN e : \E k \in DOMAIN comics' : comics'[k].url = e[i].url
        BY <1>1, <4>1, <4>2, <4>3, AddUrls DEF TypesInv
      <4>. QED
        BY <4>4, <4>5
    <3>2. CASE ListOperand
      <4>1. prog = "link-check" /\ LinkCheckList(Word)
        BY <3>2 DEF ListOperand, Takeable
      <4>2. CASE Word \in DOMAIN Lists
        <5>1. Add(CheckUrls(Lists[Word]), ".")
          BY <4>1, <4>2 DEF LinkCheckList
        <5>2. IsList(CheckUrls(Lists[Word]))
              /\ \A i \in DOMAIN CheckUrls(Lists[Word]) : EntryOK(CheckUrls(Lists[Word])[i])
          BY <1>1, <4>2, LinkLists
        <5>. QED
          BY <1>1, <4>1, <5>1, <5>2, AddUrls DEF TypesInv
      <4>3. CASE Word \notin DOMAIN Lists
        BY <1>1, <4>1, <4>3 DEF LinkCheckList, TypesInv, Regexps
      <4>. QED
        BY <4>2, <4>3
    <3>. QED
      BY <1>7, <3>1, <3>2
  <2>3. TypesInv'
    BY <1>1, <1>3, <1>4, <2>1, <2>2 DEF TypesInv
  <2>4. SaidBy(Asked.opts, Read(operand))'
    BY <1>1, <1>2, <2>1 DEF SaidBy
  <2>5. UrlsListed(operand)'
    <3>. SUFFICES ASSUME prog = "http-get", NEW i \in 1 .. operand'
                  PROVE  \E c \in DOMAIN comics' : comics'[c].url = Head(Words[i])
      BY <1>2, <2>1 DEF UrlsListed
    <3>1. CASE i \in 1 .. operand
      <4>1. PICK c \in DOMAIN comics : comics[c].url = Head(Words[i])
        BY <1>1, <3>1 DEF UrlsListed
      <4>. QED
        BY <2>2, <4>1
    <3>2. CASE i = operand + 1
      BY <2>2, <3>2 DEF Word
    <3>. QED
      BY <1>1, <1>3, <3>1, <3>2
  <2>. QED
    BY <1>1, <1>2, <2>1, <2>3, <2>4, <2>5 DEF SettingsInv
<1>. QED
  BY <1>5, <1>6, <1>7

-----------------------------------------------------------------------------
(* What the loop begins with.                                              *)

\* Settled, by what it depends on.
ReadAll ==
    LET words == IF Asked.operands = <<>> THEN <<Default>> ELSE Asked.operands
    IN [i \in DOMAIN words |-> Configs[words[i]]]

IsListed(list, url) == \E c \in DOMAIN list : list[c].url = url

IsSettled(p, s, list, opts, operands, read) ==
    /\ Given(opts, "h") = {} /\ Given(opts, "?") = {}
    /\ p = "get-comics" =>
         /\ s.dir = DirAsked(opts, read)
         /\ s.threads = IF ThreadsAsked(opts, read) > Len(list) THEN Len(list)
                        ELSE ThreadsAsked(opts, read)
         /\ s.timeout = TimeoutAsked(opts, read)
         /\ s.unlink = (Given(opts, "k") = {}) /\ s.links = (Given(opts, "l") # {})
         /\ \A i \in DOMAIN read : \A k \in DOMAIN read[i].comics :
              IsListed(list, read[i].comics[k].url)
    /\ p = "http-get" => \A i \in DOMAIN operands : IsListed(list, Head(operands[i]))

LEMMA SettledBy == Settled <=> IsSettled(prog, set, comics, Asked.opts, Asked.operands, ReadAll)
BY DEF Settled, IsSettled, IsListed, ReadAll

LEMMA SettledByNext ==
    ASSUME NEW opts, NEW operands, NEW read,
           Asked'.opts = opts, Asked'.operands = operands, ReadAll' = read
    PROVE  Settled' <=> IsSettled(prog', set', comics', opts, operands, read)
<1>1. (Settled <=> IsSettled(prog, set, comics, Asked.opts, Asked.operands, ReadAll))'
  BY SettledBy, PTL
<1>2. Settled' <=> IsSettled(prog', set', comics', Asked'.opts, Asked'.operands, ReadAll')
  BY <1>1 DEF IsSettled, IsListed, DirAsked, ThreadsAsked, TimeoutAsked, Number
<1>. QED
  BY <1>2

\* All operands are taken: what is set is what was asked for.
LEMMA AllSaid ==
    ASSUME OptionsInv, TypesInv, operand = Len(Words), Asked.operands = Operands,
           NEW opts, SaidBy(opts, Read(operand)), UrlsListed(operand), IsList(comics),
           prog = "get-comics", NEW read, read = ReadAll
    PROVE  /\ ComicsDir = DirAsked(opts, read) /\ set.threads = ThreadsAsked(opts, read)
           /\ set.timeout = TimeoutAsked(opts, read)
           /\ \A i \in DOMAIN read : \A k \in DOMAIN read[i].comics :
                IsListed(comics, read[i].comics[k].url)
<1>1. Len(Words) \in Nat /\ DOMAIN Words = 1 .. Len(Words)
  BY WordsCount DEF TypesInv
<1>2. read = Read(operand)
  BY <1>1 DEF Read, ReadAll, Words
<1>3. /\ set.dir = IF Given(opts, "d") = {} THEN DirRead(read) ELSE Head(LastArg(opts, "d"))
      /\ Given(opts, "d") # {} => set.dir # NoTag
      /\ set.threads = IF Given(opts, "t") = {} THEN ThreadsRead(read) ELSE Number(LastArg(opts, "t"))
      /\ set.timeout = TimeoutAsked(opts, read)
  BY <1>2 DEF SaidBy
<1>4. /\ DOMAIN read = 1 .. operand
      /\ \A i \in 1 .. operand : read[i] = Configs[Words[i]]
  BY <1>2 DEF Read
<1>5. \A i \in DOMAIN read : \A k \in DOMAIN read[i].comics :
        IsListed(comics, read[i].comics[k].url)
  <2>1. \A i \in 1 .. operand : \A k \in DOMAIN Configs[Words[i]].comics :
          IsListed(comics, Configs[Words[i]].comics[k].url)
    BY DEF UrlsListed, IsListed
  <2>. SUFFICES ASSUME NEW i \in DOMAIN read, NEW k \in DOMAIN read[i].comics
                PROVE  IsListed(comics, read[i].comics[k].url)
    OBVIOUS
  <2>2. i \in 1 .. operand /\ read[i] = Configs[Words[i]]
    BY <1>4
  <2>. QED
    BY <2>1, <2>2
<1>6. set.threads = ThreadsAsked(opts, read)
  BY <1>3 DEF ThreadsAsked, ThreadsRead
<1>7. ComicsDir = DirAsked(opts, read)
  <2>. DEFINE say == {i \in DOMAIN read : read[i].dir # NoTag}
              first == CHOOSE i \in say : \A j \in say : i <= j
  <2>1. DirRead(read) = IF say = {} THEN NoTag ELSE read[first].dir
    BY DEF DirRead
  <2>2. DirAsked(opts, read) =
          IF Given(opts, "d") # {} THEN Head(LastArg(opts, "d"))
          ELSE IF say = {} THEN Home ELSE read[first].dir
    BY DEF DirAsked
  <2>3. say # {} => read[first].dir # NoTag
    <3>. SUFFICES ASSUME say # {} PROVE read[first].dir # NoTag
      OBVIOUS
    <3>1. say \in SUBSET Nat
      BY <1>4
    <3>2. PICK m \in say : \A j \in say : m <= j
      <4>. HIDE DEF say
      <4>. QED
        BY <3>1, LeastNatural
    <3>3. first = m
      <4>1. say \subseteq Int
        BY <3>1
      <4>. HIDE DEF say
      <4>. QED
        BY <3>2, <4>1, ChosenLeast
    <3>. HIDE DEF first
    <3>. QED
      BY <3>2, <3>3
  <2>. HIDE DEF say, first
  <2>. QED
    BY <1>3, <2>1, <2>2, <2>3 DEF ComicsDir
<1>. QED
  BY <1>3, <1>5, <1>6, <1>7

\* The loop begins with what was asked for.
LEMMA BeginSettings ==
    ASSUME ProgramsInv, SettingsInv, Begin \/ BeginHere
    PROVE  SettingsInv'
<1>1. /\ OptionsInv /\ IsList(comics) /\ TypesInv
      /\ pc = "operands" /\ operand = Len(Words)
      /\ UNCHANGED <<run, g, operand, comics, unique>>
      /\ Asked.operands = Operands /\ SaidBy(Asked.opts, Read(operand)) /\ UrlsListed(operand)
      /\ pc' \in {"loop", "stopped", "exit"} /\ exit' \in {exit, 0, 1}
  BY SMTT(60) DEF ProgramsInv, ListInv, SettingsInv, Begin, BeginHere, Stop, Exit
<1>2. prog' = prog /\ argv' = argv /\ Words' = Words /\ Asked' = Asked
  BY <1>1 DEF argv, prog, Takes, Asked, Words, Operands
<1>3. Len(comics) \in Nat /\ Threads \in Int
  BY <1>1, ListType DEF TypesInv, Threads
<1>4. /\ set'.threads = Threads /\ set'.timeout = set.timeout /\ set'.unlink = set.unlink
      /\ set'.links = set.links
      /\ Begin => set'.dir = ComicsDir
  BY <1>1 DEF Begin, BeginHere, OptionsInv, Fields
<1>5. TypesInv'
  BY <1>1, <1>2, <1>3, <1>4 DEF TypesInv, Regexps, Running
<1>6. PICK opts, operands, read : opts = Asked.opts /\ operands = Asked.operands /\ read = ReadAll
  OBVIOUS
<1>7. Asked'.opts = opts /\ Asked'.operands = operands /\ ReadAll' = read
  BY <1>2, <1>6 DEF ReadAll
<1>8. Given(opts, "h") = {} /\ Given(opts, "?") = {}
  BY <1>1, <1>6 DEF SaidBy
<1>9. IsSettled(prog', set', comics', opts, operands, read)
  <2>1. CASE Begin
    <3>1. prog = "get-comics"
      BY <2>1 DEF Begin
    <3>2. SaidBy(opts, Read(operand))
      BY <1>1, <1>6
    <3>3. /\ ComicsDir = DirAsked(opts, read) /\ set.threads = ThreadsAsked(opts, read)
          /\ set.timeout = TimeoutAsked(opts, read)
          /\ \A i \in DOMAIN read : \A k \in DOMAIN read[i].comics :
               IsListed(comics, read[i].comics[k].url)
      BY <1>1, <1>6, <3>1, <3>2, AllSaid
    <3>4. set.unlink = (Given(opts, "k") = {}) /\ set.links = (Given(opts, "l") # {})
      BY <3>1, <3>2 DEF SaidBy
    <3>5. set'.dir = ComicsDir
      BY <1>4, <2>1
    <3>6. set'.threads = IF set.threads > Len(comics) THEN Len(comics) ELSE set.threads
      BY <1>4 DEF Threads
    <3>. QED
      BY <1>1, <1>2, <1>4, <1>8, <3>1, <3>3, <3>4, <3>5, <3>6 DEF IsSettled
  <2>2. CASE BeginHere
    <3>1. prog # "get-comics"
      BY <2>2 DEF BeginHere
    <3>2. ASSUME prog = "http-get", NEW i \in DOMAIN operands
          PROVE  IsListed(comics', Head(operands[i]))
      <4>1. Words = Operands
        BY <3>2 DEF Words
      <4>2. i \in 1 .. operand /\ Words[i] = operands[i]
        BY <1>1, <1>6, <3>2, <4>1, WordsCount DEF TypesInv
      <4>. QED
        BY <1>1, <3>2, <4>2 DEF UrlsListed, IsListed
    <3>. QED
      BY <1>2, <1>8, <3>1, <3>2 DEF IsSettled
  <2>. QED
    BY <2>1, <2>2
<1>10. Settled'
  BY <1>7, <1>9, SettledByNext
<1>. QED
  BY <1>1, <1>5, <1>10 DEF SettingsInv

\* The loop changes no settings, and no urls.
LEMMA DownloadSettings ==
    ASSUME ProgramsInv, SettingsInv, Download
    PROVE  SettingsInv'
<1>1. pc = "loop" /\ UNCHANGED <<run, pc, g, operand, set, unique, exit, before>>
  BY DEF Download
<1>2. PICK i \in DOMAIN comics : \E new, n : Advances(i, new, n)
  BY DownloadAdvances
<1>3. PICK new, n : Advances(i, new, n)
  BY <1>2
<1>4. /\ DOMAIN comics' = DOMAIN comics /\ Len(comics') = Len(comics)
      /\ \A k \in DOMAIN comics : comics'[k].regexp = comics[k].regexp /\ comics'[k].url = comics[k].url
  BY <1>3, AdvancesList DEF SameComic
<1>5. prog' = prog /\ argv' = argv /\ Words' = Words /\ Asked' = Asked
  BY <1>1 DEF argv, prog, Takes, Asked, Words, Operands
<1>6. TypesInv'
  <2>1. Regexps(comics') = Regexps(comics)
    <3>1. {k \in DOMAIN comics' : comics'[k].regexp} = {k \in DOMAIN comics : comics[k].regexp}
      BY <1>4
    <3>. QED
      BY <3>1 DEF Regexps
  <2>. QED
    BY <1>1, <1>5, <2>1 DEF SettingsInv, TypesInv
<1>7. Settled'
  <2>1. PICK opts, operands, read :
          opts = Asked.opts /\ operands = Asked.operands /\ read = ReadAll
    OBVIOUS
  <2>2. Asked'.opts = opts /\ Asked'.operands = operands /\ ReadAll' = read
    BY <1>5, <2>1 DEF ReadAll
  <2>3. IsSettled(prog, set, comics, opts, operands, read)
    BY <1>1, <2>1, SettledBy DEF SettingsInv
  <2>4. \A url : IsListed(comics, url) => IsListed(comics', url)
    BY <1>4 DEF IsListed
  <2>5. IsSettled(prog', set', comics', opts, operands, read)
    BY <1>1, <1>4, <1>5, <2>3, <2>4 DEF IsSettled
  <2>. QED
    BY <2>2, <2>5, SettledByNext
<1>. QED
  BY <1>1, <1>6, <1>7 DEF SettingsInv

\* The results, another run, and nothing.
LEMMA ResultsSettings ==
    ASSUME SettingsInv, Results
    PROVE  SettingsInv'
<1>1. pc' = "exit" /\ exit' \in {0, 1} /\ UNCHANGED <<run, g, operand, set, comics, unique>>
  BY DEF Results, Exit, Status
<1>2. argv' = argv /\ Words' = Words
  BY <1>1 DEF argv, prog, Words, Operands
<1>3. TypesInv'
  BY <1>1, <1>2 DEF SettingsInv, TypesInv, Regexps
<1>. QED
  BY <1>1, <1>3 DEF SettingsInv

\* A run that begins.
LEMMA FreshSettings ==
    (OptionsInv /\ pc = "options" /\ g = Getopt0 /\ operand = 0 /\ set = Setting0
       /\ comics = <<>> /\ unique = 0 /\ exit = Running) => SettingsInv
<1>. SUFFICES ASSUME OptionsInv, pc = "options", g = Getopt0, operand = 0, set = Setting0,
                     comics = <<>>, unique = 0, exit = Running
              PROVE  SettingsInv
  OBVIOUS
<1>1. Len(argv) \in Nat /\ g.optind = 1
  BY CommandLine DEF Getopt0
<1>2. g.optind \in 1 .. Len(argv) + 1
  BY <1>1
<1>3. operand \in 0 .. Len(Words)
  BY <1>2, WordsCount
<1>4. set.threads \in Int /\ set.timeout \in Int
  BY DEF Setting0, ThreadLimit, SocketTimeout
<1>5. unique = Regexps(comics)
  <2>1. {i \in DOMAIN comics : comics[i].regexp} = {}
    BY EmptyList
  <2>. QED
    BY <2>1, FS_EmptySet DEF Regexps
<1>6. TypesInv
  BY <1>2, <1>3, <1>4, <1>5 DEF TypesInv
<1>. QED
  BY <1>6, NothingTaken DEF SettingsInv

LEMMA NextRunSettings ==
    ASSUME ProgramsInv, NextRun
    PROVE  SettingsInv'
<1>1. OptionsInv'
  BY NextRunKeeps DEF ProgramsInv
<1>2. (OptionsInv /\ pc = "options" /\ g = Getopt0 /\ operand = 0 /\ set = Setting0
         /\ comics = <<>> /\ unique = 0 /\ exit = Running => SettingsInv)'
  BY FreshSettings, PTL
<1>3. pc' = "options" /\ g' = Getopt0 /\ operand' = 0 /\ set' = Setting0
      /\ comics' = <<>> /\ unique' = 0 /\ exit' = Running
  BY DEF NextRun, Fresh
<1>. QED
  BY <1>1, <1>2, <1>3 DEF Getopt0, Setting0, Running

LEMMA StutterSettings ==
    ASSUME SettingsInv, UNCHANGED vars
    PROVE  SettingsInv'
<1>1. UNCHANGED <<run, pc, g, operand, set, comics, unique, exit>>
  BY DEF vars
<1>2. prog' = prog /\ argv' = argv /\ Takes' = Takes /\ Asked' = Asked /\ Words' = Words
      /\ Operands' = Operands
  BY <1>1 DEF argv, prog, Takes, Asked, Words, Operands
<1>3. TypesInv'
  BY <1>1, <1>2 DEF SettingsInv, TypesInv, Regexps
<1>4. OptionsTaken => OptionsTaken'
  BY <1>1, <1>2 DEF OptionsTaken, SaidBy
<1>5. \A opts, read : SaidBy(opts, read) => SaidBy(opts, read)'
  BY <1>1, <1>2 DEF SaidBy
<1>6. Read(operand)' = Read(operand) /\ (UrlsListed(operand) => UrlsListed(operand)')
  BY <1>1, <1>2 DEF Read, UrlsListed
<1>7. Settled => Settled'
  <2>1. PICK opts, operands, read :
          opts = Asked.opts /\ operands = Asked.operands /\ read = ReadAll
    OBVIOUS
  <2>2. Asked'.opts = opts /\ Asked'.operands = operands /\ ReadAll' = read
    BY <1>2, <2>1 DEF ReadAll
  <2>. QED
    BY <1>1, <1>2, <2>1, <2>2, SettledBy, SettledByNext
<1>8. SaidBy(Asked.opts, Read(operand)) => SaidBy(Asked.opts, Read(operand))'
  BY <1>1, <1>2, <1>6 DEF SaidBy
<1>. QED
  BY <1>1, <1>2, <1>3, <1>4, <1>6, <1>7, <1>8 DEF SettingsInv

\* Every option that getopt returns is the next of those that the command line means, and set
\* holds what the options and the configurations that were read so far say.
THEOREM SettingsInductive == Spec => []SettingsInv
<1>1. Init => SettingsInv
  <2>. SUFFICES ASSUME Init PROVE SettingsInv
    OBVIOUS
  <2>1. OptionsInv
    BY ProgramsInit DEF ProgramsInv
  <2>. QED
    BY <2>1, FreshSettings DEF Init
<1>2. ASSUME ProgramsInv, SettingsInv, [Next]_vars PROVE SettingsInv'
  <2>1. CASE Terminating \/ Waits \/ UNCHANGED vars
    BY <1>2, <2>1, StutterSettings DEF Terminating, Waits
  <2>. QED
    BY <1>2, <2>1, OptionSettings, OperandSettings, BeginSettings, DownloadSettings,
       ResultsSettings, NextRunSettings DEF Next
<1>. QED
  BY <1>1, <1>2, ProgramsInductive, PTL DEF Spec

\* A program that comes to its loop has understood its command line as POSIX has it, however
\* options are joined to each other and to their arguments; in get-comics the directory and the
\* threads are those of the command line, or else of the configurations, of which all are read,
\* and the timeout is that of the last configuration that has one, or else of the command line.
THEOREM ProgramsSettings == Spec => []SettingsRight
<1>1. ProgramsInv /\ SettingsInv => SettingsRight
  <2>. SUFFICES ASSUME ProgramsInv, SettingsInv PROVE SettingsRight
    OBVIOUS
  <2>1. OptionsInv /\ ListInv /\ GotInv /\ TypesInv
    BY DEF ProgramsInv, SettingsInv
  <2>2. Len(comics) \in Nat /\ DOMAIN comics = 1 .. Len(comics)
    BY <2>1, ListType DEF ListInv
  <2>3. gotit \in 0 .. 2 * Len(comics)
    <3>1. Got \in SUBSET (1 .. Len(comics)) /\ Counted \in SUBSET (1 .. Len(comics))
      BY <2>2 DEF Got, Counted
    <3>2. IsFiniteSet(1 .. Len(comics)) /\ Cardinality(1 .. Len(comics)) = Len(comics)
      <4>1. \A n \in Nat : IsFiniteSet(1 .. n) /\ Cardinality(1 .. n) = n
        BY FS_Interval
      <4>. QED
        BY <2>2, <4>1
    <3>3. \A S \in SUBSET (1 .. Len(comics)) : Cardinality(S) \in Nat /\ Cardinality(S) <= Len(comics)
      BY <3>2, FS_Subset, FS_CardinalityType
    <3>4. /\ Cardinality(Got) \in Nat /\ Cardinality(Got) <= Len(comics)
          /\ Cardinality(Counted) \in Nat /\ Cardinality(Counted) <= Len(comics)
      BY <3>1, <3>3
    <3>5. gotit \in Nat /\ (gotit <= 2 * Cardinality(Counted) \/ gotit = Cardinality(Got))
      BY <2>1 DEF GotInv
    <3>. QED
      BY <2>2, <3>4, <3>5
  <2>4. g.optind \in 1 .. Len(argv) + 2
    <3>1. Len(argv) \in Nat
      BY <2>1, CommandLine
    <3>. QED
      BY <2>1, <3>1 DEF TypesInv
  <2>5. DOMAIN set = DOMAIN Setting0
    BY <2>1 DEF OptionsInv, Fields, Setting0
  <2>6. \A i \in DOMAIN comics :
          comics[i].stage \in {"queued", "page", "image", "got", "missed", "failed", "stuck"}
    BY <2>1 DEF ListInv, ComicOK, Stages
  <2>7. TypeOK
    BY <2>1, <2>3, <2>4, <2>5, <2>6 DEF TypeOK, TypesInv, OptionsInv, Regexps
  <2>. QED
    BY <2>7 DEF SettingsRight, SettingsInv
<1>. QED
  BY <1>1, ProgramsInductive, SettingsInductive, PTL

-----------------------------------------------------------------------------
(* What -c removes.                                                        *)

\* No url, configuration or number makes a name that begins with a dot.
NoneHidden ==
    /\ \A u \in DOMAIN Site : ~Hidden(CreateOutname(Url(u).last))
    /\ \A c \in DOMAIN Configs : \A i \in DOMAIN Configs[c].comics :
         Configs[c].comics[i].out = <<>> \/ ~Hidden(Configs[c].comics[i].out)
    /\ \A n \in Nat : ~Hidden(Regfname(n))

\* get-comics is not run after the other programs, which name images as they like.
GetComicsFirst ==
    \A i \in DOMAIN Commands :
        Commands[i].prog # "get-comics" /\ Commands[i].then # 0 =>
            Commands[Commands[i].then].prog # "get-comics"

\* What a file of this name may hold.
NamedFor(f, data) ==
    /\ data[1] \in {"image", "part of an image"} => ~Hidden(f.name) /\ IsImgtype(Ext(f.name))
    /\ data[1] \in {"page", "part of a page"} => ~Hidden(f.name) /\ Ext(f.name) = "html"

DiskNamed(d) == \A f \in DOMAIN d : NamedFor(f, d[f])

\* An image of this comic is named so once an extension is appended, and so is its page.
NamedComic(c) ==
    /\ c.out # <<>> /\ ~Hidden(c.out) /\ IsList(c.out)
    /\ c.regexp => \E n \in Nat : c.page.name = Regfname(n)

\* The files and the comics of get-comics are named so; and -c is of get-comics only.
CleanInv ==
    /\ set.clean => prog = "get-comics"
    /\ prog = "get-comics" =>
         /\ DiskNamed(disk)
         /\ \A i \in DOMAIN comics : NamedComic(comics[i])
         /\ pc = "loop" => set.extend
    /\ CleanExact

\* What is left is as it was, and has no name that is removed.
LEMMA CleanLeaves ==
    ASSUME NEW d, NEW dir, NEW index
    PROVE  \A f \in DOMAIN CleanDir(d, dir, index) :
             /\ f \in DOMAIN d /\ CleanDir(d, dir, index)[f] = d[f]
             /\ f.dir = dir => Hidden(f.name) \/ ~IsImgtype(Ext(f.name))
             /\ f.dir = index => Hidden(f.name) \/ Ext(f.name) # "html"
<1>. DEFINE images == {h \in Entries(d, dir) : ~Hidden(h.name) /\ IsImgtype(Ext(h.name))}
            e == Without(d, images)
            pages == {h \in Entries(e, index) : ~Hidden(h.name) /\ Ext(h.name) = "html"}
<1>1. CleanDir(d, dir, index) = Without(e, pages)
  BY DEF CleanDir, CleanIndexDir
<1>2. \A f \in DOMAIN e : f \in DOMAIN d /\ e[f] = d[f] /\ f \notin images
  <2>. HIDE DEF images
  <2>. QED
    BY DEF Without
<1>3. \A f \in DOMAIN Without(e, pages) :
        f \in DOMAIN e /\ Without(e, pages)[f] = e[f] /\ f \notin pages
  <2>. HIDE DEF e, pages
  <2>. QED
    BY DEF Without
<1>4. \A f \in DOMAIN d : f.dir = dir /\ f \notin images => Hidden(f.name) \/ ~IsImgtype(Ext(f.name))
  BY DEF Entries
<1>5. \A f \in DOMAIN e : f.dir = index /\ f \notin pages => Hidden(f.name) \/ Ext(f.name) # "html"
  <2>. HIDE DEF e
  <2>. QED
    BY DEF Entries
<1>. HIDE DEF images, e, pages
<1>. QED
  BY <1>1, <1>2, <1>3, <1>4, <1>5

\* Files of such names may be written, and any removed.
LEMMA PutNamed ==
    ASSUME NEW d, DiskNamed(d), NEW f, NEW data, NamedFor(f, data)
    PROVE  DiskNamed(Put(d, f, data))
BY DEF DiskNamed, Put

LEMMA WithoutNamed ==
    ASSUME NEW d, DiskNamed(d), NEW gone
    PROVE  DiskNamed(Without(d, gone))
BY DEF DiskNamed, Without

\* What is written for a comic is named for cleaning, once extensions are appended.
LEMMA WritesNamed ==
    ASSUME NoneHidden, NEW old, NamedComic(old), NEW new, Extended(new), SameComic(new, old),
           set.extend, NEW d, DiskNamed(disk), Writes(old, new, d)
    PROVE  DiskNamed(d)
<1>1. CASE d = disk
  BY <1>1
<1>2. CASE d = Without(disk, {PageAt(old)})
  BY <1>2, WithoutNamed
<1>3. CASE old.regexp /\ \E data \in {PageData(old), PagePart(old)} : d = Put(disk, PageAt(old), data)
  <2>1. PICK data \in {PageData(old), PagePart(old)} : d = Put(disk, PageAt(old), data)
    BY <1>3
  <2>2. PICK n \in Nat : old.page.name = Regfname(n)
    BY <1>3 DEF NamedComic
  <2>3. PageAt(old).name = Regfname(n)
    BY <2>2 DEF PageAt, At, File
  <2>4. Ext(Regfname(n)) = "html" /\ ~Hidden(Regfname(n))
    <3>1. ~Hidden(Regfname(n))
      BY DEF NoneHidden
    <3>2. \A x : Ext(<<x, "html">>) = "html"
      BY DEF Ext
    <3>. QED
      BY <3>1, <3>2 DEF Regfname
  <2>5. data[1] \in {"page", "part of a page"}
    <3>1. \A u : <<"page", u>>[1] = "page" /\ <<"part of a page", u>>[1] = "part of a page"
      OBVIOUS
    <3>. QED
      BY <3>1 DEF PageData, PagePart
  <2>6. NamedFor(PageAt(old), data)
    BY <2>3, <2>4, <2>5 DEF NamedFor
  <2>. QED
    BY <2>1, <2>6, PutNamed
<1>4. CASE /\ new.exts # <<>>
           /\ \E data \in {ImageData(old), ImagePart(old)} : d = Put(disk, Image(new), data)
  <2>1. PICK data \in {ImageData(old), ImagePart(old)} : d = Put(disk, Image(new), data)
    BY <1>4
  <2>2. PICK a, e, n : a = new.out /\ e = new.exts /\ n = a \o e
    OBVIOUS
  <2>3. /\ IsList(a) /\ a # <<>> /\ a[1] # "" /\ e \in Seq(Exts) /\ e # <<>>
    BY <1>4, <2>2 DEF NamedComic, SameComic, Extended, ComicOK, Hidden
  <2>4. /\ IsList(e) /\ Len(a) \in Nat /\ DOMAIN a = 1 .. Len(a) /\ Len(e) \in Nat
        /\ Len(a) # 0 /\ Len(e) # 0
    <3>1. IsList(e)
      <4>1. \A l \in Seq(Exts) : IsList(l)
        BY DEF IsList
      <4>. QED
        BY <2>3, <4>1
    <3>2. \A l : IsList(l) /\ l # <<>> => Len(l) # 0
      BY EmptySeq DEF IsList
    <3>. QED
      BY <2>3, <3>1, <3>2, ListType
  <2>5. /\ Len(n) = Len(a) + Len(e) /\ DOMAIN n = 1 .. Len(a) + Len(e)
        /\ \A i \in DOMAIN a : n[i] = a[i]
        /\ \A i \in DOMAIN n : i \notin DOMAIN a => i - Len(a) \in DOMAIN e /\ n[i] = e[i - Len(a)]
    <3>1. IsList(a) /\ IsList(e)
      BY <2>3, <2>4
    <3>2. /\ Len(a \o e) = Len(a) + Len(e) /\ DOMAIN (a \o e) = 1 .. Len(a) + Len(e)
          /\ \A i \in DOMAIN a : (a \o e)[i] = a[i]
          /\ \A i \in DOMAIN (a \o e) : i \notin DOMAIN a =>
               i - Len(a) \in DOMAIN e /\ (a \o e)[i] = e[i - Len(a)]
      BY <3>1, ListJoined
    <3>. QED
      BY <2>2, <3>2
  <2>6. Len(n) > 1 /\ Len(n) \in DOMAIN n /\ Len(n) \notin DOMAIN a /\ 1 \in DOMAIN a
    BY <2>4, <2>5
  <2>7. n[Len(n)] \in Exts /\ n[1] # ""
    <3>1. PICK k \in DOMAIN e : n[Len(n)] = e[k]
      BY <2>5, <2>6
    <3>2. \A l \in Seq(Exts) : \A j \in DOMAIN l : l[j] \in Exts
      OBVIOUS
    <3>3. n[Len(n)] \in Exts
      BY <2>3, <3>1, <3>2, Zenon
    <3>4. n[1] = a[1]
      BY <2>5, <2>6
    <3>. QED
      BY <2>3, <3>3, <3>4, Zenon
  <2>8. IsImgtype(Ext(n)) /\ ~Hidden(n)
    BY <2>6, <2>7 DEF IsImgtype, Ext, Hidden
  <2>9. Image(new).name = n
    BY <2>2 DEF Image, File
  <2>10. data[1] \in {"image", "part of an image"}
    <3>1. \A u : <<"image", u>>[1] = "image" /\ <<"part of an image", u>>[1] = "part of an image"
      OBVIOUS
    <3>. QED
      BY <3>1 DEF ImageData, ImagePart
  <2>11. NamedFor(Image(new), data)
    BY <2>8, <2>9, <2>10 DEF NamedFor
  <2>. QED
    BY <2>1, <2>11, PutNamed
<1>. QED
  BY <1>1, <1>2, <1>3, <1>4 DEF Writes

\* A configuration adds comics with such names.
LEMMA ConfigNamed ==
    ASSUME NoneHidden, ListInv, \A i \in DOMAIN comics : NamedComic(comics[i]),
           NEW c \in DOMAIN Configs, NEW index, Add(Configs[c].comics, index)
    PROVE  \A i \in DOMAIN comics' : NamedComic(comics'[i])
<1>. DEFINE e == Configs[c].comics
            new == Numbered(e, unique, index)
            l == comics \o new
<1>1. comics' = l /\ unique \in Nat /\ IsList(comics)
  BY DEF Add, ListInv
<1>2. IsList(e) /\ \A i \in DOMAIN e : EntryOK(e[i])
  BY ConfigLists
<1>3. Regexps(e) \in Nat
  BY <1>2, RegexpNumbers
<1>4. \A i \in DOMAIN e : /\ e[i].out \in Seq(STRING) /\ e[i].url \in DOMAIN Site
                          /\ e[i].out = <<>> \/ ~Hidden(e[i].out)
  <2>1. e \in Seq([url: STRING, out: Seq(STRING), regexp: BOOLEAN])
    BY ProgramsAssumption DEF Config
  <2>2. \A i \in DOMAIN e : e[i] \in [url: STRING, out: Seq(STRING), regexp: BOOLEAN]
    <3>. DEFINE R == [url: STRING, out: Seq(STRING), regexp: BOOLEAN]
    <3>1. e \in Seq(R)
      BY <2>1
    <3>. HIDE DEF e, R
    <3>2. \A i \in DOMAIN e : e[i] \in R
      BY <3>1
    <3>. QED
      BY <3>2 DEF R
  <2>3. \A i \in DOMAIN e : e[i].out = <<>> \/ ~Hidden(e[i].out)
    BY DEF NoneHidden
  <2>4. \A i \in DOMAIN e : e[i].url \in DOMAIN Site
    BY ProgramsAssumption
  <2>. QED
    BY <2>2, <2>3, <2>4
<1>5. /\ IsList(new) /\ DOMAIN new = DOMAIN e
      /\ \A i \in DOMAIN new : new[i].regexp =>
           \E m \in unique + 1 .. unique + Regexps(e) : new[i].page.name = Regfname(m)
  BY SMTT(60), <1>1, <1>2, NumberedComics
<1>6. \A i \in DOMAIN new : new[i].out = Outname(e[i].url, e[i].out)
  <2>1. \A url, out, regexp, n : Comic(url, out, regexp, index, n).out = out
    BY DEF Comic
  <2>. QED
    BY <2>1 DEF Numbered
<1>. HIDE DEF e, new
<1>7. ASSUME NEW i \in DOMAIN new
      PROVE  NamedComic(new[i])
  <2>1. PICK out, url : out = e[i].out /\ url = e[i].url
    OBVIOUS
  <2>2. /\ out \in Seq(STRING) /\ url \in DOMAIN Site /\ (out = <<>> \/ ~Hidden(out))
        /\ new[i].out = Outname(url, out)
    BY <1>4, <1>5, <1>6, <2>1
  <2>3. Url(url).last \in Seq(STRING) /\ ~Hidden(CreateOutname(Url(url).last))
    <3>1. Site[url] \in Page
      BY <2>2, ProgramsAssumption
    <3>2. Site[url].last \in Seq(STRING)
      BY <3>1 DEF Page
    <3>. QED
      BY <2>2, <3>2 DEF NoneHidden, Url
  <2>4. \A name : name \in Seq(STRING) /\ name # <<>> => IsList(name)
    BY DEF IsList
  <2>5. /\ new[i].out # <<>> /\ ~Hidden(new[i].out) /\ IsList(new[i].out)
    <3>1. CASE out # <<>>
      <4>1. new[i].out = out
        BY <2>2, <3>1 DEF Outname
      <4>. QED
        BY <2>2, <2>4, <3>1, <4>1
    <3>2. CASE out = <<>>
      <4>1. PICK name : name = CreateOutname(Url(url).last)
        OBVIOUS
      <4>2. IsList(name) /\ name # <<>>
        <5>1. CASE Url(url).last = <<>>
          <6>1. PICK a, b : a = "index" /\ b = "html"
            OBVIOUS
          <6>2. name = <<a, b>>
            BY <4>1, <5>1, <6>1 DEF CreateOutname
          <6>3. <<a, b>> \in Seq({a, b}) /\ {<<a, b>>[k] : k \in DOMAIN <<a, b>>} = {a, b}
            OBVIOUS
          <6>. QED
            BY <6>2, <6>3 DEF IsList
        <5>2. CASE Url(url).last # <<>>
          BY <2>3, <2>4, <4>1, <5>2 DEF CreateOutname
        <5>. QED
          BY <5>1, <5>2
      <4>3. new[i].out = name
        BY <2>2, <3>2, <4>1 DEF Outname
      <4>. QED
        BY <2>3, <4>1, <4>2, <4>3
    <3>. QED
      BY <3>1, <3>2
  <2>6. ASSUME new[i].regexp
        PROVE  \E n \in Nat : new[i].page.name = Regfname(n)
    <3>1. PICK m \in unique + 1 .. unique + Regexps(e) : new[i].page.name = Regfname(m)
      BY <1>5, <2>6
    <3>2. m \in Nat
      BY <1>1, <1>3
    <3>. QED
      BY <3>1, <3>2
  <2>. QED
    BY <2>5, <2>6 DEF NamedComic
<1>8. \A i \in DOMAIN l :
        \/ i \in DOMAIN comics /\ l[i] = comics[i]
        \/ i - Len(comics) \in DOMAIN new /\ l[i] = new[i - Len(comics)]
  BY <1>1, <1>5, ListJoined
<1>. HIDE DEF l
<1>. QED
  BY <1>1, <1>7, <1>8

\* An option, in a run that is not at its loop yet.
LEMMA OptionClean ==
    ASSUME ProgramsInv, CleanInv, Option
    PROVE  CleanInv'
<1>1. prog' = prog /\ OptionsInv
  BY DEF Option, prog, ProgramsInv
<1>2. pc' # "loop"
  BY DEF Option, Stop
<1>3. CleanExact'
  BY <1>2 DEF CleanExact
<1>4. set'.clean => prog = "get-comics"
  <2>1. set' = set \/ (g'.ret \in DOMAIN Takes /\ g'.ret # "h" /\ set' = OptionSet(g'.ret, g'.optarg))
    <3>1. g'.ret \in DOMAIN Takes \cup {"?", "end"}
      BY <1>1, GetoptReturns DEF Option, OptionsInv
    <3>. QED
      BY <3>1 DEF Option
  <2>2. prog \in {"get-comics", "http-get", "link-check"}
    BY <1>1, ProgramsAssumption DEF OptionsInv, prog
  <2>3. ASSUME prog = "http-get", NEW letter \in DOMAIN Takes, letter # "h", NEW arg
        PROVE  OptionSet(letter, arg).clean = set.clean
    <3>1. letter \in {"h", "u", "U", "v", "l", "r", "R", "t", "T"}
      BY <2>3 DEF Takes, Optstring
    <3>2. OptionSet(letter, arg) = HttpGetSet(letter, arg)
      BY <2>3 DEF OptionSet
    <3>. QED
      BY <1>1, <2>3, <3>1, <3>2 DEF HttpGetSet, OptionsInv, Fields
  <2>4. ASSUME prog = "link-check", NEW letter \in DOMAIN Takes, letter # "h", NEW arg
        PROVE  OptionSet(letter, arg).clean = set.clean
    <3>1. letter \in {"h", "v", "t", "T"}
      BY <2>4 DEF Takes, Optstring
    <3>2. OptionSet(letter, arg) = LinkCheckSet(letter, arg)
      BY <2>4 DEF OptionSet
    <3>. QED
      BY <1>1, <2>4, <3>1, <3>2 DEF LinkCheckSet, OptionsInv, Fields
  <2>. QED
    BY <2>1, <2>2, <2>3, <2>4 DEF CleanInv
<1>5. ASSUME prog = "get-comics"
      PROVE  DiskNamed(disk') /\ comics' = comics
  <2>1. NamedFor(File("/", g'.optarg), <<"links">>)
    BY DEF NamedFor
  <2>2. DiskNamed(disk)
    BY <1>5 DEF CleanInv
  <2>. QED
    BY <1>5, <2>1, <2>2, PutNamed DEF Option
<1>. QED
  BY <1>1, <1>2, <1>3, <1>4, <1>5 DEF CleanInv

\* An operand.
LEMMA OperandClean ==
    ASSUME NoneHidden, ProgramsInv, CleanInv, ConfigOperand \/ UrlOperand \/ ListOperand
    PROVE  CleanInv'
<1>1. prog' = prog /\ OptionsInv /\ ListInv /\ disk' = disk
  BY DEF ConfigOperand, UrlOperand, ListOperand, prog, ProgramsInv
<1>2. pc' # "loop"
  BY DEF ConfigOperand, UrlOperand, ListOperand, Takeable, Stop
<1>3. CleanExact'
  BY <1>2 DEF CleanExact
<1>4. set'.clean = set.clean
  BY <1>1 DEF ConfigOperand, UrlOperand, ListOperand, ReadConfig, OptionsInv, Fields
<1>5. ASSUME prog = "get-comics"
      PROVE  \A i \in DOMAIN comics' : NamedComic(comics'[i])
  <2>1. \A i \in DOMAIN comics : NamedComic(comics[i])
    BY <1>5 DEF CleanInv
  <2>2. \/ comics' = comics
        \/ \E c, index : c \in DOMAIN Configs /\ Add(Configs[c].comics, index)
    BY <1>5 DEF ConfigOperand, UrlOperand, ListOperand, Takeable, ReadConfig
  <2>. QED
    BY <1>1, <2>1, <2>2, ConfigNamed
<1>. QED
  BY <1>1, <1>2, <1>3, <1>4, <1>5 DEF CleanInv

\* The directories are cleaned before the loop begins.
LEMMA BeginClean ==
    ASSUME ProgramsInv, CleanInv, Begin \/ BeginHere
    PROVE  CleanInv'
<1>1. prog' = prog /\ OptionsInv /\ comics' = comics
  BY DEF Begin, BeginHere, prog, ProgramsInv
<1>2. CASE BeginHere
  <2>1. prog # "get-comics" /\ set'.clean = set.clean
    BY <1>1, <1>2 DEF BeginHere, OptionsInv, Fields
  <2>2. CleanExact'
    BY <2>1 DEF CleanInv, CleanExact
  <2>. QED
    BY <1>1, <2>1, <2>2 DEF CleanInv
<1>3. CASE Begin
  <2>1. /\ prog = "get-comics" /\ set'.clean = set.clean /\ set'.index = set.index
        /\ set'.dir = ComicsDir /\ set'.extend
    BY <1>1, <1>3 DEF Begin, OptionsInv, Fields
  <2>2. DiskNamed(disk)
    BY <2>1 DEF CleanInv
  <2>3. disk' = disk \/ disk' = CleanDir(disk, ComicsDir, set.index)
    BY <1>3 DEF Begin, Cleaned
  <2>4. DiskNamed(disk')
    BY <2>2, <2>3, CleanLeaves DEF DiskNamed
  <2>5. ASSUME pc' = "loop", set'.clean
        PROVE  \A f \in DOMAIN disk' :
                 /\ f.dir = set'.dir => disk'[f][1] \notin {"image", "part of an image"}
                 /\ f.dir = set'.index => disk'[f][1] \notin {"page", "part of a page"}
    <3>1. disk' = CleanDir(disk, ComicsDir, set.index)
      BY <1>3, <2>1, <2>5 DEF Begin, Stop, Exit, Cleaned
    <3>2. \A f \in DOMAIN disk' :
            /\ f.dir = ComicsDir => Hidden(f.name) \/ ~IsImgtype(Ext(f.name))
            /\ f.dir = set.index => Hidden(f.name) \/ Ext(f.name) # "html"
      BY <3>1, CleanLeaves
    <3>3. \A f \in DOMAIN disk' : NamedFor(f, disk'[f])
      BY <2>4 DEF DiskNamed
    <3>. QED
      BY <2>1, <3>2, <3>3 DEF NamedFor
  <2>6. CleanExact'
    BY <2>5 DEF CleanExact
  <2>. QED
    BY <1>1, <2>1, <2>4, <2>6 DEF CleanInv
<1>. QED
  BY <1>2, <1>3

\* The loop: what is written is named for the next run to remove.
LEMMA DownloadClean ==
    ASSUME NoneHidden, ProgramsInv, CleanInv, Download
    PROVE  CleanInv'
<1>1. PICK i \in DOMAIN comics : \E new, n : Advances(i, new, n)
  BY DownloadAdvances
<1>2. PICK new, n : Advances(i, new, n)
  BY <1>1
<1>3. UNCHANGED <<run, pc, set>> /\ prog' = prog /\ pc = "loop"
  BY <1>2 DEF Advances, prog, Download
<1>4. /\ DOMAIN comics' = DOMAIN comics /\ comics'[i] = new
      /\ \A k \in DOMAIN comics : SameComic(comics'[k], comics[k])
  BY <1>2, AdvancesList
<1>5. CleanExact'
  <2>1. ~Untouched(comics'[i]) /\ i \in DOMAIN comics'
    BY <1>2, <1>4 DEF Advances
  <2>. QED
    BY <2>1 DEF CleanExact
<1>6. ASSUME prog = "get-comics"
      PROVE  DiskNamed(disk')
  <2>1. DiskNamed(disk) /\ NamedComic(comics[i]) /\ set.extend
    BY <1>3, <1>6 DEF CleanInv
  <2>2. Extended(new) /\ SameComic(new, comics[i]) /\ Writes(comics[i], new, disk')
    BY <1>2 DEF Advances
  <2>. QED
    BY <2>1, <2>2, WritesNamed
<1>7. ASSUME NEW k \in DOMAIN comics, NamedComic(comics[k])
      PROVE  NamedComic(comics'[k])
  BY <1>4, <1>7 DEF NamedComic, SameComic
<1>. QED
  BY <1>3, <1>4, <1>5, <1>6, <1>7 DEF CleanInv

\* The results, and another run: get-comics only after get-comics.
LEMMA ResultsClean ==
    ASSUME CleanInv, Results
    PROVE  CleanInv'
<1>1. prog' = prog /\ pc' = "exit" /\ UNCHANGED <<set, comics, disk>>
  BY DEF Results, Exit, prog
<1>2. CleanExact'
  BY <1>1 DEF CleanExact
<1>. QED
  BY <1>1, <1>2 DEF CleanInv

LEMMA NextRunClean ==
    ASSUME GetComicsFirst, OptionsInv, CleanInv, NextRun
    PROVE  CleanInv'
<1>1. /\ pc' = "options" /\ set' = Setting0 /\ comics' = <<>> /\ disk' = disk
      /\ run' = Commands[run].then /\ Commands[run].then # 0
  BY DEF NextRun, Fresh
<1>2. prog' = "get-comics" => prog = "get-comics"
  BY <1>1 DEF GetComicsFirst, OptionsInv, prog
<1>3. ~set'.clean
  BY <1>1 DEF Setting0
<1>4. CleanExact'
  BY <1>1 DEF CleanExact
<1>5. DOMAIN comics' = {}
  BY <1>1, EmptyList
<1>. QED
  BY <1>1, <1>2, <1>3, <1>4, <1>5 DEF CleanInv

LEMMA StutterClean ==
    ASSUME CleanInv, UNCHANGED vars
    PROVE  CleanInv'
BY DEF CleanInv, CleanExact, Untouched, prog, vars

\* After -c no image that an earlier run of get-comics has downloaded, whole or in part, is
\* left in the directory, and no page in the index directory: if no name in the configurations
\* and urls begins with a dot, get-comics is run before the other programs, and whatever image
\* or page was there before has a name as get-comics gives it.
THEOREM ProgramsClean ==
    ASSUME NoneHidden, GetComicsFirst, DiskNamed(Disk0)
    PROVE  Spec => []CleanExact
<1>1. Init => CleanInv
  <2>. SUFFICES ASSUME Init PROVE CleanInv
    OBVIOUS
  <2>1. ~set.clean /\ pc # "loop" /\ DOMAIN comics = {}
    BY EmptyList DEF Init, Setting0
  <2>. QED
    BY <2>1 DEF Init, CleanInv, CleanExact
<1>2. ASSUME ProgramsInv, CleanInv, [Next]_vars PROVE CleanInv'
  <2>1. CASE Terminating \/ Waits \/ UNCHANGED vars
    BY <1>2, <2>1, StutterClean DEF Terminating, Waits
  <2>2. CASE NextRun
    BY <1>2, <2>2, NextRunClean DEF ProgramsInv
  <2>. QED
    BY <1>2, <2>1, <2>2, OptionClean, OperandClean, BeginClean, DownloadClean, ResultsClean DEF Next
<1>3. CleanInv => CleanExact
  BY DEF CleanInv
<1>. QED
  BY <1>1, <1>2, <1>3, ProgramsInductive, PTL DEF Spec
=============================================================================
