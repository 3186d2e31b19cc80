---------------------------- MODULE WorkersProofs ----------------------------
(***************************************************************************)
(* What is proved of the three programs with threads, for any number of    *)
(* comics: first of each on its own, with an invariant of its own, then of *)
(* MCWorkers.tla, of which a behaviour is one of the program lang says.    *)
(***************************************************************************)
EXTENDS MCWorkers, FiniteSetTheorems, TLAPS

LEMMA CountType ==
    ASSUME NEW n \in Nat, NEW S \in SUBSET (1 .. n)
    PROVE  /\ IsFiniteSet(S) /\ Cardinality(S) \in Nat /\ Cardinality(S) <= n
           /\ Cardinality(S) = n => S = 1 .. n
<1>1. IsFiniteSet(1 .. n) /\ Cardinality(1 .. n) = n
  BY FS_Interval
<1>2. IsFiniteSet(S) /\ Cardinality(S) <= n /\ (Cardinality(S) = n => S = 1 .. n)
  BY <1>1, FS_Subset
<1>. QED
  BY <1>2, FS_CardinalityType

LEMMA SubsetCount ==
    ASSUME NEW n \in Nat, NEW S \in SUBSET (1 .. n), NEW T \in SUBSET S
    PROVE  Cardinality(T) <= Cardinality(S)
BY CountType, FS_Subset

LEMMA AddCount ==
    ASSUME NEW n \in Nat, NEW S \in SUBSET (1 .. n), NEW c \in 1 .. n, c \notin S
    PROVE  /\ Cardinality(S) \in Nat
           /\ Cardinality(S \cup {c}) = Cardinality(S) + 1
<1>1. IsFiniteSet(S) /\ Cardinality(S) \in Nat
  BY CountType
<1>. QED
  BY <1>1, FS_AddElement

LEMMA AddAtMost ==
    ASSUME NEW S, IsFiniteSet(S), NEW d
    PROVE  /\ IsFiniteSet(S \cup {d}) /\ Cardinality(S) \in Nat
           /\ Cardinality(S \cup {d}) <= Cardinality(S) + 1
<1>1. Cardinality(S) \in Nat
  BY FS_CardinalityType
<1>. QED
  BY <1>1, FS_AddElement

\* One comes and another goes.
LEMMA ExchangeCount ==
    ASSUME NEW n \in Nat, NEW S \in SUBSET (1 .. n), NEW c \in S, NEW d \in 1 .. n,
           NEW T \in SUBSET ((S \ {c}) \cup {d})
    PROVE  Cardinality(T) <= Cardinality(S)
<1>. DEFINE U == S \ {c}
<1>1. IsFiniteSet(S) /\ Cardinality(S) \in Nat
  BY CountType
<1>2. IsFiniteSet(U) /\ Cardinality(U) = Cardinality(S) - 1
  BY <1>1, FS_RemoveElement
<1>3. T \in SUBSET (U \cup {d})
  OBVIOUS
<1>. HIDE DEF U
<1>4. IsFiniteSet(U \cup {d}) /\ Cardinality(U \cup {d}) <= Cardinality(U) + 1
  BY <1>2, AddAtMost
<1>5. Cardinality(T) <= Cardinality(U \cup {d}) /\ IsFiniteSet(T)
  BY <1>3, <1>4, FS_Subset
<1>6. Cardinality(T) \in Nat /\ Cardinality(U \cup {d}) \in Nat
  BY <1>4, <1>5, FS_CardinalityType
<1>. QED
  BY <1>1, <1>2, <1>4, <1>5, <1>6

\* Each program counts with an instance of FiniteSets of its own.
LEMMA SameCardinality ==
    \A S : /\ Curl!Cardinality(S) = Cardinality(S)
           /\ Go!Cardinality(S) = Cardinality(S)
           /\ Py!Cardinality(S) = Cardinality(S)
BY DEF Cardinality, Curl!Cardinality, Go!Cardinality, Py!Cardinality

-----------------------------------------------------------------------------
(* The curl build: CurlThreads.tla.                                        *)
\* What a thread may have to add: links are counted twice, or once.
CurlAdds == {<<>>, <<Curl!Opened>>, <<Curl!Closed>>, <<Curl!Gotit, Curl!Closed>>}
CurlLinkAdds == {<<Curl!Gotit>>, <<Curl!Gotit, Curl!Gotit>>}

CurlTypeOK ==
    /\ setting \in CurlSettings
    /\ todo \in [Curl!Comics -> IF setting.links THEN CurlAdds \cup CurlLinkAdds ELSE CurlAdds]
    /\ seen \in [Curl!Comics -> Int]
    /\ at \in [Curl!Comics -> {"start", "perform", "status", "end"}]
    /\ open \in SUBSET Curl!Comics /\ got \in SUBSET Curl!Comics
    /\ count \in [gotit: Int, outstanding: Int]

\* The comics that are got and being counted: what the others have brought is
\* the most that gotit can be, and the most that any of them has read.
CurlCounting == {c \in Curl!Comics : todo[c] = <<Curl!Gotit, Curl!Closed>>}
CurlCounted == got \ CurlCounting
CurlCountInv ==
    /\ \A c \in got : at[c] = "end"
    /\ CurlCounting \subseteq got
    /\ count.gotit <= Cardinality(CurlCounted)
    /\ \A c \in CurlCounting : seen[c] <= Cardinality(CurlCounted)
    /\ \A c \in Curl!Comics : todo[c] = <<>> => seen[c] = Curl!NotSeen

CurlInv == CurlTypeOK /\ (~setting.links => CurlCountInv)

-----------------------------------------------------------------------------
LEMMA CurlAddsApart ==
    /\ <<>> # <<Curl!Gotit, Curl!Closed>> /\ <<Curl!Opened>> # <<Curl!Gotit, Curl!Closed>>
    /\ <<Curl!Closed>> # <<Curl!Gotit, Curl!Closed>> /\ <<Curl!Gotit>> # <<Curl!Gotit, Curl!Closed>>
    /\ <<Curl!Gotit, Curl!Gotit>> # <<Curl!Gotit, Curl!Closed>>
    /\ <<Curl!Opened>> # <<>> /\ <<Curl!Closed>> # <<>> /\ <<Curl!Gotit, Curl!Closed>> # <<>>
BY DEF Curl!Gotit, Curl!Opened, Curl!Closed

\* What the first of them adds, and what is left.
LEMMA CurlAddsHead ==
    ASSUME NEW a \in CurlAdds \cup CurlLinkAdds, a # <<>>
    PROVE  /\ Tail(a) \in CurlAdds \cup CurlLinkAdds
           /\ a \in CurlAdds => Tail(a) \in CurlAdds \ {<<Curl!Gotit, Curl!Closed>>}
           /\ Head(a)[1] \in {"gotit", "outstanding"} /\ Head(a)[2] \in {1, -1}
           /\ a \in CurlAdds \ {<<Curl!Gotit, Curl!Closed>>} => Head(a)[1] = "outstanding"
           /\ a = <<Curl!Gotit, Curl!Closed>> => Head(a) = Curl!Gotit /\ Tail(a) = <<Curl!Closed>>
<1>1. /\ Tail(<<Curl!Opened>>) = <<>> /\ Head(<<Curl!Opened>>) = Curl!Opened
      /\ Tail(<<Curl!Closed>>) = <<>> /\ Head(<<Curl!Closed>>) = Curl!Closed
      /\ Tail(<<Curl!Gotit>>) = <<>> /\ Head(<<Curl!Gotit>>) = Curl!Gotit
      /\ Tail(<<Curl!Gotit, Curl!Closed>>) = <<Curl!Closed>> /\ Head(<<Curl!Gotit, Curl!Closed>>) = Curl!Gotit
      /\ Tail(<<Curl!Gotit, Curl!Gotit>>) = <<Curl!Gotit>> /\ Head(<<Curl!Gotit, Curl!Gotit>>) = Curl!Gotit
  OBVIOUS
<1>2. /\ Curl!Opened[1] = "outstanding" /\ Curl!Opened[2] = 1
      /\ Curl!Closed[1] = "outstanding" /\ Curl!Closed[2] = -1
      /\ Curl!Gotit[1] = "gotit" /\ Curl!Gotit[2] = 1
  BY DEF Curl!Opened, Curl!Closed, Curl!Gotit
<1>3. \/ a = <<Curl!Opened>> \/ a = <<Curl!Closed>> \/ a = <<Curl!Gotit, Curl!Closed>>
      \/ a = <<Curl!Gotit>> \/ a = <<Curl!Gotit, Curl!Gotit>>
  BY DEF CurlAdds, CurlLinkAdds
<1>4. <<Curl!Gotit>> \notin CurlAdds /\ <<Curl!Gotit, Curl!Gotit>> \notin CurlAdds
  BY DEF CurlAdds, Curl!Gotit, Curl!Opened, Curl!Closed
<1>. QED
  BY <1>1, <1>2, <1>3, <1>4, CurlAddsApart DEF CurlAdds, CurlLinkAdds

LEMMA CurlCountsType ==
    ASSUME Curl!CurlThreadsAssumption, CurlTypeOK
    PROVE  /\ N \in Nat /\ Curl!Comics = 1 .. N
           /\ CurlCounted \in SUBSET Curl!Comics /\ CurlCounting \in SUBSET Curl!Comics
           /\ Cardinality(CurlCounted) \in Nat /\ Cardinality(got) \in Nat
           /\ Cardinality(CurlCounted) <= Cardinality(got)
<1>1. N \in Nat /\ Curl!Comics = 1 .. N
  BY DEF Curl!CurlThreadsAssumption, Curl!Comics
<1>2. CurlCounted \in SUBSET Curl!Comics /\ CurlCounting \in SUBSET Curl!Comics
      /\ CurlCounted \in SUBSET got /\ got \in SUBSET Curl!Comics
  BY DEF CurlCounted, CurlCounting, CurlTypeOK
<1>. QED
  BY <1>1, <1>2, CountType, SubsetCount

LEMMA CurlInitInv ==
    ASSUME Curl!CurlThreadsAssumption, Curl!Init
    PROVE  CurlInv
<1>1. CurlTypeOK
  BY DEF Curl!CurlThreadsAssumption, Curl!Init, CurlTypeOK, CurlAdds, CurlLinkAdds, Curl!NotSeen
<1>2. CurlCounting = {} /\ CurlCounted = {} /\ Cardinality({}) = 0
  BY FS_EmptySet, CurlAddsApart DEF Curl!Init, CurlCounting, CurlCounted
<1>. QED
  BY <1>1, <1>2 DEF CurlInv, Curl!Init, CurlCountInv

\* A thread goes from one place to the next with something to add.
LEMMA CurlGotoInv ==
    ASSUME Curl!CurlThreadsAssumption, CurlInv, NEW c \in Curl!Comics,
           NEW place \in {"perform", "status", "end"},
           NEW adds \in IF setting.links THEN CurlAdds \cup CurlLinkAdds ELSE CurlAdds,
           at[c] # "end", todo[c] = <<>>, Curl!Goto(c, place, adds),
           UNCHANGED <<setting, seen, count>>, open' \in SUBSET Curl!Comics,
           ~setting.links =>
              IF adds = <<Curl!Gotit, Curl!Closed>> THEN got' = got \cup {c} /\ place = "end"
              ELSE got' = got,
           got' \in {got, got \cup {c}}
    PROVE  CurlInv'
<1>1. /\ at' = [at EXCEPT ![c] = place] /\ todo' = [todo EXCEPT ![c] = adds]
  BY DEF Curl!Goto
<1>2. CurlTypeOK'
  BY <1>1 DEF CurlInv, CurlTypeOK
<1>3. ASSUME ~setting.links
      PROVE  CurlCountInv'
  <2>1. c \notin got /\ c \notin CurlCounting /\ seen[c] = Curl!NotSeen
    BY <1>3, CurlAddsApart DEF CurlInv, CurlCountInv, CurlCounting
  <2>0. todo'[c] = adds /\ \A d \in Curl!Comics \ {c} : todo'[d] = todo[d]
    BY <1>1 DEF CurlInv, CurlTypeOK
  <2>2. CurlCounting' = IF adds = <<Curl!Gotit, Curl!Closed>> THEN CurlCounting \cup {c} ELSE CurlCounting
    BY <2>0, <2>1 DEF CurlCounting
  <2>3. CurlCounted' = CurlCounted
    BY <1>3, <2>1, <2>2 DEF CurlCounted
  <2>4. seen[c] <= Cardinality(CurlCounted)
    BY <2>1, CurlCountsType DEF CurlInv, Curl!NotSeen
  <2>5. \A d \in got' : at'[d] = "end"
    BY <1>1, <1>3, <2>1 DEF CurlInv, CurlCountInv, CurlTypeOK
  <2>6. \A d \in Curl!Comics : todo'[d] = <<>> => seen'[d] = Curl!NotSeen
    BY <1>1, <1>3, <2>1 DEF CurlInv, CurlCountInv, CurlTypeOK
  <2>. QED
    BY <1>3, <2>2, <2>3, <2>4, <2>5, <2>6 DEF CurlInv, CurlCountInv
<1>. QED
  BY <1>2, <1>3 DEF CurlInv

LEMMA CurlStartInv ==
    ASSUME Curl!CurlThreadsAssumption, CurlInv, NEW c \in Curl!Comics, Curl!Start(c)
    PROVE  CurlInv'
<1>1. <<Curl!Gotit, Curl!Gotit>> \in CurlLinkAdds /\ <<Curl!Opened>> \in CurlAdds /\ <<>> \in CurlAdds
  BY DEF CurlAdds, CurlLinkAdds
<1>2. PICK adds \in IF setting.links THEN CurlAdds \cup CurlLinkAdds ELSE CurlAdds :
        /\ Curl!Goto(c, "perform", adds) /\ open' \in SUBSET Curl!Comics
        /\ ~setting.links => adds # <<Curl!Gotit, Curl!Closed>> /\ got' = got
        /\ got' \in {got, got \cup {c}}
  BY <1>1, CurlAddsApart DEF Curl!Start, CurlInv, CurlTypeOK
<1>3. at[c] # "end" /\ todo[c] = <<>> /\ UNCHANGED <<setting, seen, count>>
  BY DEF Curl!Start, Curl!Ready
<1>. QED
  BY <1>2, <1>3, CurlGotoInv

LEMMA CurlEndInv ==
    ASSUME Curl!CurlThreadsAssumption, CurlInv, NEW c \in Curl!Comics,
           Curl!Close(c) \/ Curl!HtmlFails(c) \/ Curl!NotOk(c)
    PROVE  CurlInv'
<1>1. <<Curl!Gotit, Curl!Closed>> \in CurlAdds /\ <<Curl!Closed>> \in CurlAdds /\ <<>> \in CurlAdds
  BY DEF CurlAdds
<1>2. PICK adds \in CurlAdds :
        /\ Curl!Goto(c, "end", adds) /\ open' \in SUBSET Curl!Comics
        /\ IF adds = <<Curl!Gotit, Curl!Closed>> THEN got' = got \cup {c} ELSE got' = got
  BY <1>1, CurlAddsApart DEF Curl!Close, Curl!HtmlFails, Curl!NotOk, CurlInv, CurlTypeOK
<1>3. at[c] # "end" /\ todo[c] = <<>> /\ UNCHANGED <<setting, seen, count>>
  BY DEF Curl!Close, Curl!HtmlFails, Curl!NotOk, Curl!Ready
<1>. QED
  BY <1>2, <1>3, CurlGotoInv

LEMMA CurlHtmlInv ==
    ASSUME Curl!CurlThreadsAssumption, CurlInv, NEW c \in Curl!Comics, Curl!Html(c)
    PROVE  CurlInv'
<1>1. <<Curl!Gotit>> \in CurlLinkAdds /\ <<>> \in CurlAdds
  BY DEF CurlAdds, CurlLinkAdds
<1>2. PICK adds \in IF setting.links THEN CurlAdds \cup CurlLinkAdds ELSE CurlAdds :
        /\ Curl!Goto(c, "perform", adds) /\ open' \in SUBSET Curl!Comics
        /\ ~setting.links => adds # <<Curl!Gotit, Curl!Closed>> /\ got' = got
        /\ got' \in {got, got \cup {c}}
  BY <1>1, CurlAddsApart DEF Curl!Html, CurlInv, CurlTypeOK
<1>3. at[c] # "end" /\ todo[c] = <<>> /\ UNCHANGED <<setting, seen, count>>
  BY DEF Curl!Html, Curl!Ready
<1>. QED
  BY <1>2, <1>3, CurlGotoInv

LEMMA CurlPerformInv ==
    ASSUME Curl!CurlThreadsAssumption, CurlInv, NEW c \in Curl!Comics, Curl!Perform(c)
    PROVE  CurlInv'
<1>1. /\ UNCHANGED <<setting, todo, seen, open, got, count>> /\ at[c] = "perform"
      /\ at' = [at EXCEPT ![c] = "status"]
  BY DEF Curl!Perform, Curl!Ready
<1>2. CurlCounting' = CurlCounting /\ CurlCounted' = CurlCounted
  BY <1>1 DEF CurlCounting, CurlCounted
<1>. QED
  BY <1>1, <1>2 DEF CurlInv, CurlTypeOK, CurlCountInv

\* A thread that has read gotit has read no more than the others have brought.
LEMMA CurlReadCountInv ==
    ASSUME Curl!CurlThreadsAssumption, CurlInv, NEW c \in Curl!Comics, Curl!ReadCount(c)
    PROVE  CurlInv'
<1>1. /\ UNCHANGED <<setting, at, todo, open, got, count>> /\ todo[c] # <<>>
      /\ seen' = [seen EXCEPT ![c] = count[Head(todo[c])[1]]]
  BY DEF Curl!ReadCount
<1>2. todo[c] \in CurlAdds \cup CurlLinkAdds
  BY DEF CurlInv, CurlTypeOK
<1>3. Head(todo[c])[1] \in {"gotit", "outstanding"}
  BY <1>1, <1>2, CurlAddsHead
<1>4. CurlTypeOK'
  BY <1>1, <1>3 DEF CurlInv, CurlTypeOK
<1>5. CurlCounting' = CurlCounting /\ CurlCounted' = CurlCounted
  BY <1>1 DEF CurlCounting, CurlCounted
<1>6. c \in CurlCounting => seen'[c] = count.gotit
  <2>1. c \in CurlCounting => Head(todo[c]) = Curl!Gotit
    BY <1>1, <1>2, CurlAddsHead DEF CurlCounting
  <2>. QED
    BY <1>1, <2>1 DEF Curl!Gotit, CurlInv, CurlTypeOK
<1>. QED
  BY <1>1, <1>4, <1>5, <1>6 DEF CurlInv, CurlCountInv, CurlTypeOK

\* What it writes counts itself at most: it is one of those counted now.
LEMMA CurlWriteCountInv ==
    ASSUME Curl!CurlThreadsAssumption, CurlInv, NEW c \in Curl!Comics, Curl!WriteCount(c)
    PROVE  CurlInv'
<1>. DEFINE a == todo[c]
<1>1. /\ UNCHANGED <<setting, at, open, got>> /\ a # <<>>
      /\ count' = [count EXCEPT ![Head(a)[1]] = seen[c] + Head(a)[2]]
      /\ todo' = [todo EXCEPT ![c] = Tail(a)]
      /\ seen' = [seen EXCEPT ![c] = Curl!NotSeen]
  BY DEF Curl!WriteCount
<1>2. a \in CurlAdds \cup CurlLinkAdds /\ (~setting.links => a \in CurlAdds)
  BY DEF CurlInv, CurlTypeOK
<1>. HIDE DEF a
<1>3. /\ Tail(a) \in CurlAdds \cup CurlLinkAdds
      /\ a \in CurlAdds => Tail(a) \in CurlAdds \ {<<Curl!Gotit, Curl!Closed>>}
      /\ Head(a)[1] \in {"gotit", "outstanding"} /\ Head(a)[2] \in Int
      /\ a \in CurlAdds \ {<<Curl!Gotit, Curl!Closed>>} => Head(a)[1] = "outstanding"
      /\ a = <<Curl!Gotit, Curl!Closed>> => Head(a) = Curl!Gotit
  <2>1. 1 \in Int /\ -1 \in Int
    OBVIOUS
  <2>. QED
    BY <1>1, <1>2, <2>1, CurlAddsHead
<1>4. CurlTypeOK'
  <2>1. count' \in [gotit: Int, outstanding: Int]
    <3>1. seen[c] + Head(a)[2] \in Int /\ count \in [gotit: Int, outstanding: Int]
      BY <1>3 DEF CurlInv, CurlTypeOK
    <3>2. CASE Head(a)[1] = "gotit"
      BY <1>1, <3>1, <3>2
    <3>3. CASE Head(a)[1] = "outstanding"
      BY <1>1, <3>1, <3>3
    <3>. QED
      BY <1>3, <3>2, <3>3
  <2>2. todo' \in [Curl!Comics -> IF setting'.links THEN CurlAdds \cup CurlLinkAdds ELSE CurlAdds]
    BY <1>1, <1>2, <1>3 DEF CurlInv, CurlTypeOK
  <2>. QED
    BY <1>1, <2>1, <2>2 DEF CurlInv, CurlTypeOK, Curl!NotSeen
<1>5. ASSUME ~setting.links
      PROVE  CurlCountInv'
  <2>1. CurlCounting' = CurlCounting \ {c}
    BY <1>1, <1>2, <1>3, <1>5 DEF CurlCounting, CurlInv, CurlTypeOK
  <2>2. \A d \in Curl!Comics \ {c} : todo'[d] = todo[d] /\ seen'[d] = seen[d]
    BY <1>1 DEF CurlInv, CurlTypeOK
  <2>3. seen'[c] = Curl!NotSeen
    BY <1>1 DEF CurlInv, CurlTypeOK
  <2>4. CASE c \notin CurlCounting
    <3>1. CurlCounting' = CurlCounting /\ CurlCounted' = CurlCounted
      BY <1>1, <2>1, <2>4 DEF CurlCounted
    <3>2. Head(a)[1] = "outstanding"
      BY <1>2, <1>3, <1>5, <2>4 DEF CurlCounting, a
    <3>3. count'.gotit = count.gotit
      BY <1>1, <3>2 DEF CurlInv, CurlTypeOK
    <3>. QED
      BY <1>1, <1>5, <2>2, <2>3, <2>4, <3>1, <3>3 DEF CurlInv, CurlCountInv
  <2>5. CASE c \in CurlCounting
    <3>1. CurlCounted' = CurlCounted \cup {c} /\ c \notin CurlCounted
      BY <1>1, <1>5, <2>1, <2>5 DEF CurlCounted, CurlInv, CurlCountInv
    <3>2. Cardinality(CurlCounted') = Cardinality(CurlCounted) + 1 /\ Cardinality(CurlCounted) \in Nat
      BY <3>1, CurlCountsType, AddCount DEF CurlInv
    <3>3. Head(a) = Curl!Gotit
      BY <1>3, <2>5 DEF CurlCounting, a
    <3>4. count'.gotit = seen[c] + 1 /\ seen[c] \in Int /\ count.gotit \in Int
      BY <1>1, <3>3 DEF Curl!Gotit, CurlInv, CurlTypeOK
    <3>5. count'.gotit <= Cardinality(CurlCounted')
      BY <1>5, <2>5, <3>2, <3>4 DEF CurlInv, CurlCountInv
    <3>6. \A d \in CurlCounting' : seen'[d] <= Cardinality(CurlCounted')
      BY <1>5, <2>1, <2>2, <3>2 DEF CurlInv, CurlCountInv, CurlTypeOK, CurlCounting
    <3>. QED
      BY <1>1, <1>5, <2>1, <2>2, <2>3, <3>5, <3>6 DEF CurlInv, CurlCountInv
  <2>. QED
    BY <2>4, <2>5
<1>. QED
  BY <1>1, <1>4, <1>5 DEF CurlInv

LEMMA CurlNextInv ==
    ASSUME Curl!CurlThreadsAssumption, CurlInv, [Curl!Next]_Curl!vars
    PROVE  CurlInv'
<1>1. CASE UNCHANGED Curl!vars \/ Curl!Join
  <2>1. UNCHANGED <<setting, at, todo, seen, open, got, count>>
    BY <1>1 DEF Curl!vars, Curl!Join
  <2>. QED
    BY <2>1 DEF CurlInv, CurlTypeOK, CurlCountInv, CurlCounting, CurlCounted
<1>2. ASSUME NEW c \in Curl!Comics, Curl!Thread(c)
      PROVE  CurlInv'
  BY <1>2, CurlStartInv, CurlEndInv, CurlHtmlInv, CurlPerformInv, CurlReadCountInv, CurlWriteCountInv
     DEF Curl!Thread
<1>. QED
  BY <1>1, <1>2 DEF Curl!Next

-----------------------------------------------------------------------------
\* However the threads run into each other when they add to gotit without a
\* lock, the program never says that it got more than it did (curl.c:63).
THEOREM CurlCountHonest == Curl!Spec => []Curl!CountHonest
<1>1. Curl!Init => CurlInv
  BY CurlInitInv, WorkersAssumption
<1>2. CurlInv /\ [Curl!Next]_Curl!vars => CurlInv'
  BY CurlNextInv, WorkersAssumption
<1>3. CurlInv => Curl!CountHonest
  BY WorkersAssumption, CurlCountsType, SameCardinality
     DEF CurlInv, CurlCountInv, Curl!CountHonest, CurlTypeOK
<1>. QED
  BY <1>1, <1>2, <1>3, PTL DEF Curl!Spec

\* main joins every thread, and a thread that has ended does no more (curl.c:81).
THEOREM CurlReportLast == Curl!Spec => []Curl!ReportLast
<1>1. Curl!Init => Curl!ReportLast
  BY DEF Curl!Init, Curl!ReportLast
<1>2. ASSUME Curl!ReportLast, [Curl!Next]_Curl!vars
      PROVE  Curl!ReportLast'
  <2>1. CASE UNCHANGED Curl!vars
    BY <1>2, <2>1 DEF Curl!vars, Curl!ReportLast, Curl!Ready
  <2>2. CASE Curl!Join
    BY <2>2 DEF Curl!Join, Curl!ReportLast, Curl!Ready
  <2>3. ASSUME NEW c \in Curl!Comics, Curl!Thread(c)
        PROVE  Curl!ReportLast'
    <3>1. ~Curl!Ready(c, "end") /\ main' = main
      BY <2>3 DEF Curl!Thread, Curl!ReadCount, Curl!WriteCount, Curl!Start, Curl!Perform, Curl!Close,
                  Curl!HtmlFails, Curl!Html, Curl!NotOk, Curl!Ready
    <3>. QED
      BY <1>2, <2>3, <3>1 DEF Curl!ReportLast
  <2>. QED
    BY <1>2, <2>1, <2>2, <2>3 DEF Curl!Next
<1>. QED
  BY <1>1, <1>2, PTL DEF Curl!Spec

-----------------------------------------------------------------------------
(* The Go version: GoComics.tla.                                           *)
GoTypeOK ==
    /\ setting \in GoSettings
    /\ main \in {"start", "wait", "over", "crashed"}
    /\ cur \in 0 .. N /\ done \in Nat
    /\ at \in [Go!Comics -> {"none", "page", "image", "count", "send", "panic", "gone", "dying"}]
    /\ seen \in [Go!Comics -> Nat \cup {Go!NotSeen}]
    /\ got \in SUBSET Go!Comics /\ count \in Nat

\* The comics are started in the order of the list.
GoStarted == \A c \in Go!Comics : at[c] = "none" <=> c > cur

\* The comics that are written and being counted: what the others have brought
\* is the most that count can be, and the most that any of them has read.
GoCounting == {c \in Go!Comics : at[c] = "count"}
GoCounted == got \ GoCounting
GoCountInv ==
    /\ \A c \in got : at[c] \in {"count", "send", "gone"}
    /\ GoCounting \subseteq got
    /\ count <= Cardinality(GoCounted)
    /\ \A c \in GoCounting : seen[c] <= Cardinality(GoCounted)
    /\ \A c \in Go!Comics \ GoCounting : seen[c] = Go!NotSeen

\* main has received once from each goroutine that is gone, or dies.
GoGone == {c \in Go!Comics : at[c] \in Go!Ended}
GoDoneInv == done = Cardinality(GoGone) /\ (main = "over" => done = N)

GoInv == GoTypeOK /\ GoStarted /\ GoCountInv /\ Go!AtMostLimit /\ GoDoneInv

-----------------------------------------------------------------------------
LEMMA GoCountsType ==
    ASSUME Go!GoComicsAssumption, GoTypeOK
    PROVE  /\ N \in Nat /\ Go!Comics = 1 .. N
           /\ Go!Running \in SUBSET Go!Comics /\ GoGone \in SUBSET Go!Comics
           /\ GoCounted \in SUBSET Go!Comics /\ GoCounting \in SUBSET Go!Comics
           /\ Cardinality(Go!Running) \in Nat /\ Cardinality(GoGone) \in Nat
           /\ Cardinality(GoCounted) \in Nat /\ Cardinality(got) \in Nat
           /\ Cardinality(GoCounted) <= Cardinality(got)
           /\ setting.limit \in Int
<1>1. N \in Nat /\ Go!Comics = 1 .. N /\ setting.limit \in Int
  BY DEF Go!GoComicsAssumption, Go!Comics, GoTypeOK
<1>2. Go!Running \in SUBSET Go!Comics /\ GoGone \in SUBSET Go!Comics /\ GoCounted \in SUBSET Go!Comics
      /\ GoCounting \in SUBSET Go!Comics /\ GoCounted \in SUBSET got /\ got \in SUBSET Go!Comics
  BY DEF Go!Running, GoGone, GoCounted, GoCounting, GoTypeOK
<1>. QED
  BY <1>1, <1>2, CountType, SubsetCount

\* A step that starts no comic keeps the limit.
LEMMA GoFewerRun ==
    ASSUME Go!GoComicsAssumption, GoTypeOK, Go!AtMostLimit, Go!Running' \subseteq Go!Running,
           setting' = setting
    PROVE  Go!AtMostLimit'
<1>1. Go!Running' \in SUBSET Go!Comics
  BY GoCountsType
<1>2. Cardinality(Go!Running') <= Cardinality(Go!Running) /\ Cardinality(Go!Running') \in Nat
  BY <1>1, GoCountsType, CountType, SubsetCount
<1>. QED
  BY <1>2, GoCountsType, SameCardinality DEF Go!AtMostLimit

LEMMA GoInitInv ==
    ASSUME Go!GoComicsAssumption, Go!Init
    PROVE  GoInv
<1>1. GoTypeOK /\ GoStarted
  BY DEF Go!GoComicsAssumption, Go!Init, GoTypeOK, GoStarted, Go!Comics, Go!NotSeen
<1>2. Go!Running = {} /\ GoGone = {} /\ GoCounting = {} /\ GoCounted = {}
  BY DEF Go!Init, Go!Running, Go!Ended, GoGone, GoCounting, GoCounted
<1>3. Cardinality({}) = 0
  BY FS_EmptySet
<1>. QED
  BY <1>1, <1>2, <1>3 DEF GoInv, Go!Init, GoCountInv, Go!AtMostLimit, GoDoneInv

\* The steps of main.
LEMMA GoStartFirstInv ==
    ASSUME Go!GoComicsAssumption, GoInv, Go!StartFirst
    PROVE  GoInv'
<1>. DEFINE c == cur + 1
<1>1. c \in Go!Comics /\ at[c] = "none" /\ at' = [at EXCEPT ![c] = "page"] /\ cur' = c
  BY DEF Go!GoComicsAssumption, GoInv, GoTypeOK, GoStarted, Go!StartFirst, Go!Go, Go!Goto, Go!Comics
<1>2. GoTypeOK' /\ GoStarted'
  BY <1>1 DEF GoInv, GoTypeOK, GoStarted, Go!StartFirst, Go!Comics, Go!NotSeen
<1>3. GoGone' = GoGone /\ GoCounting' = GoCounting /\ GoCounted' = GoCounted
  BY <1>1 DEF GoInv, GoTypeOK, Go!StartFirst, GoGone, Go!Ended, GoCounting, GoCounted
<1>4. GoCountInv' /\ GoDoneInv'
  BY <1>1, <1>3 DEF GoInv, GoTypeOK, Go!StartFirst, GoCountInv, GoDoneInv, GoCounting, GoCounted
<1>5. Go!Running' \in SUBSET (1 .. c)
  BY <1>1, <1>2 DEF Go!Running, GoStarted, GoTypeOK, Go!Comics, GoInv
<1>6. c \in Nat /\ Cardinality(Go!Running') \in Nat /\ Cardinality(Go!Running') <= c
  BY SMTT(60), <1>1, <1>5, CountType, GoCountsType DEF GoInv
<1>7. c <= setting.limit /\ setting' = setting
  BY GoCountsType DEF GoInv, GoTypeOK, Go!StartFirst
<1>8. Go!AtMostLimit'
  BY <1>6, <1>7, GoCountsType, SameCardinality DEF GoInv, Go!AtMostLimit
<1>. QED
  BY <1>2, <1>4, <1>8 DEF GoInv

LEMMA GoReceiveInv ==
    ASSUME Go!GoComicsAssumption, GoInv, NEW c \in Go!Comics, Go!Receive(c)
    PROVE  GoInv'
<1>1. /\ cur' \in 0 .. N /\ at'[c] \in Go!Ended /\ at[c] \in {"send", "panic"} /\ c <= cur
      /\ (at[c] = "send" => at'[c] = "gone")
      /\ \A d \in Go!Comics : d # c =>
            \/ d = cur + 1 /\ at[d] = "none" /\ at'[d] = "page" /\ cur' = cur + 1
            \/ d # cur + 1 /\ at'[d] = at[d]
  BY DEF Go!GoComicsAssumption, GoInv, GoTypeOK, GoStarted, Go!Receive, Go!Comics, Go!Ended
<1>2. GoTypeOK'
  BY <1>1 DEF GoInv, GoTypeOK, Go!Receive, Go!Ended
<1>3. GoStarted'
  BY <1>1 DEF Go!GoComicsAssumption, GoInv, GoTypeOK, GoStarted, Go!Receive, Go!Comics, Go!Ended
<1>4. GoCounting' = GoCounting /\ GoCounted' = GoCounted
  BY <1>1 DEF GoInv, GoTypeOK, Go!Receive, GoCounting, GoCounted, Go!Ended
<1>5. GoCountInv'
  BY <1>1, <1>4 DEF GoInv, GoTypeOK, Go!Receive, GoCountInv, GoCounting, GoCounted
<1>6. GoGone' = GoGone \cup {c} /\ c \notin GoGone
  BY <1>1 DEF GoGone, Go!Ended
<1>7. GoDoneInv'
  BY <1>6, GoCountsType, AddCount DEF GoInv, GoDoneInv, Go!Receive
<1>8. Go!AtMostLimit'
  <2>1. c \in Go!Running
    BY <1>1 DEF Go!Running, Go!Ended
  <2>2. CASE cur < N
    <3>1. cur + 1 \in Go!Comics /\ Go!Running' \in SUBSET Go!Comics
      BY <2>2, GoCountsType DEF Go!Running, GoInv, GoTypeOK
    <3>2. \A d \in Go!Running' : d \in Go!Running \ {c} \/ d = cur + 1
      BY <1>1 DEF Go!Running, Go!Ended
    <3>3. Go!Running' \in SUBSET ((Go!Running \ {c}) \cup {cur + 1})
      BY <3>2
    <3>4. Cardinality(Go!Running') <= Cardinality(Go!Running) /\ Cardinality(Go!Running') \in Nat
      BY <2>1, <3>1, <3>3, GoCountsType, CountType, ExchangeCount DEF GoInv
    <3>. QED
      BY <2>1, <3>4, GoCountsType, SameCardinality DEF GoInv, Go!AtMostLimit, Go!Receive
  <2>3. CASE ~(cur < N)
    <3>1. \A d \in Go!Running' : d \in Go!Running
      BY <1>1, <2>3, GoCountsType DEF Go!Running, GoInv, GoTypeOK
    <3>. QED
      BY <3>1, GoFewerRun DEF GoInv, Go!Receive
  <2>. QED
    BY <2>2, <2>3
<1>. QED
  BY <1>2, <1>3, <1>5, <1>7, <1>8 DEF GoInv

LEMMA GoMainRestInv ==
    ASSUME Go!GoComicsAssumption, GoInv, Go!AllFirst \/ Go!Report
    PROVE  GoInv'
<1>1. GoTypeOK' /\ GoStarted' /\ (main' = "over" => done' = N)
  BY DEF GoInv, GoTypeOK, GoStarted, GoDoneInv, Go!AllFirst, Go!Report
<1>2. Go!Running' = Go!Running /\ GoGone' = GoGone /\ GoCounting' = GoCounting /\ GoCounted' = GoCounted
  BY DEF Go!AllFirst, Go!Report, Go!Running, GoGone, GoCounting, GoCounted
<1>. QED
  BY <1>1, <1>2 DEF GoInv, GoCountInv, Go!AtMostLimit, GoDoneInv, Go!AllFirst, Go!Report

\* A goroutine goes on without counting, and to no place where it is gone.
LEMMA GoGoesOnInv ==
    ASSUME Go!GoComicsAssumption, GoInv, NEW c \in Go!Comics,
           NEW place \in {"image", "count", "send", "panic"}, at[c] \in {"page", "image"},
           Go!Goto(c, place), UNCHANGED <<setting, late, main, cur, done, seen, count>>,
           got' = IF place = "count" THEN got \cup {c} ELSE got
    PROVE  GoInv'
<1>1. at'[c] = place /\ (\A d \in Go!Comics \ {c} : at'[d] = at[d]) /\ c \notin got
  BY DEF Go!Goto, GoInv, GoTypeOK, GoCountInv
<1>2. GoTypeOK' /\ GoStarted'
  BY <1>1 DEF Go!Goto, GoInv, GoTypeOK, GoStarted
<1>3. Go!Running' = Go!Running /\ GoGone' = GoGone /\ GoCounted' = GoCounted
  BY <1>1 DEF Go!Running, Go!Ended, GoGone, GoCounted, GoCounting, GoInv, GoTypeOK
<1>4. GoCountInv'
  <2>1. CASE place # "count"
    BY <1>1, <1>3, <2>1 DEF GoInv, GoCountInv, GoCounting, GoTypeOK
  <2>2. CASE place = "count"
    <3>1. GoCounting' = GoCounting \cup {c} /\ got' = got \cup {c}
      BY <1>1, <2>2 DEF GoCounting
    <3>2. seen[c] <= Cardinality(GoCounted)
      BY GoCountsType DEF GoInv, GoTypeOK, GoCountInv, GoCounting, Go!NotSeen
    <3>. QED
      BY <1>1, <1>3, <2>2, <3>1, <3>2 DEF GoInv, GoCountInv, GoTypeOK
  <2>. QED
    BY <2>1, <2>2
<1>. QED
  BY <1>2, <1>3, <1>4 DEF GoInv, Go!AtMostLimit, GoDoneInv

LEMMA GoPageInv ==
    ASSUME Go!GoComicsAssumption, GoInv, NEW c \in Go!Comics, Go!Page(c)
    PROVE  GoInv'
<1>1. PICK place \in {"image", "send", "panic"} : Go!Goto(c, place)
  BY DEF Go!Page
<1>. QED
  BY <1>1, GoGoesOnInv DEF Go!Page

\* A panic changes nothing but main.
LEMMA GoDieInv ==
    ASSUME Go!GoComicsAssumption, GoInv, NEW c \in Go!Comics, Go!Die(c)
    PROVE  GoInv'
<1>1. GoTypeOK' /\ GoStarted'
  BY DEF GoInv, GoTypeOK, GoStarted, Go!Die
<1>2. Go!Running' = Go!Running /\ GoGone' = GoGone /\ GoCounting' = GoCounting /\ GoCounted' = GoCounted
  BY DEF Go!Die, Go!Running, GoGone, GoCounting, GoCounted
<1>. QED
  BY <1>1, <1>2 DEF GoInv, GoCountInv, Go!AtMostLimit, GoDoneInv, Go!Die

LEMMA GoImageInv ==
    ASSUME Go!GoComicsAssumption, GoInv, NEW c \in Go!Comics, Go!Image(c)
    PROVE  GoInv'
<1>1. PICK place \in {"count", "send"} :
        Go!Goto(c, place) /\ got' = IF place = "count" THEN got \cup {c} ELSE got
  BY DEF Go!Image
<1>. QED
  BY <1>1, GoGoesOnInv DEF Go!Image

\* A goroutine that has read got has read no more than the others have brought.
LEMMA GoReadGotInv ==
    ASSUME Go!GoComicsAssumption, GoInv, NEW c \in Go!Comics, Go!ReadGot(c)
    PROVE  GoInv'
<1>1. UNCHANGED <<setting, late, main, cur, done, at, got, count>> /\ c \in GoCounting
      /\ seen' = [seen EXCEPT ![c] = count]
  BY DEF Go!ReadGot, GoCounting
<1>2. GoTypeOK' /\ GoStarted'
  BY <1>1 DEF GoInv, GoTypeOK, GoStarted
<1>3. Go!Running' = Go!Running /\ GoGone' = GoGone /\ GoCounting' = GoCounting /\ GoCounted' = GoCounted
  BY <1>1 DEF Go!Running, GoGone, GoCounting, GoCounted
<1>4. GoCountInv'
  BY <1>1, <1>3 DEF GoInv, GoCountInv, GoTypeOK, GoCounting
<1>. QED
  BY <1>1, <1>2, <1>3, <1>4 DEF GoInv, Go!AtMostLimit, GoDoneInv

\* What it writes counts itself at most: it is one of those counted now.
LEMMA GoWriteGotInv ==
    ASSUME Go!GoComicsAssumption, GoInv, NEW c \in Go!Comics, Go!WriteGot(c)
    PROVE  GoInv'
<1>1. /\ UNCHANGED <<setting, late, main, cur, done, got>> /\ c \in GoCounting
      /\ seen' = [seen EXCEPT ![c] = Go!NotSeen] /\ at' = [at EXCEPT ![c] = "send"]
      /\ count' = seen[c] + 1 /\ seen[c] # Go!NotSeen
  BY DEF Go!WriteGot, GoCounting, Go!Goto
<1>2. at[c] = "count" /\ at'[c] = "send" /\ \A d \in Go!Comics \ {c} : at'[d] = at[d]
  BY <1>1 DEF GoCounting, GoInv, GoTypeOK
<1>3. GoTypeOK' /\ GoStarted'
  BY <1>1, <1>2 DEF GoInv, GoTypeOK, GoStarted
<1>4. Go!Running' = Go!Running /\ GoGone' = GoGone /\ GoCounting' = GoCounting \ {c}
  BY <1>2 DEF Go!Running, Go!Ended, GoGone, GoCounting
<1>5. GoCounted' = GoCounted \cup {c} /\ c \notin GoCounted
  BY <1>1, <1>4 DEF GoCounted, GoInv, GoCountInv
<1>6. Cardinality(GoCounted') = Cardinality(GoCounted) + 1
  BY <1>5, GoCountsType, AddCount DEF GoInv
<1>7. GoCountInv'
  <2>1. count' <= Cardinality(GoCounted') /\ seen[c] \in Nat
    BY <1>1, <1>6, GoCountsType DEF GoInv, GoCountInv, GoTypeOK
  <2>2. \A d \in GoCounting' : seen'[d] <= Cardinality(GoCounted')
    BY SMTT(60), <1>1, <1>4, <1>6, GoCountsType DEF GoInv, GoCountInv, GoTypeOK, Go!NotSeen
  <2>3. \A d \in Go!Comics \ GoCounting' : seen'[d] = Go!NotSeen
    BY <1>1, <1>4 DEF GoInv, GoCountInv, GoTypeOK
  <2>. QED
    BY <1>1, <1>2, <1>4, <2>1, <2>2, <2>3 DEF GoInv, GoCountInv, GoTypeOK
<1>. QED
  BY <1>1, <1>3, <1>4, <1>7 DEF GoInv, Go!AtMostLimit, GoDoneInv

LEMMA GoNextInv ==
    ASSUME Go!GoComicsAssumption, GoInv, [Go!Next]_Go!vars
    PROVE  GoInv'
<1>1. CASE UNCHANGED Go!vars
  BY <1>1 DEF Go!vars, GoInv, GoTypeOK, GoStarted, GoCountInv, Go!AtMostLimit, GoDoneInv, Go!Running, GoGone,
              GoCounting, GoCounted
<1>2. CASE Go!Main
  BY <1>2, GoStartFirstInv, GoReceiveInv, GoMainRestInv DEF Go!Main
<1>3. ASSUME NEW c \in Go!Comics, Go!Routine(c)
      PROVE  GoInv'
  BY <1>3, GoPageInv, GoDieInv, GoImageInv, GoReadGotInv, GoWriteGotInv DEF Go!Routine
<1>. QED
  BY <1>1, <1>2, <1>3 DEF Go!Next

-----------------------------------------------------------------------------
LEMMA GoInvariance == Go!Spec => []GoInv
<1>1. Go!Init => GoInv
  BY GoInitInv, WorkersAssumption
<1>2. GoInv /\ [Go!Next]_Go!vars => GoInv'
  BY GoNextInv, WorkersAssumption
<1>. QED
  BY <1>1, <1>2, PTL DEF Go!Spec

\* Losing counts is all that the unsynchronised counter can do: it is never
\* more than the comics that were written (get-comics.go:348).
THEOREM GoCountHonest == Go!Spec => []Go!CountHonest
<1>1. GoInv => Go!CountHonest
  BY WorkersAssumption, GoCountsType, SameCardinality DEF GoInv, GoCountInv, Go!CountHonest, GoTypeOK
<1>. QED
  BY <1>1, GoInvariance, PTL

\* However the goroutines and main take turns, no more comics are being got
\* than the limit allows (get-comics.go:435-446).
THEOREM GoAtMostLimit == Go!Spec => []Go!AtMostLimit
<1>1. GoInv => Go!AtMostLimit
  BY DEF GoInv
<1>. QED
  BY <1>1, GoInvariance, PTL

\* main reports when every goroutine is gone: it counts what it receives.
THEOREM GoReportLast == Go!Spec => []Go!ReportLast
<1>1. GoInv => Go!ReportLast
  <2>1. ASSUME GoInv, main = "over"
        PROVE  GoGone = Go!Comics
    BY <2>1, WorkersAssumption, GoCountsType, CountType DEF GoInv, GoDoneInv
  <2>. QED
    BY <2>1 DEF Go!ReportLast, GoGone
<1>. QED
  BY <1>1, GoInvariance, PTL

-----------------------------------------------------------------------------
(* The Python version: PyComics.tla.                                       *)
PyTypeOK ==
    /\ setting \in PySettings /\ main \in {"start", "join", "over"}
    /\ next \in 1 .. N + 1 /\ sema \in Nat
    /\ at \in [Py!Comics -> {"none", "get", "lock", "write", "count", "release", "done", "dead"}]
    /\ seen \in [Py!Comics -> Nat \cup {Py!NotSeen}]
    /\ got \in SUBSET Py!Comics /\ count \in Nat

PyUnstarted == \A c \in Py!Comics : c >= next => at[c] = "none"

\* Who has acquired the semaphore and not released it: a thread that was ended
\* by an exception is among them for ever.
PyTaken == {c \in Py!Comics : at[c] \notin {"none", "done"}}
PySemaInv == sema + Cardinality(PyTaken) = setting.nthreads

\* The comics that are written and being counted: what the others have brought
\* is the most that count can be, and the most that any of them has read.
PyCounting == {c \in Py!Comics : at[c] = "count"}
PyCounted == got \ PyCounting
PyCountInv ==
    /\ \A c \in got : at[c] \in {"count", "release", "done"}
    /\ PyCounting \subseteq got
    /\ count <= Cardinality(PyCounted)
    /\ \A c \in PyCounting : seen[c] <= Cardinality(PyCounted)
    /\ \A c \in Py!Comics \ PyCounting : seen[c] = Py!NotSeen

PyInv == PyTypeOK /\ PyUnstarted /\ PySemaInv /\ PyCountInv /\ Py!ReportLast

-----------------------------------------------------------------------------
LEMMA PyCountsType ==
    ASSUME Py!PyComicsAssumption, PyTypeOK
    PROVE  /\ N \in Nat /\ Py!Comics = 1 .. N /\ setting.nthreads \in Nat
           /\ PyTaken \in SUBSET Py!Comics /\ PyCounted \in SUBSET Py!Comics
           /\ PyCounting \in SUBSET Py!Comics
           /\ Cardinality(PyTaken) \in Nat /\ Cardinality(PyCounted) \in Nat
           /\ Cardinality(got) \in Nat /\ Cardinality(PyCounted) <= Cardinality(got)
<1>1. N \in Nat /\ Py!Comics = 1 .. N /\ setting.nthreads \in Nat
  BY DEF Py!PyComicsAssumption, Py!Comics, PyTypeOK
<1>2. PyTaken \in SUBSET Py!Comics /\ PyCounted \in SUBSET Py!Comics /\ PyCounting \in SUBSET Py!Comics
      /\ PyCounted \in SUBSET got /\ got \in SUBSET Py!Comics
  BY DEF PyTaken, PyCounted, PyCounting, PyTypeOK
<1>. QED
  BY <1>1, <1>2, CountType, SubsetCount

LEMMA PyInitInv ==
    ASSUME Py!PyComicsAssumption, Py!Init
    PROVE  PyInv
<1>1. PyTypeOK /\ PyUnstarted /\ Py!ReportLast
  BY DEF Py!PyComicsAssumption, Py!Init, PyTypeOK, PyUnstarted, Py!ReportLast, Py!Comics, Py!NotSeen
<1>2. PyTaken = {} /\ PyCounting = {} /\ PyCounted = {} /\ Cardinality({}) = 0
  BY FS_EmptySet DEF Py!Init, PyTaken, PyCounting, PyCounted
<1>3. setting.nthreads \in Nat
  BY <1>1, PyCountsType
<1>. QED
  BY <1>1, <1>2, <1>3 DEF PyInv, Py!Init, PyCountInv, PySemaInv

\* The steps of main.
LEMMA PyStartThreadInv ==
    ASSUME Py!PyComicsAssumption, PyInv, Py!StartThread
    PROVE  PyInv'
<1>1. /\ next \in Py!Comics /\ at[next] = "none" /\ at' = [at EXCEPT ![next] = "get"]
      /\ next' = next + 1 /\ sema' = sema - 1 /\ sema > 0 /\ main = "start"
      /\ UNCHANGED <<setting, main, seen, got, count>>
  BY DEF Py!StartThread, Py!Goto, PyInv, PyTypeOK, PyUnstarted
<1>2. PyTypeOK' /\ PyUnstarted' /\ Py!ReportLast'
  <2>1. next + 1 \in 1 .. N + 1 /\ sema - 1 \in Nat
    BY <1>1, PyCountsType DEF PyInv, PyTypeOK
  <2>2. PyTypeOK'
    BY <1>1, <2>1 DEF PyInv, PyTypeOK
  <2>3. PyUnstarted'
    BY <1>1, PyCountsType DEF PyInv, PyTypeOK, PyUnstarted
  <2>. QED
    BY <1>1, <2>2, <2>3 DEF Py!ReportLast
<1>3. PyTaken' = PyTaken \cup {next} /\ next \notin PyTaken
  BY <1>1 DEF PyTaken, PyInv, PyTypeOK
<1>4. PySemaInv'
  <2>1. Cardinality(PyTaken') = Cardinality(PyTaken) + 1
    BY <1>1, <1>3, PyCountsType, AddCount DEF PyInv
  <2>. QED
    BY <1>1, <2>1, PyCountsType DEF PyInv, PySemaInv, PyTypeOK
<1>5. PyCounting' = PyCounting /\ PyCounted' = PyCounted /\ next \notin got
  BY <1>1 DEF PyCounting, PyCounted, PyInv, PyTypeOK, PyCountInv
<1>6. PyCountInv'
  BY <1>1, <1>5 DEF PyInv, PyCountInv, PyTypeOK
<1>. QED
  BY <1>2, <1>4, <1>6 DEF PyInv

LEMMA PyMainRestInv ==
    ASSUME Py!PyComicsAssumption, PyInv, Py!Skip \/ Py!AllStarted \/ Py!Join
    PROVE  PyInv'
<1>1. UNCHANGED <<setting, sema, at, seen, got, count>>
  BY DEF Py!Skip, Py!AllStarted, Py!Join
<1>2. PyTypeOK' /\ PyUnstarted'
  <2>1. CASE Py!Skip
    BY <2>1, PyCountsType DEF Py!Skip, PyInv, PyTypeOK, PyUnstarted, Py!PyComicsAssumption
  <2>2. CASE Py!AllStarted \/ Py!Join
    BY <2>2 DEF Py!AllStarted, Py!Join, PyInv, PyTypeOK, PyUnstarted
  <2>. QED
    BY <2>1, <2>2
<1>3. Py!ReportLast'
  BY DEF Py!Skip, Py!AllStarted, Py!Join, PyInv, Py!ReportLast, Py!Ended
<1>4. PyTaken' = PyTaken /\ PyCounting' = PyCounting /\ PyCounted' = PyCounted
  BY <1>1 DEF PyTaken, PyCounting, PyCounted
<1>. QED
  BY <1>1, <1>2, <1>3, <1>4 DEF PyInv, PySemaInv, PyCountInv

\* A thread goes on without counting or releasing; it may just have written.
LEMMA PyGoesOnInv ==
    ASSUME Py!PyComicsAssumption, PyInv, NEW c \in Py!Comics,
           NEW place \in {"lock", "write", "count", "release", "dead"},
           at[c] \in {"get", "lock", "write"}, Py!Goto(c, place),
           UNCHANGED <<setting, main, next, sema, seen, count>>,
           got' = IF place = "count" THEN got \cup {c} ELSE got
    PROVE  PyInv'
<1>1. at'[c] = place /\ (\A d \in Py!Comics \ {c} : at'[d] = at[d]) /\ c \notin got
  BY DEF Py!Goto, PyInv, PyTypeOK, PyCountInv
<1>2. PyTypeOK' /\ PyUnstarted'
  BY <1>1 DEF Py!Goto, PyInv, PyTypeOK, PyUnstarted
<1>3. Py!ReportLast'
  BY <1>1 DEF PyInv, Py!ReportLast, Py!Ended
<1>4. PyTaken' = PyTaken /\ PyCounted' = PyCounted
  BY <1>1 DEF PyTaken, PyCounted, PyCounting, PyInv, PyTypeOK
<1>5. PyCountInv'
  <2>1. CASE place # "count"
    BY <1>1, <1>4, <2>1 DEF PyInv, PyCountInv, PyCounting, PyTypeOK
  <2>2. CASE place = "count"
    <3>1. PyCounting' = PyCounting \cup {c} /\ got' = got \cup {c}
      BY <1>1, <2>2 DEF PyCounting
    <3>2. seen[c] <= Cardinality(PyCounted)
      BY PyCountsType DEF PyInv, PyTypeOK, PyCountInv, PyCounting, Py!NotSeen
    <3>. QED
      BY <1>1, <1>4, <2>2, <3>1, <3>2 DEF PyInv, PyCountInv, PyTypeOK
  <2>. QED
    BY <2>1, <2>2
<1>. QED
  BY <1>2, <1>3, <1>4, <1>5 DEF PyInv, PySemaInv

LEMMA PyGetInv ==
    ASSUME Py!PyComicsAssumption, PyInv, NEW c \in Py!Comics,
           Py!Get(c) \/ Py!Lock(c) \/ Py!WriteLink(c)
    PROVE  PyInv'
<1>1. PICK place \in {"lock", "write", "count", "release", "dead"} :
        Py!Goto(c, place) /\ got' = IF place = "count" THEN got \cup {c} ELSE got
  BY DEF Py!Get, Py!Lock, Py!WriteLink
<1>2. at[c] \in {"get", "lock", "write"} /\ UNCHANGED <<setting, main, next, sema, seen, count>>
  BY DEF Py!Get, Py!Lock, Py!WriteLink
<1>. QED
  BY <1>1, <1>2, PyGoesOnInv

\* A thread that has read the counter has read no more than the others have
\* brought.
LEMMA PyReadGotInv ==
    ASSUME Py!PyComicsAssumption, PyInv, NEW c \in Py!Comics, Py!ReadGot(c)
    PROVE  PyInv'
<1>1. UNCHANGED <<setting, main, next, sema, at, got, count>> /\ c \in PyCounting
      /\ seen' = [seen EXCEPT ![c] = count]
  BY DEF Py!ReadGot, PyCounting
<1>2. PyTypeOK' /\ PyUnstarted' /\ Py!ReportLast'
  BY <1>1 DEF PyInv, PyTypeOK, PyUnstarted, Py!ReportLast, Py!Ended
<1>3. PyTaken' = PyTaken /\ PyCounting' = PyCounting /\ PyCounted' = PyCounted
  BY <1>1 DEF PyTaken, PyCounting, PyCounted
<1>4. PyCountInv'
  BY <1>1, <1>3 DEF PyInv, PyCountInv, PyTypeOK, PyCounting
<1>. QED
  BY <1>1, <1>2, <1>3, <1>4 DEF PyInv, PySemaInv

\* What it writes counts itself at most: it is one of those counted now.
LEMMA PyWriteGotInv ==
    ASSUME Py!PyComicsAssumption, PyInv, NEW c \in Py!Comics, Py!WriteGot(c)
    PROVE  PyInv'
<1>1. /\ UNCHANGED <<setting, main, next, sema, got>> /\ c \in PyCounting
      /\ seen' = [seen EXCEPT ![c] = Py!NotSeen] /\ at' = [at EXCEPT ![c] = "release"]
      /\ count' = seen[c] + 1 /\ seen[c] # Py!NotSeen
  BY DEF Py!WriteGot, PyCounting, Py!Goto
<1>2. at[c] = "count" /\ at'[c] = "release" /\ \A d \in Py!Comics \ {c} : at'[d] = at[d]
  BY <1>1 DEF PyCounting, PyInv, PyTypeOK
<1>3. PyTypeOK' /\ PyUnstarted' /\ Py!ReportLast'
  BY <1>1, <1>2 DEF PyInv, PyTypeOK, PyUnstarted, Py!ReportLast, Py!Ended
<1>4. PyTaken' = PyTaken /\ PyCounting' = PyCounting \ {c}
  BY <1>2 DEF PyTaken, PyCounting
<1>5. PyCounted' = PyCounted \cup {c} /\ c \notin PyCounted
  BY <1>1, <1>4 DEF PyCounted, PyInv, PyCountInv
<1>6. Cardinality(PyCounted') = Cardinality(PyCounted) + 1
  BY <1>5, PyCountsType, AddCount DEF PyInv
<1>7. PyCountInv'
  <2>1. count' <= Cardinality(PyCounted') /\ seen[c] \in Nat
    BY <1>1, <1>6, PyCountsType DEF PyInv, PyCountInv, PyTypeOK
  <2>2. \A d \in PyCounting' : seen'[d] <= Cardinality(PyCounted')
    BY SMTT(60), <1>1, <1>4, <1>6, PyCountsType DEF PyInv, PyCountInv, PyTypeOK, Py!NotSeen
  <2>3. \A d \in Py!Comics \ PyCounting' : seen'[d] = Py!NotSeen
    BY <1>1, <1>4 DEF PyInv, PyCountInv, PyTypeOK
  <2>. QED
    BY <1>1, <1>2, <1>4, <2>1, <2>2, <2>3 DEF PyInv, PyCountInv, PyTypeOK
<1>. QED
  BY <1>1, <1>3, <1>4, <1>7 DEF PyInv, PySemaInv

LEMMA PyReleaseInv ==
    ASSUME Py!PyComicsAssumption, PyInv, NEW c \in Py!Comics, Py!Release(c)
    PROVE  PyInv'
<1>1. /\ UNCHANGED <<setting, main, next, seen, got, count>> /\ at[c] = "release"
      /\ sema' = sema + 1 /\ at' = [at EXCEPT ![c] = "done"]
  BY DEF Py!Release, Py!Goto
<1>2. PyTypeOK' /\ PyUnstarted' /\ Py!ReportLast'
  BY <1>1 DEF PyInv, PyTypeOK, PyUnstarted, Py!ReportLast, Py!Ended
<1>3. PyCounting' = PyCounting /\ PyCounted' = PyCounted /\ c \notin PyCounting
  BY <1>1 DEF PyCounting, PyCounted, PyInv, PyTypeOK
<1>4. PyCountInv'
  BY <1>1, <1>3 DEF PyInv, PyCountInv, PyTypeOK
<1>5. PyTaken = PyTaken' \cup {c} /\ c \notin PyTaken' /\ PyTaken' \in SUBSET Py!Comics
  BY <1>1 DEF PyTaken, PyInv, PyTypeOK
<1>6. Cardinality(PyTaken) = Cardinality(PyTaken') + 1 /\ Cardinality(PyTaken') \in Nat
  BY <1>5, PyCountsType, AddCount DEF PyInv
<1>. QED
  BY SMTT(60), <1>1, <1>2, <1>4, <1>6, PyCountsType DEF PyInv, PySemaInv, PyTypeOK

LEMMA PyNextInv ==
    ASSUME Py!PyComicsAssumption, PyInv, [Py!Next]_Py!vars
    PROVE  PyInv'
<1>1. CASE UNCHANGED Py!vars
  BY <1>1 DEF Py!vars, PyInv, PyTypeOK, PyUnstarted, PySemaInv, PyCountInv, Py!ReportLast, Py!Ended, PyTaken,
              PyCounting, PyCounted
<1>2. CASE Py!Main
  BY <1>2, PyStartThreadInv, PyMainRestInv DEF Py!Main
<1>3. ASSUME NEW c \in Py!Comics, Py!Thread(c)
      PROVE  PyInv'
  BY <1>3, PyGetInv, PyReadGotInv, PyWriteGotInv, PyReleaseInv DEF Py!Thread
<1>. QED
  BY <1>1, <1>2, <1>3 DEF Py!Next

-----------------------------------------------------------------------------
LEMMA PyInvariance == Py!Spec => []PyInv
<1>1. Py!Init => PyInv
  BY PyInitInv, WorkersAssumption
<1>2. PyInv /\ [Py!Next]_Py!vars => PyInv'
  BY PyNextInv, WorkersAssumption
<1>. QED
  BY <1>1, <1>2, PTL DEF Py!Spec

\* Comic.got is never more than the comics that were written, though threads
\* add to it without a lock (get-comics.py:223, 231, 252, 255).
THEOREM PyCountHonest == Py!Spec => []Py!CountHonest
<1>1. PyInv => Py!CountHonest
  BY WorkersAssumption, PyCountsType, SameCardinality DEF PyInv, PyCountInv, Py!CountHonest, PyTypeOK
<1>. QED
  BY <1>1, PyInvariance, PTL

\* Whatever ends the threads, no more of them run than the semaphore was made
\* for: what an exception leaves taken is taken for ever.
THEOREM PyAtMostLimit == Py!Spec => []Py!AtMostLimit
<1>1. PyInv => Py!AtMostLimit
  <2>1. ASSUME PyInv
        PROVE  Py!AtMostLimit
    <3>1. {c \in Py!Comics : ~Py!Ended(c)} \in SUBSET PyTaken
      BY DEF PyTaken, Py!Ended
    <3>2. /\ Cardinality({c \in Py!Comics : ~Py!Ended(c)}) <= Cardinality(PyTaken)
          /\ Cardinality({c \in Py!Comics : ~Py!Ended(c)}) \in Nat
      BY <2>1, <3>1, WorkersAssumption, PyCountsType, CountType, SubsetCount DEF PyInv
    <3>. QED
      BY <2>1, <3>2, WorkersAssumption, PyCountsType, SameCardinality
         DEF PyInv, PySemaInv, Py!AtMostLimit, PyTypeOK
  <2>. QED
    BY <2>1
<1>. QED
  BY <1>1, PyInvariance, PTL

\* Unless the last comic is skipped, main reports when every thread has ended.
THEOREM PyReportLast == Py!Spec => []Py!ReportLast
<1>1. PyInv => Py!ReportLast
  BY DEF PyInv
<1>. QED
  BY <1>1, PyInvariance, PTL

-----------------------------------------------------------------------------
(* All three.                                                              *)

LEMMA CurlSpec == Spec /\ lang = "curl" => [](lang = "curl") /\ Curl!Spec
<1>1. Init /\ lang = "curl" => Curl!Init
  BY DEF Init
<1>2. [Next]_vars /\ lang = "curl" => (lang = "curl")' /\ [Curl!Next]_Curl!vars
  BY DEF Next, Main, Worker, InCurl, InGo, InPy, vars, ofAll, ofCurl, Curl!Next, Curl!vars,
         Comics, Curl!Comics
<1>. QED
  BY <1>1, <1>2, PTL DEF Spec, Curl!Spec

LEMMA GoSpec == Spec /\ lang = "go" => [](lang = "go") /\ Go!Spec
<1>1. Init /\ lang = "go" => Go!Init
  BY DEF Init
<1>2. [Next]_vars /\ lang = "go" => (lang = "go")' /\ [Go!Next]_Go!vars
  BY DEF Next, Main, Worker, InCurl, InGo, InPy, vars, ofAll, ofGo, Go!Next, Go!vars,
         Comics, Go!Comics
<1>. QED
  BY <1>1, <1>2, PTL DEF Spec, Go!Spec

LEMMA PySpec == Spec /\ lang = "py" => [](lang = "py") /\ Py!Spec
<1>1. Init /\ lang = "py" => Py!Init
  BY DEF Init
<1>2. [Next]_vars /\ lang = "py" => (lang = "py")' /\ [Py!Next]_Py!vars
  BY DEF Next, Main, Worker, InCurl, InGo, InPy, vars, ofAll, ofPy, Py!Next, Py!vars,
         Comics, Py!Comics
<1>. QED
  BY <1>1, <1>2, PTL DEF Spec, Py!Spec

LEMMA Langs == Spec => lang = "curl" \/ lang = "go" \/ lang = "py"
<1>1. Init => lang = "curl" \/ lang = "go" \/ lang = "py"
  BY DEF Init
<1>. QED
  BY <1>1, PTL DEF Spec

\* Whatever the threads of a version interleave with, the count it prints is not
\* above the comics its threads had got: it counts without a lock (common.c:109,
\* get-comics.go:348, get-comics.py:231).
THEOREM WorkersCountHonest == Spec => []CountHonest
<1>1. /\ lang = "curl" /\ Curl!CountHonest => CountHonest
      /\ lang = "go" /\ Go!CountHonest => CountHonest
      /\ lang = "py" /\ Py!CountHonest => CountHonest
  BY DEF CountHonest
<1>. QED
  BY <1>1, CurlCountHonest, GoCountHonest, PyCountHonest, Langs, CurlSpec, GoSpec, PySpec, PTL

\* The versions with a limit keep it, whoever starts the next one
\* (get-comics.go:435-446, get-comics.py:321-329).
THEOREM WorkersAtMostLimit == Spec => []AtMostLimit
<1>1. /\ lang = "curl" => AtMostLimit
      /\ lang = "go" /\ Go!AtMostLimit => AtMostLimit
      /\ lang = "py" /\ Py!AtMostLimit => AtMostLimit
  BY DEF AtMostLimit
<1>. QED
  BY <1>1, GoAtMostLimit, PyAtMostLimit, Langs, CurlSpec, GoSpec, PySpec, PTL

\* main reports when its threads are done; of the Python version when the last
\* comic is not skipped (curl.c:81, get-comics.go:440, get-comics.py:331).
THEOREM WorkersReportLast == Spec => []ReportLast
<1>1. /\ lang = "curl" /\ Curl!ReportLast => ReportLast
      /\ lang = "go" /\ Go!ReportLast => ReportLast
      /\ lang = "py" /\ Py!ReportLast => ReportLast
  BY DEF ReportLast
<1>. QED
  BY <1>1, CurlReportLast, GoReportLast, PyReportLast, Langs, CurlSpec, GoSpec, PySpec, PTL
=============================================================================
