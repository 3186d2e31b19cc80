---------------------------- MODULE ConfigProofs ----------------------------
(***************************************************************************)
(* What is proved about Config.tla, for whatever text the files hold, well *)
(* formed or not: types, and that a comic on the list is final.  That      *)
(* files are read back takes induction over their text, and is left to TLC.*)
(***************************************************************************)
EXTENDS Config, TLAPS

\* The states between an opening brace and its closing one.
Within == {"J_KEY_START", "J_KEY", "J_STRING", "J_STRING_QUOTE", "J_INT", "J_COLON",
           "J_OBJ", "J_END"}

Parser == [state : States, nextState : States, type : States, startState : States,
           key : Seq(Chars), str : Seq(Chars), nested : Nat, inArray : BOOLEAN,
           inObject : Nat]

InKey(j) == j.type = "J_KEY" /\ j.nextState = "J_COLON"
InValue(j) == j.type = "J_STRING" /\ j.nextState = "J_END"

\* A parser knows what it returns to, from a string, an escape or a comment.
Sound(j) ==
    /\ j.nested > 0 <=> j.state = "J_COMMENT"
    /\ j.state = "J_KEY" => InKey(j)
    /\ j.state = "J_STRING" => InValue(j)
    /\ j.state = "J_STRING_QUOTE" => InKey(j) \/ InValue(j)
    /\ j.state = "J_COMMENT" => j.startState \in {"J_START", "J_KEY_START"}

\* Where a parser is, or is back after a comment.
Place(j) == IF j.state = "J_COMMENT" THEN j.startState ELSE j.state

\* The comic that keys and values still change is not on the list.
Building(j) == Place(j) \in Within /\ ctx.inComics => \A i \in DOMAIN list : list[i] # ctx.new

ConfigInv == TypeOK /\ files \in CommandLines /\ Sound(jc) /\ Building(jc)

-----------------------------------------------------------------------------
(* The parser's record.                                                    *)

LEMMA ParserUpdate ==
    ASSUME NEW j \in Parser
    PROVE  /\ \A s \in States : /\ [j EXCEPT !.state = s] \in Parser
                                /\ [j EXCEPT !.nextState = s] \in Parser
                                /\ [j EXCEPT !.type = s] \in Parser
                                /\ [j EXCEPT !.startState = s] \in Parser
           /\ \A t \in Seq(Chars) : /\ [j EXCEPT !.key = t] \in Parser
                                   /\ [j EXCEPT !.str = t] \in Parser
           /\ \A n \in Nat : /\ [j EXCEPT !.nested = n] \in Parser
                            /\ [j EXCEPT !.inObject = n] \in Parser
           /\ \A b \in BOOLEAN : [j EXCEPT !.inArray = b] \in Parser
BY DEF Parser

LEMMA ParserTypes ==
    ASSUME TypeOK
    PROVE  /\ jc \in Parser /\ jc.state \in States /\ jc.nextState \in States
           /\ jc.type \in States /\ jc.startState \in States /\ jc.key \in Seq(Chars)
           /\ jc.str \in Seq(Chars) /\ jc.nested \in Nat /\ jc.inArray \in BOOLEAN
           /\ jc.inObject \in Nat
<1>1. jc \in Parser
  BY DEF TypeOK, Parser
<1>. QED
  BY <1>1 DEF Parser

LEMMA CharTypes ==
    ASSUME TypeOK, files \in CommandLines
    PROVE  Text \in Seq(Chars) /\ (pos <= Len(Text) => NextChar \in Chars)
<1>1. files \in Seq(File) /\ cur \in DOMAIN files /\ pos \in 1 .. Len(Text) + 1
  BY ConfigAssumption DEF TypeOK
<1>2. files[cur] \in File
  BY <1>1
<1>3. Text \in Seq(Chars)
  BY <1>2 DEF File, Text
<1>. QED
  BY <1>1, <1>3 DEF NextChar

\* call_callback clears the key and the string.
LEMMA CalledTypes ==
    ASSUME TypeOK, NEW s \in States
    PROVE  /\ Called(s) \in Parser /\ Called(s).state = s
           /\ Called(s).nested = jc.nested /\ Called(s).inObject = jc.inObject
<1>1. jc \in Parser /\ <<>> \in Seq(Chars)
  BY ParserTypes
<1>2. Called(s) = [[[jc EXCEPT !.state = s] EXCEPT !.key = <<>>] EXCEPT !.str = <<>>]
  BY <1>1 DEF Called, Parser
<1>3. Called(s) \in Parser
  <2>. DEFINE a == [jc EXCEPT !.state = s]
              b == [a EXCEPT !.key = <<>>]
  <2>1. a \in Parser
    BY <1>1, ParserUpdate
  <2>. HIDE DEF a
  <2>2. b \in Parser
    BY <1>1, <2>1, ParserUpdate
  <2>. HIDE DEF b
  <2>3. [b EXCEPT !.str = <<>>] \in Parser
    BY <1>1, <2>2, ParserUpdate
  <2>. QED
    BY <1>2, <2>3 DEF a, b
<1>. QED
  BY <1>1, <1>3 DEF Called, Parser

LEMMA StringObjTypes ==
    ASSUME TypeOK, NEW s \in States, NEW n \in States
    PROVE  /\ StringObj(s, n) \in Parser /\ StringObj(s, n).state = s
           /\ StringObj(s, n).type = s /\ StringObj(s, n).nextState = n
           /\ StringObj(s, n).nested = jc.nested
<1>1. jc \in Parser /\ <<>> \in Seq(Chars)
  BY ParserTypes
<1>2. StringObj(s, n) = [[[[jc EXCEPT !.state = s] EXCEPT !.type = s] EXCEPT !.nextState = n]
                           EXCEPT !.str = <<>>]
  BY <1>1 DEF StringObj, Parser
<1>3. StringObj(s, n) \in Parser
  <2>. DEFINE a == [jc EXCEPT !.state = s]
              b == [a EXCEPT !.type = s]
              c == [b EXCEPT !.nextState = n]
  <2>1. a \in Parser
    BY <1>1, ParserUpdate
  <2>. HIDE DEF a
  <2>2. b \in Parser
    BY <2>1, ParserUpdate
  <2>. HIDE DEF b
  <2>3. c \in Parser
    BY <2>2, ParserUpdate
  <2>. HIDE DEF c
  <2>4. [c EXCEPT !.str = <<>>] \in Parser
    BY <1>1, <2>3, ParserUpdate
  <2>. QED
    BY <1>2, <2>4 DEF a, b, c
<1>. QED
  BY <1>1, <1>3 DEF StringObj, Parser

-----------------------------------------------------------------------------
(* What the callback does to the comics.                                   *)

\* The types that the callback can change.
Comics ==
    /\ status \in {"reading", "read", "exited", "undefined"}
    /\ ctx \in [inComics : BOOLEAN, new : {0} \cup DOMAIN table]
    /\ table \in Seq(Comic) /\ list \in Seq(DOMAIN table) /\ skipped \in Nat
    /\ freed \subseteq DOMAIN table
    /\ gocomics \in [{"gocomics-url", "gocomics-regexp"} ->
                       {"null", "freed", "empty", "http", "other"}]

\* What is on the list stays, in its place, as it is.
Kept ==
    /\ IsPrefix(list, list')
    /\ \A i \in DOMAIN list : table'[list[i]] = table[list[i]]

LEMMA KeptWhenSame ==
    ASSUME Comics, UNCHANGED <<table, list>>
    PROVE  Kept
BY DEF Comics, Kept, IsPrefix

LEMMA IgnoreComics ==
    ASSUME Comics, Ignore \/ Exit \/ Undefined
    PROVE  Comics' /\ Kept /\ UNCHANGED <<ctx, list>>
<1>1. UNCHANGED <<ctx, table, list, skipped, freed, gocomics>>
      /\ status' \in {status, "exited", "undefined"}
  BY DEF Ignore, Exit, Undefined, config
<1>. QED
  BY <1>1, KeptWhenSame DEF Comics

LEMMA GivenType ==
    ASSUME Comics, NEW comic \in Comic, NEW key, NEW value \in Seq(Chars),
           ctx.inComics, ~Unusable(key, value), ~Dangling(key)
    PROVE  Given(comic, key, value) \in Comic
<1>1. \A string : Scheme(string) \in {"empty", "http", "other"}
  BY DEF Scheme
<1>2. key = "gocomic" => gocomics["gocomics-url"] \in {"http", "other"}
  BY DEF Comics, Unusable, Dangling
<1>3. UrlGiven(key, value) \in {"empty", "http", "other"}
  BY <1>1, <1>2 DEF UrlGiven
<1>. QED
  BY <1>3 DEF Given, Comic

\* A string changes the comic that is being built, and so none of the list.
LEMMA OnStringComics ==
    ASSUME Comics, NEW key, NEW value \in Seq(Chars), OnString(key, value),
           ctx.inComics => \A i \in DOMAIN list : list[i] # ctx.new
    PROVE  /\ Comics' /\ Kept /\ list' = list /\ ctx'.inComics = ctx.inComics
           /\ ctx.inComics => \A i \in DOMAIN list : list[i] # ctx'.new
<1>1. CASE Ignore \/ Exit \/ Undefined
  BY <1>1, IgnoreComics
<1>2. CASE ~ctx.inComics /\ TopString(key, value)
  <2>1. UNCHANGED <<status, ctx, table, list, skipped, freed>>
    BY <1>2 DEF TopString
  <2>2. \A string : Scheme(string) \in {"empty", "http", "other"}
    BY DEF Scheme
  <2>3. gocomics' \in [{"gocomics-url", "gocomics-regexp"} ->
                         {"null", "freed", "empty", "http", "other"}]
    BY <1>2, <2>2 DEF Comics, TopString
  <2>. QED
    BY <1>2, <2>1, <2>3, KeptWhenSame DEF Comics
<1>3. CASE /\ ctx.inComics /\ ~Unusable(key, value) /\ ~Dangling(key)
           /\ ComicString(key, value)
  <2>. DEFINE fresh == ctx.new = 0
              id == IF fresh THEN Len(table) + 1 ELSE ctx.new
              comic == Given(IF fresh THEN Fresh ELSE table[id], key, value)
  <2>1. /\ table' = IF fresh THEN Append(table, comic) ELSE [table EXCEPT ![id] = comic]
        /\ ctx' = [ctx EXCEPT !.new = id]
        /\ UNCHANGED <<status, list, skipped, freed, gocomics>>
    BY <1>3 DEF ComicString
  <2>2. /\ table \in Seq(Comic) /\ list \in Seq(DOMAIN table) /\ Len(table) \in Nat
        /\ ctx.new \in {0} \cup DOMAIN table /\ ctx.inComics \in BOOLEAN
        /\ freed \subseteq DOMAIN table /\ DOMAIN table = 1 .. Len(table)
    BY DEF Comics
  <2>3. Fresh \in Comic /\ (~fresh => table[id] \in Comic)
    <3>1. Fresh \in Comic
      BY DEF Fresh, Comic
    <3>2. ~fresh => id \in DOMAIN table
      BY <2>2
    <3>. QED
      BY <2>2, <3>1, <3>2
  <2>4. comic \in Comic
    BY <1>3, <2>3, GivenType
  <2>. HIDE DEF comic
  <2>5. \A i \in DOMAIN list : list[i] \in 1 .. Len(table) /\ list[i] # id
    BY <1>3, <2>2
  <2>6. /\ table' \in Seq(Comic) /\ DOMAIN table \subseteq DOMAIN table' /\ id \in DOMAIN table'
        /\ \A i \in 1 .. Len(table) : i # id => table'[i] = table[i]
    <3>1. CASE fresh
      BY <2>1, <2>2, <2>4, <3>1
    <3>2. CASE ~fresh
      BY <2>1, <2>2, <2>4, <3>2
    <3>. QED
      BY <3>1, <3>2
  <2>. HIDE DEF id, fresh
  <2>7. /\ ctx'.new = id /\ ctx'.inComics = ctx.inComics
        /\ ctx' \in [inComics : BOOLEAN, new : {0} \cup DOMAIN table']
    BY <2>1, <2>6 DEF Comics
  <2>8. list' \in Seq(DOMAIN table') /\ freed' \subseteq DOMAIN table'
    BY <2>1, <2>2, <2>6
  <2>9. Comics'
    BY <2>1, <2>6, <2>7, <2>8 DEF Comics
  <2>10. Kept
    BY <2>1, <2>5, <2>6 DEF Kept, IsPrefix
  <2>. QED
    BY <2>1, <2>5, <2>7, <2>9, <2>10
<1>. QED
  BY <1>1, <1>2, <1>3 DEF OnString

LEMMA OnObjectEndComics ==
    ASSUME Comics, OnObjectEnd
    PROVE  Comics' /\ Kept
<1>1. CASE Ignore \/ Exit \/ Undefined
  BY <1>1, IgnoreComics
<1>2. CASE /\ ctx.new # 0 /\ UNCHANGED <<status, ctx, table, gocomics>>
           /\ IF table[ctx.new].wanted /\ table[ctx.new].url = "http"
              THEN list' = Append(list, ctx.new) /\ UNCHANGED <<skipped, freed>>
              ELSE skipped' = skipped + 1 /\ freed' = freed \cup {ctx.new} /\ UNCHANGED list
  <2>1. ctx.new \in DOMAIN table /\ list \in Seq(DOMAIN table) /\ skipped \in Nat
    BY <1>2 DEF Comics
  <2>2. /\ list' \in Seq(DOMAIN table) /\ IsPrefix(list, list')
    BY SMTT(60), <1>2, <2>1 DEF IsPrefix
  <2>3. freed' \subseteq DOMAIN table /\ skipped' \in Nat
    BY <1>2, <2>1 DEF Comics
  <2>. QED
    BY <1>2, <2>2, <2>3 DEF Comics, Kept
<1>. QED
  BY <1>1, <1>2 DEF OnObjectEnd, SanityCheck

LEMMA OnBracketsComics ==
    ASSUME Comics, NEW key, OnArrayBegin(key) \/ OnArrayEnd \/ OnObjectBegin
    PROVE  Comics' /\ Kept /\ UNCHANGED list
<1>1. CASE Exit
  BY <1>1, IgnoreComics
<1>2. CASE UNCHANGED <<status, table, list, skipped, freed, gocomics>>
  <2>. DEFINE Contexts == [inComics : BOOLEAN, new : {0} \cup DOMAIN table]
  <2>1. ctx \in Contexts
    BY DEF Comics
  <2>2. CASE OnArrayBegin(key) /\ ~Exit
    <3>1. ctx' = [ctx EXCEPT !.inComics = TRUE]
      BY <2>2 DEF OnArrayBegin
    <3>. QED
      BY <1>2, <2>1, <3>1, KeptWhenSame DEF Comics
  <2>3. CASE OnArrayEnd
    <3>1. ctx' = [ctx EXCEPT !.inComics = FALSE]
      BY <2>3 DEF OnArrayEnd
    <3>. QED
      BY <1>2, <2>1, <3>1, KeptWhenSame DEF Comics
  <2>4. CASE OnObjectBegin
    <3>1. ctx' = [ctx EXCEPT !.new = 0] \/ ctx' = ctx
      BY <2>4 DEF OnObjectBegin
    <3>. QED
      BY <1>2, <2>1, <3>1, KeptWhenSame DEF Comics
  <2>. QED
    BY <1>1, <2>2, <2>3, <2>4
<1>. QED
  BY <1>1, <1>2 DEF OnArrayBegin, OnArrayEnd, OnObjectBegin

-----------------------------------------------------------------------------
(* The invariant, by the actions.                                          *)

LEMMA Here ==
    ASSUME ConfigInv, NEW s, Reading(s)
    PROVE  /\ TypeOK /\ Comics /\ jc \in Parser /\ jc.state = s /\ status = "reading"
           /\ pos + 1 \in 1 .. Len(Text) + 1 /\ Text \in Seq(Chars) /\ NextChar \in Chars
           /\ s # "J_COMMENT" => jc.nested = 0
<1>1. /\ TypeOK /\ jc \in Parser /\ jc.nested \in Nat /\ files \in CommandLines
      /\ jc.state = s /\ pos <= Len(Text) /\ status = "reading"
  BY ParserTypes DEF ConfigInv, Reading
<1>2. Text \in Seq(Chars) /\ NextChar \in Chars
  BY <1>1, CharTypes
<1>3. Comics
  BY <1>1 DEF TypeOK, Comics
<1>4. pos + 1 \in 1 .. Len(Text) + 1
  BY <1>1, <1>2 DEF TypeOK
<1>5. s # "J_COMMENT" => jc.nested = 0
  BY <1>1 DEF ConfigInv, Sound
<1>. QED
  BY <1>1, <1>2, <1>3, <1>4, <1>5

LEMMA StepInv ==
    ASSUME ConfigInv, NEW s, Reading(s), jc' \in Parser, Sound(jc'), Comics',
           UNCHANGED <<files, cur>>, pos' \in {pos, pos + 1},
           Place(jc') \in Within /\ ctx'.inComics => \A i \in DOMAIN list' : list'[i] # ctx'.new
    PROVE  ConfigInv'
<1>1. Text' = Text /\ pos' \in 1 .. Len(Text) + 1 /\ cur \in DOMAIN files
  BY Here DEF Text, TypeOK
<1>2. TypeOK'
  BY <1>1 DEF TypeOK, Comics, Parser, Sound
<1>3. Sound(jc)' /\ Building(jc)' /\ (files \in CommandLines)'
  BY DEF ConfigInv, Sound, InKey, InValue, Building, Place
<1>. QED
  BY <1>2, <1>3 DEF ConfigInv

\* A character that only the parser remembers.
LEMMA QuietlyInv ==
    ASSUME ConfigInv, NEW s, Reading(s), NEW j \in Parser, Sound(j), Quietly(j),
           Place(j) \in Within => Place(jc) \in Within
    PROVE  ConfigInv' /\ Kept
<1>1. Comics /\ Comics' /\ Kept /\ UNCHANGED <<ctx, list>>
  BY Here, IgnoreComics DEF Quietly
<1>2. jc' = j /\ pos' = pos + 1 /\ UNCHANGED <<files, cur>>
  BY DEF Quietly, Become
<1>3. Place(jc') \in Within /\ ctx'.inComics => \A i \in DOMAIN list' : list'[i] # ctx'.new
  BY <1>1, <1>2 DEF ConfigInv, Building
<1>. QED
  BY <1>1, <1>2, <1>3, StepInv

LEMMA SkipInv ==
    ASSUME ConfigInv, NEW s, Reading(s), Skip
    PROVE  ConfigInv' /\ Kept
BY Here, QuietlyInv DEF Skip, ConfigInv

LEMMA RefuseInv ==
    ASSUME ConfigInv, Refuse
    PROVE  ConfigInv' /\ Kept
<1>1. Comics
  BY DEF ConfigInv, TypeOK, Comics
<1>2. Comics' /\ Kept /\ UNCHANGED <<ctx, list, files, cur, pos, jc>>
  BY <1>1, IgnoreComics DEF Refuse
<1>3. TypeOK'
  BY <1>2 DEF ConfigInv, TypeOK, Comics, Text
<1>. QED
  BY <1>2, <1>3 DEF ConfigInv, Sound, InKey, InValue, Building, Place

LEMMA LeaveObjectInv ==
    ASSUME ConfigInv, NEW s, Reading(s), s # "J_COMMENT", NEW next \in {"J_START", "J_DONE"},
           LeaveObject(next)
    PROVE  ConfigInv' /\ Kept
<1>1. CASE Refuse
  BY <1>1, RefuseInv
<1>2. CASE /\ jc.inObject > 0
           /\ Become([Called(next) EXCEPT !.inObject = @ - 1])
           /\ OnObjectEnd
  <2>. DEFINE j == [Called(next) EXCEPT !.inObject = @ - 1]
  <2>1. /\ Called(next) \in Parser /\ Called(next).state = next /\ Called(next).nested = 0
        /\ Called(next).inObject = jc.inObject /\ jc.inObject - 1 \in Nat
    BY <1>2, Here, CalledTypes, ParserTypes DEF States
  <2>2. j \in Parser
    BY <2>1, ParserUpdate
  <2>3. j.state = next /\ j.nested = 0
    BY <2>1 DEF Parser
  <2>4. jc' = j /\ pos' = pos + 1 /\ UNCHANGED <<files, cur>>
    BY <1>2 DEF Become
  <2>. HIDE DEF j
  <2>5. Sound(j) /\ Place(j) \notin Within
    BY <2>3 DEF Sound, Place, Within
  <2>6. Comics' /\ Kept
    BY <1>2, Here, OnObjectEndComics
  <2>. QED
    BY <2>2, <2>4, <2>5, <2>6, StepInv
<1>. QED
  BY <1>1, <1>2 DEF LeaveObject

LEMMA StartCommentInv ==
    ASSUME ConfigInv, NEW s \in {"J_START", "J_KEY_START"}, Reading(s), StartComment
    PROVE  ConfigInv' /\ Kept
<1>. DEFINE a == [jc EXCEPT !.state = "J_COMMENT"]
            b == [a EXCEPT !.startState = jc.state]
            j == [jc EXCEPT !.state = "J_COMMENT", !.startState = jc.state, !.nested = 1]
<1>1. jc \in Parser /\ jc.state = s /\ s \in States
  BY Here DEF States
<1>2. a \in Parser
  BY <1>1, ParserUpdate DEF States
<1>3. b \in Parser
  <2>. HIDE DEF a
  <2>. QED
    BY <1>1, <1>2, ParserUpdate
<1>4. [b EXCEPT !.nested = 1] \in Parser
  <2>. HIDE DEF b
  <2>. QED
    BY <1>3, ParserUpdate
<1>5. j \in Parser /\ j.state = "J_COMMENT" /\ j.startState = s /\ j.nested = 1
  BY <1>1, <1>4 DEF Parser
<1>6. Quietly(j)
  BY DEF StartComment
<1>. HIDE DEF a, b, j
<1>7. Sound(j) /\ Place(j) = Place(jc)
  BY <1>1, <1>5 DEF Sound, Place
<1>. QED
  BY <1>5, <1>6, <1>7, QuietlyInv

LEMMA StartInv ==
    ASSUME ConfigInv, Start
    PROVE  ConfigInv' /\ Kept
<1>1. /\ Reading("J_START") /\ TypeOK /\ Comics /\ jc \in Parser /\ jc.nested = 0
      /\ jc.inObject \in Nat
  <2>1. Reading("J_START")
    BY DEF Start
  <2>2. TypeOK /\ Comics /\ jc \in Parser /\ jc.nested = 0
    BY <2>1, Here
  <2>. QED
    BY <2>1, <2>2, ParserTypes
<1>2. CASE /\ Become([Called("J_KEY_START") EXCEPT !.inObject = @ + 1])
           /\ OnObjectBegin
  <2>. DEFINE c == Called("J_KEY_START")
              j == [c EXCEPT !.inObject = @ + 1]
  <2>1. c \in Parser /\ c.state = "J_KEY_START" /\ c.nested = 0 /\ c.inObject = jc.inObject
    BY <1>1, CalledTypes DEF States
  <2>. HIDE DEF c
  <2>2. j \in Parser
    <3>1. c.inObject + 1 \in Nat
      BY <1>1, <2>1
    <3>. QED
      BY <2>1, <3>1, ParserUpdate
  <2>3. j.state = "J_KEY_START" /\ j.nested = 0
    BY <2>1 DEF Parser
  <2>4. jc' = j /\ pos' = pos + 1 /\ UNCHANGED <<files, cur>>
    BY <1>2 DEF Become, c
  <2>. HIDE DEF j
  <2>5. Sound(j)
    BY <2>3 DEF Sound
  <2>6. Comics' /\ Kept /\ list' = list
    BY <1>1, <1>2, OnBracketsComics
  <2>7. ctx'.inComics => \A i \in DOMAIN list' : list'[i] # ctx'.new
    BY <1>1, <1>2, <2>6 DEF OnObjectBegin, Comics
  <2>. QED
    BY <1>1, <2>2, <2>4, <2>5, <2>6, <2>7, StepInv
<1>3. CASE /\ Become([Called("J_START") EXCEPT !.inArray = FALSE])
           /\ OnArrayEnd
  <2>. DEFINE c == Called("J_START")
              j == [c EXCEPT !.inArray = FALSE]
  <2>1. c \in Parser /\ c.state = "J_START" /\ c.nested = 0
    BY <1>1, CalledTypes DEF States
  <2>. HIDE DEF c
  <2>2. j \in Parser
    BY <2>1, ParserUpdate
  <2>3. j.state = "J_START" /\ j.nested = 0
    BY <2>1 DEF Parser
  <2>4. jc' = j /\ pos' = pos + 1 /\ UNCHANGED <<files, cur>>
    BY <1>3 DEF Become, c
  <2>. HIDE DEF j
  <2>5. Sound(j) /\ Place(j) \notin Within
    BY <2>3 DEF Sound, Place, Within
  <2>6. Comics' /\ Kept
    BY <1>1, <1>3, OnBracketsComics
  <2>. QED
    BY <1>1, <2>2, <2>4, <2>5, <2>6, StepInv
<1>4. CASE LeaveObject("J_DONE")
  BY <1>1, <1>4, LeaveObjectInv
<1>5. CASE StartComment
  BY <1>1, <1>5, StartCommentInv
<1>6. CASE Skip
  BY <1>1, <1>6, SkipInv
<1>7. CASE Refuse
  BY <1>7, RefuseInv
<1>. QED
  BY <1>2, <1>3, <1>4, <1>5, <1>6, <1>7 DEF Start

\* One field of the parser changes, or the string and another one.
LEMMA FieldInv ==
    ASSUME ConfigInv, NEW s, Reading(s), NEW j \in Parser, Quietly(j),
           j.state \in Within, s \in Within, j.nested = jc.nested,
           j.state = "J_KEY" => InKey(j), j.state = "J_STRING" => InValue(j),
           j.state = "J_STRING_QUOTE" => InKey(j) \/ InValue(j)
    PROVE  ConfigInv' /\ Kept
<1>1. jc.state = s /\ j.nested = 0
  BY Here DEF Within
<1>2. Sound(j)
  BY <1>1 DEF Sound, Within
<1>3. Place(jc) \in Within
  BY <1>1 DEF Place, Within
<1>. QED
  BY <1>2, <1>3, QuietlyInv

LEMMA OpenStringInv ==
    ASSUME ConfigInv, NEW s \in Within, Reading(s), NEW t, NEW n,
           \/ t = "J_KEY" /\ n = "J_COLON"
           \/ t = "J_STRING" /\ n = "J_END",
           Quietly(StringObj(t, n))
    PROVE  ConfigInv' /\ Kept
<1>1. t \in States /\ n \in States /\ t \in Within
  BY DEF States, Within
<1>. DEFINE j == StringObj(t, n)
<1>2. /\ j \in Parser /\ j.state = t /\ j.type = t /\ j.nextState = n /\ j.nested = jc.nested
  BY <1>1, Here, StringObjTypes
<1>. HIDE DEF j
<1>3. Quietly(j)
  BY DEF j
<1>4. /\ j.state = "J_KEY" => InKey(j)
      /\ j.state = "J_STRING" => InValue(j)
      /\ j.state # "J_STRING_QUOTE"
  BY <1>2 DEF InKey, InValue
<1>. QED
  BY <1>1, <1>2, <1>3, <1>4, FieldInv

LEMMA KeyStartInv ==
    ASSUME ConfigInv, KeyStart
    PROVE  ConfigInv' /\ Kept
<1>1. Reading("J_KEY_START") /\ "J_KEY_START" \in Within
  BY DEF KeyStart, Within
<1>2. CASE Quietly(StringObj("J_KEY", "J_COLON"))
  BY <1>1, <1>2, OpenStringInv
<1>3. CASE StartComment
  BY <1>1, <1>3, StartCommentInv
<1>4. CASE Skip
  BY <1>1, <1>4, SkipInv
<1>5. CASE LeaveObject("J_START")
  BY <1>1, <1>5, LeaveObjectInv
<1>6. CASE Refuse
  BY <1>6, RefuseInv
<1>. QED
  BY <1>2, <1>3, <1>4, <1>5, <1>6 DEF KeyStart

\* A character is appended to the string.
LEMMA AppendInv ==
    ASSUME ConfigInv, NEW s \in {"J_KEY", "J_STRING", "J_INT"}, Reading(s),
           Quietly([jc EXCEPT !.str = Append(@, NextChar)])
    PROVE  ConfigInv' /\ Kept
<1>. DEFINE j == [jc EXCEPT !.str = Append(@, NextChar)]
<1>1. /\ jc \in Parser /\ jc.str \in Seq(Chars) /\ jc.state = s /\ NextChar \in Chars /\ Sound(jc)
      /\ s \in Within
  BY Here, ParserTypes DEF ConfigInv, Within
<1>2. Append(jc.str, NextChar) \in Seq(Chars)
  BY <1>1
<1>3. j \in Parser
  BY <1>1, <1>2, ParserUpdate
<1>4. /\ j.state = s /\ j.type = jc.type /\ j.nextState = jc.nextState /\ j.nested = jc.nested
  BY <1>1 DEF Parser
<1>. HIDE DEF j
<1>5. Quietly(j)
  BY DEF j
<1>6. /\ j.state = "J_KEY" => InKey(j)
      /\ j.state = "J_STRING" => InValue(j)
      /\ j.state # "J_STRING_QUOTE"
  BY <1>1, <1>4 DEF Sound, InKey, InValue
<1>. QED
  BY <1>1, <1>3, <1>4, <1>5, <1>6, FieldInv

LEMMA InStringInv ==
    ASSUME ConfigInv, InString
    PROVE  ConfigInv' /\ Kept
<1>1. PICK s \in {"J_KEY", "J_STRING"} : Reading(s)
  BY DEF InString
<1>2. CASE Quietly([jc EXCEPT !.str = Append(@, NextChar)])
  BY <1>1, <1>2, AppendInv
<1>3. CASE Quietly([jc EXCEPT !.state = "J_STRING_QUOTE"])
  <2>. DEFINE j == [jc EXCEPT !.state = "J_STRING_QUOTE"]
  <2>1. jc \in Parser /\ jc.state = s /\ Sound(jc) /\ s \in Within
    BY <1>1, Here DEF ConfigInv, Within
  <2>2. j \in Parser
    BY <2>1, ParserUpdate DEF States
  <2>3. /\ j.state = "J_STRING_QUOTE" /\ j.type = jc.type /\ j.nextState = jc.nextState
        /\ j.nested = jc.nested
    BY <2>1 DEF Parser
  <2>. HIDE DEF j
  <2>4. Quietly(j)
    BY <1>3 DEF j
  <2>5. InKey(j) \/ InValue(j)
    BY <1>1, <2>1, <2>3 DEF Sound, InKey, InValue
  <2>6. j.state \in Within
    BY <2>3 DEF Within
  <2>. QED
    BY <1>1, <2>1, <2>2, <2>3, <2>4, <2>5, <2>6, FieldInv
<1>. QED
  BY <1>2, <1>3 DEF InString

LEMMA KeyEndInv ==
    ASSUME ConfigInv, KeyEnd
    PROVE  ConfigInv' /\ Kept
<1>. DEFINE a == [jc EXCEPT !.key = jc.str]
            j == [jc EXCEPT !.key = jc.str, !.state = jc.nextState]
<1>1. Reading("J_KEY")
  BY DEF KeyEnd
<1>2. /\ jc \in Parser /\ jc.str \in Seq(Chars) /\ jc.nextState = "J_COLON" /\ "J_KEY" \in Within
  BY <1>1, Here, ParserTypes DEF ConfigInv, Sound, InKey, Within
<1>3. a \in Parser
  BY <1>2, ParserUpdate
<1>4. [a EXCEPT !.state = "J_COLON"] \in Parser
  <2>. HIDE DEF a
  <2>. QED
    BY <1>3, ParserUpdate DEF States
<1>5. j \in Parser /\ j.state = "J_COLON" /\ j.nested = jc.nested
  BY <1>2, <1>4 DEF Parser
<1>6. Quietly(j)
  BY DEF KeyEnd
<1>. HIDE DEF a, j
<1>7. j.state \in Within
  BY <1>5 DEF Within
<1>. QED
  BY <1>1, <1>2, <1>5, <1>6, <1>7, FieldInv

\* The end of a value: the callback gets it.
LEMMA CalledInv ==
    ASSUME ConfigInv, NEW s \in {"J_STRING", "J_INT"}, Reading(s),
           jc' = Called("J_END"), OnString(Key, jc.str),
           UNCHANGED <<files, cur>>, pos' \in {pos, pos + 1}
    PROVE  ConfigInv' /\ Kept
<1>. DEFINE j == Called("J_END")
<1>1. /\ TypeOK /\ Comics /\ jc.nested = 0 /\ jc.state = s /\ jc.str \in Seq(Chars)
  BY Here, ParserTypes
<1>2. j \in Parser /\ j.state = "J_END" /\ j.nested = 0
  BY <1>1, CalledTypes DEF States
<1>. HIDE DEF j
<1>3. jc' = j
  BY DEF j
<1>4. Sound(j)
  BY <1>2 DEF Sound
<1>5. ctx.inComics => \A i \in DOMAIN list : list[i] # ctx.new
  BY <1>1 DEF ConfigInv, Building, Place, Within
<1>6. /\ Comics' /\ Kept /\ list' = list /\ ctx'.inComics = ctx.inComics
      /\ ctx.inComics => \A i \in DOMAIN list : list[i] # ctx'.new
  BY <1>1, <1>5, OnStringComics
<1>. QED
  BY <1>2, <1>3, <1>4, <1>6, StepInv

LEMMA StringEndInv ==
    ASSUME ConfigInv, StringEnd
    PROVE  ConfigInv' /\ Kept
<1>1. Reading("J_STRING") /\ jc.nextState = "J_END"
  BY Here DEF StringEnd, ConfigInv, Sound, InValue, Reading
<1>. QED
  BY <1>1, CalledInv DEF StringEnd, Become

LEMMA IntCharInv ==
    ASSUME ConfigInv, IntChar
    PROVE  ConfigInv' /\ Kept
<1>1. Reading("J_INT")
  BY DEF IntChar
<1>2. CASE Quietly([jc EXCEPT !.str = Append(@, NextChar)])
  BY <1>1, <1>2, AppendInv
<1>3. CASE jc' = Called("J_END") /\ OnString(Key, jc.str) /\ UNCHANGED <<files, cur, pos>>
  BY <1>1, <1>3, CalledInv
<1>. QED
  BY <1>2, <1>3 DEF IntChar

LEMMA QuotedInv ==
    ASSUME ConfigInv, Quoted
    PROVE  ConfigInv' /\ Kept
<1>. DEFINE a == [jc EXCEPT !.str = Append(@, NextChar)]
            j == [jc EXCEPT !.str = Append(@, NextChar), !.state = jc.type]
<1>1. Reading("J_STRING_QUOTE")
  BY DEF Quoted
<1>2. /\ jc \in Parser /\ jc.str \in Seq(Chars) /\ NextChar \in Chars /\ jc.type \in States
      /\ "J_STRING_QUOTE" \in Within
  BY <1>1, Here, ParserTypes DEF Within
<1>3. InKey(jc) \/ InValue(jc)
  BY <1>1, Here DEF ConfigInv, Sound
<1>4. Append(jc.str, NextChar) \in Seq(Chars)
  BY <1>2
<1>5. a \in Parser
  BY <1>2, <1>4, ParserUpdate
<1>6. [a EXCEPT !.state = jc.type] \in Parser
  <2>. HIDE DEF a
  <2>. QED
    BY <1>2, <1>5, ParserUpdate
<1>7. /\ j \in Parser /\ j.state = jc.type /\ j.type = jc.type /\ j.nextState = jc.nextState
      /\ j.nested = jc.nested
  BY <1>2, <1>6 DEF Parser
<1>8. Quietly(j)
  BY DEF Quoted
<1>. HIDE DEF a, j
<1>9. /\ j.state = "J_KEY" => InKey(j)
      /\ j.state = "J_STRING" => InValue(j)
      /\ j.state \in {"J_KEY", "J_STRING"} /\ j.state \in Within
  BY <1>3, <1>7 DEF InKey, InValue, Within
<1>. QED
  BY <1>1, <1>2, <1>7, <1>8, <1>9, FieldInv

LEMMA CommentInv ==
    ASSUME ConfigInv, Comment
    PROVE  ConfigInv' /\ Kept
<1>1. Reading("J_COMMENT")
  BY DEF Comment
<1>2. /\ jc \in Parser /\ jc.state = "J_COMMENT" /\ jc.nested \in Nat /\ jc.nested > 0
      /\ jc.startState \in {"J_START", "J_KEY_START"} /\ Sound(jc)
  BY <1>1, Here, ParserTypes DEF ConfigInv, Sound
<1>3. CASE Quietly(jc)
  BY <1>1, <1>2, <1>3, QuietlyInv
<1>4. CASE Quietly([jc EXCEPT !.nested = @ + 1])
  <2>. DEFINE j == [jc EXCEPT !.nested = @ + 1]
  <2>1. jc.nested + 1 \in Nat
    BY <1>2
  <2>2. j \in Parser
    BY <1>2, <2>1, ParserUpdate
  <2>3. j.state = "J_COMMENT" /\ j.startState = jc.startState /\ j.nested > 0
    BY <1>2 DEF Parser
  <2>. HIDE DEF j
  <2>4. Quietly(j)
    BY <1>4 DEF j
  <2>5. Sound(j) /\ Place(j) = Place(jc)
    BY <1>2, <2>3 DEF Sound, Place
  <2>. QED
    BY <1>1, <2>2, <2>4, <2>5, QuietlyInv
<1>5. CASE Quietly([jc EXCEPT !.nested = @ - 1,
                      !.state = IF jc.nested <= 1 THEN jc.startState ELSE @])
  <2>. DEFINE a == [jc EXCEPT !.nested = @ - 1]
              s == IF jc.nested <= 1 THEN jc.startState ELSE jc.state
              j == [jc EXCEPT !.nested = @ - 1,
                      !.state = IF jc.nested <= 1 THEN jc.startState ELSE @]
  <2>1. jc.nested - 1 \in Nat /\ s \in States
    BY <1>2 DEF States
  <2>2. a \in Parser
    BY <1>2, <2>1, ParserUpdate
  <2>3. [a EXCEPT !.state = s] \in Parser
    <3>. HIDE DEF a, s
    <3>. QED
      BY <2>1, <2>2, ParserUpdate
  <2>4. /\ j \in Parser /\ j.state = s /\ j.startState = jc.startState
        /\ j.nested = jc.nested - 1
    BY <1>2, <2>3 DEF Parser
  <2>. HIDE DEF a, j
  <2>5. Quietly(j)
    BY <1>5 DEF j
  <2>6. Sound(j) /\ Place(j) = Place(jc)
    <3>1. CASE jc.nested <= 1
      BY <1>2, <2>4, <3>1 DEF Sound, Place
    <3>2. CASE jc.nested > 1
      BY <1>2, <2>4, <3>2 DEF Sound, Place
    <3>. QED
      BY <1>2, <3>1, <3>2
  <2>. QED
    BY <1>1, <2>4, <2>5, <2>6, QuietlyInv
<1>. QED
  BY <1>3, <1>4, <1>5 DEF Comment

\* Only the state changes.
LEMMA GotoInv ==
    ASSUME ConfigInv, NEW s, Reading(s), s # "J_COMMENT",
           NEW t \in {"J_OBJ", "J_KEY_START", "J_START"}, s \in Within \/ t = "J_START",
           Quietly([jc EXCEPT !.state = t])
    PROVE  ConfigInv' /\ Kept
<1>. DEFINE j == [jc EXCEPT !.state = t]
<1>1. jc \in Parser /\ jc.state = s /\ jc.nested = 0 /\ t \in States
  BY Here DEF States
<1>2. j \in Parser
  BY <1>1, ParserUpdate
<1>3. j.state = t /\ j.nested = 0
  BY <1>1 DEF Parser
<1>. HIDE DEF j
<1>4. Quietly(j)
  BY DEF j
<1>5. Sound(j)
  BY <1>3 DEF Sound
<1>6. Place(j) \in Within => Place(jc) \in Within
  BY <1>1, <1>3 DEF Place, Within
<1>. QED
  BY <1>2, <1>4, <1>5, <1>6, QuietlyInv

LEMMA ColonInv ==
    ASSUME ConfigInv, Colon
    PROVE  ConfigInv' /\ Kept
<1>1. Reading("J_COLON") /\ "J_COLON" \in Within
  BY DEF Colon, Within
<1>. QED
  BY <1>1, GotoInv, SkipInv, RefuseInv DEF Colon

LEMMA EndInv ==
    ASSUME ConfigInv, End
    PROVE  ConfigInv' /\ Kept
<1>1. Reading("J_END") /\ "J_END" \in Within
  BY DEF End, Within
<1>. QED
  BY <1>1, GotoInv, LeaveObjectInv, SkipInv, RefuseInv DEF End

LEMMA DoneInv ==
    ASSUME ConfigInv, Done
    PROVE  ConfigInv' /\ Kept
<1>1. Reading("J_DONE")
  BY DEF Done
<1>. QED
  BY <1>1, GotoInv, SkipInv, RefuseInv DEF Done

LEMMA ObjInv ==
    ASSUME ConfigInv, Obj
    PROVE  ConfigInv' /\ Kept
<1>1. Reading("J_OBJ") /\ "J_OBJ" \in Within
  BY DEF Obj, Within
<1>2. /\ TypeOK /\ Comics /\ jc \in Parser /\ jc.nested = 0 /\ NextChar \in Chars
  BY <1>1, Here
<1>3. CASE Quietly(StringObj("J_STRING", "J_END"))
  BY <1>1, <1>3, OpenStringInv
<1>4. CASE Become([Called("J_START") EXCEPT !.inArray = TRUE]) /\ OnArrayBegin(Key)
  <2>. DEFINE c == Called("J_START")
              j == [c EXCEPT !.inArray = TRUE]
  <2>1. c \in Parser /\ c.state = "J_START" /\ c.nested = 0
    BY <1>2, CalledTypes DEF States
  <2>. HIDE DEF c
  <2>2. j \in Parser
    BY <2>1, ParserUpdate
  <2>3. j.state = "J_START" /\ j.nested = 0
    BY <2>1 DEF Parser
  <2>4. jc' = j /\ pos' = pos + 1 /\ UNCHANGED <<files, cur>>
    BY <1>4 DEF Become, c
  <2>. HIDE DEF j
  <2>5. Sound(j) /\ Place(j) \notin Within
    BY <2>3 DEF Sound, Place, Within
  <2>6. Comics' /\ Kept
    BY <1>2, <1>4, OnBracketsComics
  <2>. QED
    BY <1>1, <2>2, <2>4, <2>5, <2>6, StepInv
<1>5. CASE /\ NextChar \in Digits
           /\ Quietly([StringObj("J_STRING", "J_END") EXCEPT
                         !.state = "J_INT", !.str = <<NextChar>>])
  <2>. DEFINE c == StringObj("J_STRING", "J_END")
              a == [c EXCEPT !.state = "J_INT"]
              j == [c EXCEPT !.state = "J_INT", !.str = <<NextChar>>]
  <2>1. c \in Parser /\ c.nested = jc.nested /\ <<NextChar>> \in Seq(Chars)
    BY <1>2, StringObjTypes DEF States
  <2>. HIDE DEF c
  <2>2. a \in Parser
    BY <2>1, ParserUpdate DEF States
  <2>3. [a EXCEPT !.str = <<NextChar>>] \in Parser
    <3>. HIDE DEF a
    <3>. QED
      BY <2>1, <2>2, ParserUpdate
  <2>4. j \in Parser /\ j.state = "J_INT" /\ j.nested = jc.nested
    BY <2>1, <2>3 DEF Parser
  <2>5. Quietly(j)
    BY <1>5 DEF c
  <2>. HIDE DEF a, j
  <2>6. j.state \in Within
    BY <2>4 DEF Within
  <2>. QED
    BY <1>1, <2>4, <2>5, <2>6, FieldInv
<1>6. CASE Skip
  BY <1>1, <1>6, SkipInv
<1>7. CASE Refuse
  BY <1>7, RefuseInv
<1>. QED
  BY <1>3, <1>4, <1>5, <1>6, <1>7 DEF Obj

\* A file ends, or the last one does.
LEMMA EndOfFileInv ==
    ASSUME ConfigInv, EndOfFile
    PROVE  ConfigInv' /\ Kept
<1>1. Comics /\ TypeOK /\ files \in CommandLines /\ Sound(jc) /\ Building(jc)
  BY DEF ConfigInv, TypeOK, Comics
<1>2. CASE Refuse
  BY <1>2, RefuseInv
<1>3. CASE Undefined /\ UNCHANGED <<files, cur, pos, jc>>
  <2>1. Comics' /\ Kept /\ UNCHANGED <<ctx, list>>
    BY <1>1, <1>3, IgnoreComics
  <2>2. TypeOK'
    BY <1>1, <1>3, <2>1 DEF TypeOK, Comics, Text
  <2>. QED
    BY <1>1, <1>3, <2>1, <2>2 DEF ConfigInv, Sound, InKey, InValue, Building, Place
<1>4. CASE /\ gocomics' = [t \in DOMAIN gocomics |->
                             IF gocomics[t] = "null" THEN "null" ELSE "freed"]
           /\ IF cur < Len(files)
              THEN /\ cur' = cur + 1 /\ pos' = 1
                   /\ jc' = NewParser /\ ctx' = NewContext
                   /\ UNCHANGED status
              ELSE status' = "read" /\ UNCHANGED <<cur, pos, jc, ctx>>
           /\ UNCHANGED <<files, table, list, skipped, freed>>
  <2>1. gocomics' \in [{"gocomics-url", "gocomics-regexp"} ->
                         {"null", "freed", "empty", "http", "other"}]
    BY <1>1, <1>4 DEF Comics
  <2>2. Kept
    BY <1>1, <1>4, KeptWhenSame
  <2>3. files \in Seq(File) /\ cur \in DOMAIN files
    BY <1>1, ConfigAssumption DEF TypeOK
  <2>4. CASE cur < Len(files)
    <3>1. NewParser \in Parser /\ Sound(NewParser) /\ Place(NewParser) \notin Within
      BY DEF NewParser, Parser, States, Sound, InKey, InValue, Place, Within
    <3>2. NewContext \in [inComics : BOOLEAN, new : {0} \cup DOMAIN table]
      BY DEF NewContext
    <3>3. jc' = NewParser /\ ctx' = NewContext /\ cur' = cur + 1 /\ pos' = 1 /\ status' = status
      BY <1>4, <2>4
    <3>4. cur' \in DOMAIN files'
      BY <1>4, <2>3, <2>4, <3>3
    <3>5. Text' \in Seq(Chars)
      <4>1. files'[cur'] \in File
        BY <1>4, <2>3, <3>4
      <4>. QED
        BY <4>1 DEF Text, File
    <3>6. TypeOK'
      <4>1. pos' \in 1 .. Len(Text') + 1
        BY <3>3, <3>5
      <4>. QED
        BY <1>1, <1>4, <2>1, <3>1, <3>2, <3>3, <3>4, <4>1 DEF TypeOK, Parser, Sound
    <3>7. Sound(jc)' /\ Building(jc)'
      BY <3>1, <3>3 DEF Sound, InKey, InValue, Building, Place
    <3>. QED
      BY <1>1, <1>4, <2>2, <3>6, <3>7 DEF ConfigInv
  <2>5. CASE ~(cur < Len(files))
    <3>1. status' = "read" /\ UNCHANGED <<files, cur, pos, jc, ctx, table, list, skipped, freed>>
      BY <1>4, <2>5
    <3>2. TypeOK'
      BY <1>1, <2>1, <3>1 DEF TypeOK, Text
    <3>3. Sound(jc)' /\ Building(jc)'
      BY <1>1, <3>1 DEF Sound, InKey, InValue, Building, Place
    <3>. QED
      BY <1>1, <2>2, <3>1, <3>2, <3>3 DEF ConfigInv
  <2>. QED
    BY <2>4, <2>5
<1>. QED
  BY <1>2, <1>3, <1>4 DEF EndOfFile

-----------------------------------------------------------------------------
(* The theorems.                                                           *)

LEMMA InitInv == Init => ConfigInv
<1>. SUFFICES ASSUME Init PROVE ConfigInv
  OBVIOUS
<1>1. files \in CommandLines /\ files \in Seq(File) /\ files # <<>>
  BY ConfigAssumption DEF Init
<1>2. cur = 1 /\ cur \in DOMAIN files
  BY <1>1 DEF Init
<1>3. files[cur] \in File
  BY <1>1, <1>2
<1>4. Text \in Seq(Chars)
  BY <1>3 DEF File, Text
<1>5. NewParser \in Parser /\ Sound(NewParser) /\ Place(NewParser) \notin Within
  BY DEF NewParser, Parser, States, Sound, InKey, InValue, Place, Within
<1>6. pos \in 1 .. Len(Text) + 1
  BY <1>4 DEF Init
<1>7. ctx \in [inComics : BOOLEAN, new : {0} \cup DOMAIN table]
  BY DEF Init, NewContext
<1>8. TypeOK
  BY <1>2, <1>5, <1>6, <1>7 DEF Init, TypeOK, Parser, Sound
<1>. QED
  BY <1>1, <1>5, <1>8 DEF Init, ConfigInv, Building

LEMMA NextInv ==
    ASSUME ConfigInv, Next
    PROVE  ConfigInv' /\ Kept
<1>1. CASE Terminating
  <2>1. UNCHANGED <<files, cur, pos, status, jc, ctx, table, list, skipped, freed, gocomics>>
    BY <1>1 DEF Terminating, vars, config
  <2>2. Comics /\ Kept
    BY <2>1, KeptWhenSame DEF ConfigInv, TypeOK, Comics
  <2>3. ConfigInv'
    BY <2>1 DEF ConfigInv, TypeOK, Text, Sound, InKey, InValue, Building, Place
  <2>. QED
    BY <2>2, <2>3
<1>. QED
  BY <1>1, StartInv, KeyStartInv, InStringInv, KeyEndInv, StringEndInv, QuotedInv, IntCharInv,
     CommentInv, ColonInv, ObjInv, EndInv, DoneInv, EndOfFileInv DEF Next

LEMMA StutterInv ==
    ASSUME ConfigInv, UNCHANGED vars
    PROVE  ConfigInv'
BY DEF vars, config, ConfigInv, TypeOK, Text, Sound, InKey, InValue, Building, Place

\* Whatever the text, the parser is in a state it can leave, and keys and values never
\* reach a comic that is on the list.
THEOREM ConfigInductive == Spec => []ConfigInv
<1>1. ConfigInv /\ [Next]_vars => ConfigInv'
  BY NextInv, StutterInv
<1>. QED
  BY InitInv, <1>1, PTL DEF Spec

\* Types hold for every text: a comment is open exactly in the state of comments, and
\* the list and the context name comics that new_comic made.
THEOREM ConfigTypes == Spec => []TypeOK
<1>1. ConfigInv => TypeOK
  BY DEF ConfigInv
<1>. QED
  BY <1>1, ConfigInductive, PTL

\* A comic that sanity_check_comic put on the list stays there, in its place and with
\* its attributes, however the text goes on: braces and brackets that do not match,
\* keys after the end of an entry, further files.
THEOREM ConfigListedFinal == Spec => ListedFinal
<1>1. ConfigInv /\ [Next]_vars
        => [/\ IsPrefix(list, list')
            /\ \A i \in DOMAIN list : table'[list[i]] = table[list[i]]]_vars
  BY NextInv DEF Kept
<1>. QED
  BY <1>1, ConfigInductive, PTL DEF Spec, ListedFinal
=============================================================================
