------------------------------- MODULE Config -------------------------------
(***************************************************************************)
(* How get-comics reads its configuration: the parser of my-parser.c, a    *)
(* state machine over the characters of a file, and the callback of        *)
(* config.c that builds the list of comics from what the parser reports.   *)
(*                                                                         *)
(* A character stands for itself, except that "q" is the double quote, "b" *)
(* the backslash, "/*" and "*/" are read as one (the parser peeks for the  *)
(* second), and a word inside a string is one character: the keys the      *)
(* program knows, and "http", "ftp" (any other url), "never" (days without *)
(* today) and "name" (anything else) as values.                            *)
(***************************************************************************)
EXTENDS Integers, Sequences, SequencesExt

CONSTANTS
    CommandLines,  \* the sequences of files that may be named, see File
    ThreadsSet     \* -t was given: "threads" is not looked at

Digits == {"1", "9"}
Chars == {"{", "}", "[", "]", ":", ",", " ", "q", "b", "/*", "*/", "comics",
          "threads", "timeout", "gocomics-url", "gocomics-regexp",
          "url", "days", "regexp", "output", "gocomic", "regmatch", "redirect",
          "http", "ftp", "never", "name"} \cup Digits

\* What is known of a comic: the scheme of its url, whether today is one of
\* its days, and whether it has a regexp.
Comic == [url : {"none", "empty", "http", "other"}, wanted : BOOLEAN, staged : BOOLEAN]

\* A file: its text, whether that is what the manual describes, and then the
\* comics it describes.
File == [text : Seq(Chars), intact : BOOLEAN, comics : Seq(Comic)]

ASSUME ConfigAssumption ==
    /\ \A line \in CommandLines : line \in Seq(File) /\ line # <<>>
    /\ ThreadsSet \in BOOLEAN

VARIABLES
    files,     \* the files named on the command line
    cur, pos,  \* the file that is read, and the next character of it
    status,    \* "reading"; "read"; "exited", with a message; "undefined",
               \* after a use of freed memory
    jc,        \* JC, the parser
    ctx,       \* parse_ctx: in_comics, and new, 0 when null
    table,     \* every comic new_comic made
    list,      \* comics, the linked list, of indexes into table
    skipped,   \* the count of comics that are not for today, or not http
    freed,     \* the comics that were freed
    gocomics   \* gocomics_url and gocomics_regexp

config == <<ctx, table, list, skipped, freed, gocomics>>
vars == <<files, cur, pos, status, jc, config>>

-----------------------------------------------------------------------------
(* The comic under construction.                                           *)

Fresh == [url |-> "none", wanted |-> TRUE, staged |-> FALSE]

\* The scheme of a string.  A template of gocomics gives that of its urls.
Scheme(string) ==
    IF string = <<>> THEN "empty"
    ELSE IF string[1] = "http" THEN "http" ELSE "other"

UrlGiven(key, value) ==
    IF key = "gocomic" THEN gocomics["gocomics-url"] ELSE Scheme(value)

\* What a key of a comic and its value change.  A second url is ignored.
Given(comic, key, value) ==
    [url |-> IF key \in {"url", "gocomic"} /\ comic.url = "none"
             THEN UrlGiven(key, value) ELSE comic.url,
     wanted |-> IF key = "days" THEN value # <<>> /\ value[1] # "never"
                ELSE comic.wanted,
     staged |-> comic.staged \/ key \in {"regexp", "gocomic"}]

ComicKeys == {"url", "days", "regexp", "output", "gocomic", "regmatch", "redirect"}

IntKeys ==
    IF ctx.inComics THEN {"regmatch", "redirect"}
    ELSE IF ThreadsSet THEN {"timeout"} ELSE {"threads", "timeout"}

IsInt(value) == \A i \in DOMAIN value : value[i] \in Digits

\* The values with which the program gives up: strftime has nothing to format,
\* a number is not one, or is MATCH_DEPTH or more, a template is missing.
Unusable(key, value) ==
    \/ key \in IntKeys /\ ~IsInt(value)
    \/ /\ ctx.inComics
       /\ \/ key \in {"url", "regexp"} /\ value = <<>>
          \/ key = "regmatch" /\ value \notin {<<>>, <<"1">>}
          \/ key = "gocomic" /\ \E t \in DOMAIN gocomics : gocomics[t] \in {"null", "empty"}

\* A template that the previous file has left behind.
Dangling(key) ==
    ctx.inComics /\ key = "gocomic" /\ \E t \in DOMAIN gocomics : gocomics[t] = "freed"

-----------------------------------------------------------------------------
(* The callback, parse, for each thing the parser reports.                 *)

Exit == status' = "exited" /\ UNCHANGED config
Undefined == status' = "undefined" /\ UNCHANGED config
Ignore == UNCHANGED <<status, config>>

\* JSON_T_STRING inside a comic, which the first key it has creates.
ComicString(key, value) ==
    LET fresh == ctx.new = 0
        id == IF fresh THEN Len(table) + 1 ELSE ctx.new
        comic == Given(IF fresh THEN Fresh ELSE table[id], key, value)
    IN /\ table' = IF fresh THEN Append(table, comic) ELSE [table EXCEPT ![id] = comic]
       /\ ctx' = [ctx EXCEPT !.new = id]
       /\ UNCHANGED <<status, list, skipped, freed, gocomics>>

TopString(key, value) ==
    /\ gocomics' = IF key \in DOMAIN gocomics
                   THEN [gocomics EXCEPT ![key] = Scheme(value)] ELSE gocomics
    /\ UNCHANGED <<status, ctx, table, list, skipped, freed>>

OnString(key, value) ==
    \/ Unusable(key, value) /\ Exit
    \/ ~Unusable(key, value) /\ Dangling(key) /\ Undefined
    \/ /\ ~Unusable(key, value) /\ ~Dangling(key)
       /\ \/ ctx.inComics /\ key \in ComicKeys /\ ComicString(key, value)
          \/ ctx.inComics /\ key \notin ComicKeys /\ Ignore
          \/ ~ctx.inComics /\ TopString(key, value)

OnArrayBegin(key) ==
    \/ key # "comics" /\ Exit
    \/ /\ key = "comics"
       /\ ctx' = [ctx EXCEPT !.inComics = TRUE]
       /\ UNCHANGED <<status, table, list, skipped, freed, gocomics>>

OnArrayEnd ==
    /\ ctx' = [ctx EXCEPT !.inComics = FALSE]
    /\ UNCHANGED <<status, table, list, skipped, freed, gocomics>>

\* Mutant: a comic goes on with what is left of the one before.
OnObjectBeginKeeps == Ignore

OnObjectBegin ==
    /\ ctx' = IF ctx.inComics THEN [ctx EXCEPT !.new = 0] ELSE ctx
    /\ UNCHANGED <<status, table, list, skipped, freed, gocomics>>

\* sanity_check_comic.  Empty entries are allowed.
SanityCheck(id) ==
    \/ id = 0 /\ Ignore
    \/ id # 0 /\ id \in freed /\ Undefined
    \/ id # 0 /\ id \notin freed /\ table[id].url = "none" /\ Exit
    \/ /\ id # 0 /\ id \notin freed /\ table[id].url # "none"
       /\ IF table[id].wanted /\ table[id].url = "http"
          THEN list' = Append(list, id) /\ UNCHANGED <<skipped, freed>>
          ELSE skipped' = skipped + 1 /\ freed' = freed \cup {id} /\ UNCHANGED list
       /\ UNCHANGED <<status, ctx, table, gocomics>>

OnObjectEnd == IF ctx.inComics THEN SanityCheck(ctx.new) ELSE Ignore

-----------------------------------------------------------------------------
(* The parser.                                                             *)

Text == files[cur].text
Reading(state) == status = "reading" /\ pos <= Len(Text) /\ jc.state = state
NextChar == Text[pos]

\* The parser goes to a new state, on the next character.
Become(new) == jc' = new /\ pos' = pos + 1 /\ UNCHANGED <<files, cur>>
Quietly(new) == Become(new) /\ Ignore
Skip == NextChar = " " /\ Quietly(jc)

\* A character that is refused: the file is, and read_config exits.
Refuse == Exit /\ UNCHANGED <<files, cur, pos, jc>>

\* call_callback: the new state, and no key or string any more.
Called(state) == [jc EXCEPT !.state = state, !.key = <<>>, !.str = <<>>]

\* The key as strcmp sees it: one known word, or something else.
Key == IF Len(jc.key) = 1 THEN jc.key[1] ELSE "name"

StringObj(state, next) ==
    [jc EXCEPT !.state = state, !.type = state, !.nextState = next, !.str = <<>>]

LeaveObject(state) ==
    \/ jc.inObject = 0 /\ Refuse
    \/ /\ jc.inObject > 0
       /\ Become([Called(state) EXCEPT !.inObject = @ - 1])
       /\ OnObjectEnd

StartComment ==
    NextChar = "/*" /\ Quietly([jc EXCEPT !.state = "J_COMMENT", !.startState = jc.state, !.nested = 1])

\* Between objects: before the first, and after a comma or an empty one.
Start ==
    /\ Reading("J_START")
    /\ \/ /\ NextChar = "{"
          /\ Become([Called("J_KEY_START") EXCEPT !.inObject = @ + 1])
          /\ OnObjectBegin
       \/ /\ NextChar = "]" /\ jc.inArray
          /\ Become([Called("J_START") EXCEPT !.inArray = FALSE])
          /\ OnArrayEnd
       \/ NextChar = "}" /\ LeaveObject("J_DONE")
       \/ StartComment \/ Skip
       \/ /\ NextChar \notin {"{", "}", "/*", " "}
          /\ ~(NextChar = "]" /\ jc.inArray)
          /\ Refuse

KeyStart ==
    /\ Reading("J_KEY_START")
    /\ \/ NextChar = "q" /\ Quietly(StringObj("J_KEY", "J_COLON"))
       \/ StartComment \/ Skip
       \/ NextChar = "}" /\ LeaveObject("J_START")
       \/ NextChar \notin {"q", "/*", "}", " "} /\ Refuse

\* Mutant: a backslash is a character like any other.
InStringNoEscape ==
    /\ Reading("J_KEY") \/ Reading("J_STRING")
    /\ NextChar # "q" /\ Quietly([jc EXCEPT !.str = Append(@, NextChar)])

\* Inside a key or a string, and its end.
InString ==
    /\ Reading("J_KEY") \/ Reading("J_STRING")
    /\ \/ NextChar = "b" /\ Quietly([jc EXCEPT !.state = "J_STRING_QUOTE"])
       \/ NextChar \notin {"q", "b"} /\ Quietly([jc EXCEPT !.str = Append(@, NextChar)])

KeyEnd ==
    /\ Reading("J_KEY") /\ NextChar = "q"
    /\ Quietly([jc EXCEPT !.key = jc.str, !.state = jc.nextState])

StringEnd ==
    /\ Reading("J_STRING") /\ NextChar = "q"
    /\ Become(Called(jc.nextState))
    /\ OnString(Key, jc.str)

Quoted ==
    /\ Reading("J_STRING_QUOTE")
    /\ Quietly([jc EXCEPT !.str = Append(@, NextChar), !.state = jc.type])

\* A number ends at the first other character, which is then read again.
IntChar ==
    /\ Reading("J_INT")
    /\ \/ NextChar \in Digits /\ Quietly([jc EXCEPT !.str = Append(@, NextChar)])
       \/ /\ NextChar \notin Digits
          /\ jc' = Called("J_END")
          /\ OnString(Key, jc.str)
          /\ UNCHANGED <<files, cur, pos>>

\* Comments nest.
Comment ==
    /\ Reading("J_COMMENT")
    /\ \/ /\ NextChar = "*/"
          /\ Quietly([jc EXCEPT !.nested = @ - 1,
                        !.state = IF jc.nested <= 1 THEN jc.startState ELSE @])
       \/ NextChar = "/*" /\ Quietly([jc EXCEPT !.nested = @ + 1])
       \/ NextChar \notin {"*/", "/*"} /\ Quietly(jc)

Colon ==
    /\ Reading("J_COLON")
    /\ \/ NextChar = ":" /\ Quietly([jc EXCEPT !.state = "J_OBJ"])
       \/ Skip
       \/ NextChar \notin {":", " "} /\ Refuse

Obj ==
    /\ Reading("J_OBJ")
    /\ \/ NextChar = "q" /\ Quietly(StringObj("J_STRING", "J_END"))
       \/ /\ NextChar = "["
          /\ Become([Called("J_START") EXCEPT !.inArray = TRUE])
          /\ OnArrayBegin(Key)
       \/ /\ NextChar \in Digits
          /\ Quietly([StringObj("J_STRING", "J_END") EXCEPT
                        !.state = "J_INT", !.str = <<NextChar>>])
       \/ Skip
       \/ NextChar \notin {"q", "[", " "} \cup Digits /\ Refuse

End ==
    /\ Reading("J_END")
    /\ \/ NextChar = "}" /\ LeaveObject("J_DONE")
       \/ NextChar = "," /\ Quietly([jc EXCEPT !.state = "J_KEY_START"])
       \/ Skip
       \/ NextChar \notin {"}", ",", " "} /\ Refuse

Done ==
    /\ Reading("J_DONE")
    /\ \/ NextChar = "," /\ jc.inArray /\ Quietly([jc EXCEPT !.state = "J_START"])
       \/ Skip
       \/ NextChar # " " /\ ~(NextChar = "," /\ jc.inArray) /\ Refuse

NewParser ==
    [state |-> "J_START", nextState |-> "J_START", type |-> "J_START",
     key |-> <<>>, str |-> <<>>, startState |-> "J_START", nested |-> 0,
     inArray |-> FALSE, inObject |-> 0]

NewContext == [inComics |-> FALSE, new |-> 0]

\* The end of a file.  read_config frees the templates and leaves the pointers
\* as they are; the next file is read with a new parser and context.
EndOfFile ==
    /\ status = "reading" /\ pos > Len(Text)
    /\ \/ jc.state # "J_DONE" /\ Refuse
       \/ /\ jc.state = "J_DONE" /\ \E t \in DOMAIN gocomics : gocomics[t] = "freed"
          /\ Undefined /\ UNCHANGED <<files, cur, pos, jc>>
       \/ /\ jc.state = "J_DONE" /\ \A t \in DOMAIN gocomics : gocomics[t] # "freed"
          /\ gocomics' = [t \in DOMAIN gocomics |->
                            IF gocomics[t] = "null" THEN "null" ELSE "freed"]
          /\ IF cur < Len(files)
             THEN /\ cur' = cur + 1 /\ pos' = 1
                  /\ jc' = NewParser /\ ctx' = NewContext
                  /\ UNCHANGED status
             ELSE status' = "read" /\ UNCHANGED <<cur, pos, jc, ctx>>
          /\ UNCHANGED <<files, table, list, skipped, freed>>

Terminating == status # "reading" /\ UNCHANGED vars

-----------------------------------------------------------------------------
Init ==
    /\ files \in CommandLines /\ cur = 1 /\ pos = 1 /\ status = "reading"
    /\ jc = NewParser /\ ctx = NewContext
    /\ table = <<>> /\ list = <<>> /\ skipped = 0 /\ freed = {}
    /\ gocomics = [t \in {"gocomics-url", "gocomics-regexp"} |-> "null"]

Next ==
    \/ Start \/ KeyStart \/ InString \/ KeyEnd \/ StringEnd \/ Quoted \/ IntChar
    \/ Comment \/ Colon \/ Obj \/ End \/ Done \/ EndOfFile
    \/ Terminating

Spec == Init /\ [][Next]_vars

-----------------------------------------------------------------------------
States == {"J_START", "J_KEY_START", "J_KEY", "J_STRING", "J_STRING_QUOTE", "J_INT",
           "J_COLON", "J_OBJ", "J_END", "J_DONE", "J_COMMENT"}

\* Types; a comment that nests is open exactly in the state of comments, and
\* what the list and the context name are comics that exist.
TypeOK ==
    /\ cur \in DOMAIN files /\ pos \in 1 .. Len(Text) + 1
    /\ status \in {"reading", "read", "exited", "undefined"}
    /\ jc \in [state : States, nextState : States, type : States, startState : States,
               key : Seq(Chars), str : Seq(Chars), nested : Nat, inArray : BOOLEAN,
               inObject : Nat]
    /\ jc.nested > 0 <=> jc.state = "J_COMMENT"
    /\ ctx \in [inComics : BOOLEAN, new : {0} \cup DOMAIN table]
    /\ table \in Seq(Comic) /\ list \in Seq(DOMAIN table) /\ skipped \in Nat
    /\ freed \subseteq DOMAIN table
    /\ gocomics \in [{"gocomics-url", "gocomics-regexp"} ->
                       {"null", "freed", "empty", "http", "other"}]

Runs(comic) == comic.wanted /\ comic.url = "http"

\* Types; and files as the manual describes them are read, comments, escapes and empty
\* entries included, and give the comics they describe, in order: those for
\* today are on the list and the others are counted as skipped.
ReadBack ==
    /\ TypeOK
    /\ (\A i \in DOMAIN files : files[i].intact) =>
          /\ status \in {"reading", "read"}
          /\ status = "read" =>
             LET described == FlattenSeq([i \in DOMAIN files |-> files[i].comics])
             IN /\ [i \in DOMAIN list |-> table[list[i]]] = SelectSeq(described, Runs)
                /\ Len(list) + skipped = Len(described)

\* Whatever the text, a comic that is on the list stays there, in its place,
\* with the attributes it had when sanity_check_comic looked at them.
ListedFinal ==
    [][/\ IsPrefix(list, list')
       /\ \A i \in DOMAIN list : table'[list[i]] = table[list[i]]]_vars

\* No freed memory is used.
NoUndefined == status # "undefined"
=============================================================================
