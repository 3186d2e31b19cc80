------------------------------ MODULE MCConfig ------------------------------
(***************************************************************************)
(* The files with which TLC checks Config.tla, written as the manual and   *)
(* comics.json write them, and damaged: with one character missing.        *)
(***************************************************************************)
EXTENDS Config

Str(string) == <<"q">> \o string \o <<"q">>
Pair(key, string) == Str(<<key>>) \o <<":", " ">> \o Str(string)
Number(key, digit) == Str(<<key>>) \o <<":", digit>>
Joined(pairs) == FlattenSeq([i \in 1 .. Len(pairs) |->
                               pairs[i] \o IF i < Len(pairs) THEN <<",">> ELSE <<>>])

\* An entry: how it is written, and the comics it describes, one or none.
Plain(pairs, comic) ==
    [text |-> <<"{">> \o Joined(pairs) \o <<"}", ",">>, comics |-> <<comic>>]

Daily == Plain(<<Pair("url", <<"http">>)>>, [Fresh EXCEPT !.url = "http"])
Never == Plain(<<Pair("days", <<"never">>), Pair("url", <<"http">>)>>,
               [Fresh EXCEPT !.url = "http", !.wanted = FALSE])
Ftp == Plain(<<Pair("url", <<"ftp">>), Pair("days", <<"name">>)>>,
             [Fresh EXCEPT !.url = "other"])
Page == Plain(<<<<"/*", "/*", "q", "*/", "}", "*/">> \o Pair("regexp", <<"name", "b", "q">>),
                Number("regmatch", "1"), Pair("url", <<"http">>), Pair("url", <<"ftp">>)>>,
              [Fresh EXCEPT !.url = "http", !.staged = TRUE])
Go == Plain(<<Pair("gocomic", <<"name">>)>>,
            [Fresh EXCEPT !.url = "http", !.staged = TRUE])
Empty == [text |-> <<"{", "}">>, comics |-> <<>>]

Templates == Pair("gocomics-url", <<"http", "name">>) \o <<",">>
               \o Pair("gocomics-regexp", <<"http">>) \o <<",">>

\* A file ends with an empty entry, after the comma of the last comic.
Written(top, entries) ==
    [text |-> <<"{">> \o Number("threads", "1") \o <<",">> \o top
                \o Str(<<"comics">>) \o <<":", "[">>
                \o FlattenSeq([i \in DOMAIN entries |-> entries[i].text])
                \o <<"{", "}", "]", "}">>,
     intact |-> TRUE,
     comics |-> FlattenSeq([i \in DOMAIN entries |-> entries[i].comics])]

UpTo(n, set) == UNION {[1 .. m -> set] : m \in 0 .. n}

PlainEntries == {Daily, Never, Ftp, Page, Empty}
PlainFiles(n) == {Written(<<>>, entries) : entries \in UpTo(n, PlainEntries)}
GoFiles(n) == {Written(Templates, entries) : entries \in UpTo(n, PlainEntries \cup {Go})}

Damaged(file) ==
    {[file EXCEPT !.text = RemoveAt(file.text, i), !.intact = FALSE] : i \in DOMAIN file.text}

\* One file, intact or damaged, or two of which the first has no templates.
Lines ==
    {<<f>> : f \in GoFiles(2)}
    \cup {<<f>> : f \in UNION {Damaged(g) : g \in GoFiles(1) \cup PlainFiles(2)}}
    \cup {<<f, g>> : f \in PlainFiles(1), g \in GoFiles(1)}

\* Two files of which the first has templates.
TwoWithTemplates == {<<Written(Templates, <<Go>>), Written(<<>>, <<Daily>>)>>}
=============================================================================
