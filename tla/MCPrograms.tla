----------------------------- MODULE MCPrograms -----------------------------
(***************************************************************************)
(* The command lines, configurations and site for TLC.  A word is written  *)
(* as one letter per character; a file or a directory has a name of one.   *)
(***************************************************************************)
EXTENDS Programs

\* A command of the native build on a good network; in what the others differ.
Cmd(p, words, next) ==
    [prog |-> p, argv |-> words, then |-> next, curl |-> FALSE, net |-> {}]
Curl(cmd) == [cmd EXCEPT !.curl = TRUE]
Faults(cmd, net) == [cmd EXCEPT !.net = net]
W(a) == <<a>>
O(a) == <<"-", a>>
OO(a, b) == <<"-", a, b>>

\* The configurations: one with an image and a page, one with a page that does
\* not match and an image of no known type, one for which only a part of the
\* expression matches, and one that is no JSON.
MCConfigs ==
    LET Of(u, out, re) == [url |-> u, out |-> out, regexp |-> re]
        C(dir, threads, timeout, list) ==
            [ok |-> TRUE, dir |-> dir, threads |-> threads, timeout |-> timeout, comics |-> list]
    IN (Default :> C("home", NoThreads, NoTimeout, <<Of("a", <<>>, FALSE), Of("p", <<>>, TRUE)>>))
       @@ (W("1") :> C("D", 1, 9, <<Of("n", <<"n">>, TRUE), Of("x", <<>>, FALSE)>>))
       @@ (W("2") :> C("E", NoThreads, NoTimeout, <<Of("s", <<"s", "html">>, TRUE)>>))
       @@ (W("3") :> C("D", 3, NoTimeout, <<>>))
       @@ (W("0") :> [C("D", 1, NoTimeout, <<>>) EXCEPT !.ok = FALSE])

MCLists == (W("L") :> <<"a", "x">>) @@ (Default :> <<"a">>)

MCSite ==
    LET Gives(last, host, header, page) ==
            [last |-> last, host |-> host, header |-> header, page |-> page]
    IN [a |-> Gives(<<"a", "gif">>, <<"A", "net">>, "GIF8", "nothing"),
        x |-> Gives(<<>>, <<"A", "net">>, "BM", "nothing"),
        p |-> Gives(<<"p">>, <<"P", "net">>, "JFIF", "names"),
        n |-> Gives(<<"n">>, <<"N", "net">>, "PNG", "nothing"),
        s |-> Gives(<<"s">>, <<"S", "net">>, "MM42", "partly")]

Numbers == ("0" :> 0) @@ ("1" :> 1) @@ ("9" :> -1)
MCStrtol == [w \in {W("0"), W("1"), W("9")} |-> Numbers[w[1]]]

MCDirs == {"home", "D", "E", ".", "I"}

\* Somebody's notes and image, a hidden image, and pages of long ago.
MCDisk0 ==
    LET mine == <<"other", "other">>
    IN [f \in {File("D", <<"notes", "txt">>), File("D", <<"old", "gif">>), File("D", <<"", "gif">>),
               File("I", <<"old", "html">>), File("D", <<"old", "html">>)} |-> mine]

\* In pairs: a run and the one that follows it.
MCCommands ==
    LET gc == "get-comics" hg == "http-get" lc == "link-check"
        resets == {"resets"} breaks == {"breaks"}
    IN <<Faults(Cmd(gc, <<>>, 2), breaks),                        Curl(Cmd(gc, <<O("k")>>, 0)),
         Faults(Cmd(gc, <<W("1")>>, 4), resets),                  Cmd(gc, <<OO("c", "k"), W("1")>>, 0),
         Cmd(gc, <<O("i"), W("I"), O("d"), W("D"), W("2"), W("1")>>, 6),
         Cmd(gc, <<OO("i", "I"), <<"-", "c", "d">>, W("D"), W("3")>>, 0),
         Cmd(gc, <<O("c"), OO("d", "D"), OO("t", "0")>>, 8),      Cmd(gc, <<OO("c", "V"), W("3")>>, 0),
         Cmd(gc, <<O("c"), O("d"), W("X"), W("1")>>, 10),         Cmd(gc, <<O("c"), W("0"), W("1")>>, 0),
         Cmd(gc, <<O("c"), W("3"), W("0")>>, 12),                 Cmd(gc, <<<<"-", "c", "?">>>>, 0),
         Cmd(gc, <<O("c"), OO("t", "9"), O("v"), W("1")>>, 14),   Cmd(gc, <<<<"-", "v", "c", "h">>>>, 0),
         Cmd(gc, <<O("l"), W("f"), OO("T", "1"), W("2")>>, 16),   Cmd(gc, <<O("c"), O("d")>>, 0),
         Cmd(gc, <<OO("l", "f"), O("t"), W("1"), O("d"), W("D")>>, 0),
         Cmd(hg, <<O("U"), O("r"), W("e"), W("p"), W("n")>>, 19), Cmd(hg, <<O("u"), O("l"), W("L"), O("U"), W("p")>>, 0),
         Faults(Cmd(hg, <<OO("r", "e"), OO("u", "R"), W("1"), OO("T", "1"), <<"-", "-">>, W("s"), W("p")>>, 21), breaks),
         Cmd(hg, <<O("v"), OO("t", "0"), W("a")>>, 0),
         Cmd(hg, <<O("h")>>, 23),                                 Cmd(lc, <<OO("v", "t"), W("1"), W("L")>>, 0),
         Cmd(lc, <<OO("T", "1"), <<"-", "-">>>>, 25),              Cmd(lc, <<O("h")>>, 0),
         Cmd(gc, <<OO("d", "D"), O("-"), W("1")>>, 0),
         Cmd(lc, <<W("Z"), <<"-">>, W("L")>>, 0),
         Curl(Cmd(gc, <<O("k")>>, 29)),                            Faults(Curl(Cmd(gc, <<>>, 0)), breaks),
         Curl(Cmd(gc, <<O("l"), W("f")>>, 31)),                   Curl(Cmd(gc, <<OO("c", "t"), W("9")>>, 0)),
         Cmd(gc, <<O("i"), W("X"), OO("d", "X"), OO("T", "0"), W("1")>>, 33),
         Faults(Cmd(lc, <<W("L")>>, 0), resets),                  Faults(Cmd(gc, <<>>, 0), resets)>>
=============================================================================
