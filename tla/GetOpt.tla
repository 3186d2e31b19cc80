------------------------------- MODULE GetOpt -------------------------------
(***************************************************************************)
(* getopt() of the Windows port (win32/getopt.h), one call of it, and what *)
(* a command line means.  Elsewhere the C library's is called, which gives *)
(* the same when options come before operands.                             *)
(*                                                                         *)
(* A word is the sequence of its characters.  takes maps the letters of    *)
(* optstring to whether a ":" follows.                                     *)
(***************************************************************************)
EXTENDS Integers, Sequences

\* The static variables of getopt: optind counts words from 1, without the
\* name of the program; argptr is null, or what is left of a word.  And what
\* the last call returned: a letter, "?" or "end", and optarg.
NoWord == <<"null">>
Getopt0 == [optind |-> 1, argptr |-> NoWord, ret |-> "none", optarg |-> NoWord]

Done(g) == [g EXCEPT !.ret = "end"]

\* A letter that takes an argument: the rest of the word, or the next word,
\* which is skipped by the next call as the rest of this one is empty.
Argument(g, argv, letter, rest) ==
    IF rest # <<>>
    THEN [optind |-> g.optind + 1, argptr |-> NoWord, ret |-> letter, optarg |-> rest]
    ELSE IF g.optind + 1 > Len(argv)
    THEN [g EXCEPT !.optind = @ + 1, !.argptr = <<>>, !.ret = "?"]
    ELSE [optind |-> g.optind + 1, argptr |-> <<>>, ret |-> letter,
          optarg |-> argv[g.optind + 1]]

Letter(g, argv, takes, word) ==
    LET letter == Head(word)
        h == [g EXCEPT !.argptr = Tail(word), !.ret = letter]
    IN IF letter \notin DOMAIN takes THEN [h EXCEPT !.ret = "?"]
       ELSE IF takes[letter] THEN Argument(h, argv, letter, Tail(word))
       ELSE h

Getopt(state, argv, takes) ==
    LET cleared == [state EXCEPT !.optarg = NoWord]
        g == IF state.argptr = <<>>
             THEN [cleared EXCEPT !.optind = @ + 1, !.argptr = NoWord] ELSE cleared
    IN IF g.argptr # NoWord THEN Letter(g, argv, takes, g.argptr)
       ELSE IF g.optind > Len(argv) THEN Done(g)
       ELSE LET word == argv[g.optind]
            IN IF word = <<"-", "-">> THEN Done([g EXCEPT !.optind = @ + 1])
               ELSE IF word = <<>> \/ Head(word) # "-" \/ Len(word) = 1 THEN Done(g)
               ELSE Letter(g, argv, takes, Tail(word))

-----------------------------------------------------------------------------
(* The same by its meaning, as POSIX has it: the options of a command line *)
(* in order, each with its argument, up to an error; and its operands.     *)

Opt(letter, arg) == [letter |-> letter, arg |-> arg]

\* The options of a word, without its "-", and whether the next word is an
\* argument of the last of them.
Cluster(word, takes) ==
    LET stops == {i \in DOMAIN word : word[i] \notin DOMAIN takes \/ takes[word[i]]}
        last == CHOOSE i \in stops : \A j \in stops : i <= j
        plain(n) == [i \in 1 .. n |-> Opt(word[i], NoWord)]
        rest == SubSeq(word, last + 1, Len(word))
    IN IF stops = {} THEN [opts |-> plain(Len(word)), more |-> FALSE]
       ELSE IF word[last] \notin DOMAIN takes
       THEN [opts |-> Append(plain(last - 1), Opt("?", NoWord)), more |-> FALSE]
       ELSE [opts |-> Append(plain(last - 1), Opt(word[last], rest)), more |-> rest = <<>>]

Meaning(argv, takes) ==
    LET IsOption(w) == Len(w) > 1 /\ w[1] = "-"
        Operands(i) == [opts |-> <<>>, operands |-> SubSeq(argv, i, Len(argv))]
        WithArg(opts, arg) ==
            [opts EXCEPT ![Len(opts)].arg = arg]
        from[i \in 1 .. Len(argv) + 1] ==
            IF i > Len(argv) \/ ~IsOption(argv[i]) THEN Operands(i)
            ELSE IF argv[i] = <<"-", "-">> THEN Operands(i + 1)
            ELSE LET k == Cluster(Tail(argv[i]), takes)
                 IN IF ~k.more
                    THEN [from[i + 1] EXCEPT !.opts = k.opts \o @]
                    ELSE IF i = Len(argv)
                    THEN [opts |-> [k.opts EXCEPT ![Len(k.opts)] = Opt("?", NoWord)],
                          operands |-> <<>>]
                    ELSE [from[i + 2] EXCEPT !.opts = WithArg(k.opts, argv[i + 1]) \o @]
    IN from[1]
=============================================================================
