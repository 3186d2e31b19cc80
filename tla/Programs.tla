------------------------------ MODULE Programs ------------------------------
(***************************************************************************)
(* The three programs, from their command lines to their exit status:      *)
(* get-comics, http-get and link-check (the main of each), what they read  *)
(* from configurations and lists of links, and the files they leave, over  *)
(* two runs in the same directories.  How the loop in the middle downloads *)
(* is the subject of Engine and CurlEngine: here each comic comes to one   *)
(* of the ends it has there, in any order, and the files are left that     *)
(* each end leaves.                                                        *)
(***************************************************************************)
EXTENDS GetOpt, Files, FiniteSets

CONSTANTS
    Commands,  \* what may be run: a sequence, see ProgramsAssumption
    Strtol,    \* the numbers among the words
    Configs,   \* the configuration files, see Config, by their names
    Lists,     \* the lists of links: sequences of urls
    Dirs,      \* the directories that exist
    Site,      \* what urls give, see Page
    Disk0      \* the files to begin with

\* A url is named like a word; last is what follows its last slash, and host
\* its host.  An image has a header.  A page names an image (or nothing, when the
\* regexp does not match; or it matches without the sub-expression that is wanted).
Page == [last: Seq(STRING), host: Seq(STRING), header: STRING,
         page: {"names", "nothing", "partly"}]

\* What u gives; a word that is no url of the site is named by itself.
Url(u) ==
    IF u \in DOMAIN Site THEN Site[u]
    ELSE [last |-> <<u>>, host |-> <<u>>, header |-> "", page |-> "nothing"]

\* "": the tag is not there.  A configuration that is no JSON is not ok.
NoTag == ""
Config == [ok: BOOLEAN, dir: STRING, threads: Int, timeout: Int,
           comics: Seq([url: STRING, out: Seq(STRING), regexp: BOOLEAN])]

ThreadLimit == 100   \* THREAD_LIMIT
SocketTimeout == 120 \* SOCKET_TIMEOUT
NoThreads == -99     \* a configuration without the tag "threads"...
NoTimeout == -99     \* ...and without the tag "timeout"

\* What a word is made of.  As a file or a directory is named by one character,
\* no word is empty, and none reads like what stands for no name.
Character == STRING \ {NoTag, "null"}

\* A command is a program, of the build with libcurl or of the native one; its
\* argv; the command that is run after it, or 0; and the faults of the network
\* that happen to it: connections that are reset inside a reply, and replies that
\* are broken off, or empty, and still taken for the whole.  (link-check in the
\* build with libcurl writes to files without a name: it is left out.)
ASSUME ProgramsAssumption ==
    /\ \A i \in DOMAIN Commands :
         /\ Commands[i].prog \in {"get-comics", "http-get", "link-check"}
         /\ Commands[i].argv \in Seq(Seq(Character) \ {<<>>})
         /\ Commands[i].then \in {0} \cup DOMAIN Commands
         /\ Commands[i].curl \in BOOLEAN /\ Commands[i].net \subseteq {"resets", "breaks"}
         /\ Commands[i].prog = "link-check" => ~Commands[i].curl
    /\ \A w \in DOMAIN Strtol : Strtol[w] \in Int
    /\ \A l \in DOMAIN Lists : Lists[l] \in Seq(DOMAIN Site)
    /\ \A u \in DOMAIN Site : Site[u] \in Page
    /\ \A c \in DOMAIN Configs :
         /\ Configs[c] \in Config
         /\ \A i \in DOMAIN Configs[c].comics : Configs[c].comics[i].url \in DOMAIN Site

VARIABLES
    run,      \* which of the commands runs
    pc,       \* where its main is
    g,        \* the state of getopt
    operand,  \* operands that were taken
    set,      \* what options and configurations have set, see Setting0
    comics,   \* the list of comics
    unique,   \* the static counter of do_add_regexp
    gotit,    \* the count of comics, or links, the program has got
    exit,     \* the exit status, or Running
    disk,     \* the files
    before    \* the files at the start of this run

vars == <<run, pc, g, operand, set, comics, unique, gotit, exit, disk, before>>

Running == -1
prog == Commands[run].prog
argv == Commands[run].argv
curl == Commands[run].curl
Net == Commands[run].net

Setting0 == [clean |-> FALSE, verify |-> FALSE, unlink |-> TRUE, links |-> FALSE,
             dir |-> NoTag, index |-> NoTag, threads |-> ThreadLimit,
             threadsSet |-> FALSE, timeout |-> SocketTimeout,
             regexp |-> FALSE, unique |-> FALSE, extend |-> FALSE]

Optstring(flags, withArg) == [c \in flags \cup withArg |-> c \in withArg]

\* The optstrings: whether a letter takes an argument.
Takes ==
    CASE prog = "get-comics" -> Optstring({"c", "h", "k", "v", "V"}, {"d", "i", "l", "t", "T"})
      [] prog = "http-get" -> Optstring({"h", "u", "U", "v"}, {"l", "r", "R", "t", "T"})
      [] prog = "link-check" -> Optstring({"h", "v"}, {"t", "T"})

Number(word) == IF word \in DOMAIN Strtol THEN Strtol[word] ELSE 0

-----------------------------------------------------------------------------
(* Comics on the list.                                                     *)

\* exts: the extensions that were appended to the name so far; resets: how often
\* it was reset; whole: whether what came was its own, and came whole.
Comic(url, out, regexp, index, number) ==
    [url |-> url, out |-> out, regexp |-> regexp,
     page |-> IF regexp THEN File(index, Regfname(number)) ELSE File("", <<>>),
     unique |-> set.unique, stage |-> "queued", exts |-> <<>>, resets |-> 0, whole |-> TRUE]

Outname(u, out) == IF out = <<>> THEN CreateOutname(Url(u).last) ELSE out

\* The comics of urls, the first of them getting the next number.
Numbered(entries, n, index) ==
    [i \in DOMAIN entries |->
        Comic(entries[i].url, Outname(entries[i].url, entries[i].out), entries[i].regexp, index,
              n + Cardinality({j \in 1 .. i : entries[j].regexp}))]

Regexps(entries) == Cardinality({i \in DOMAIN entries : entries[i].regexp})

\* add_get_url of http-get.  From -U on the names are out001 and so on; before,
\* as the url is cut off behind its host by then, a file is named by the host.
GetUrls(urls) ==
    LET made == Cardinality({i \in DOMAIN comics : comics[i].unique})
    IN [i \in DOMAIN urls |->
          [url |-> urls[i], regexp |-> set.regexp,
           out |-> IF set.unique THEN <<"out" \o ToString(made + i)>>
                   ELSE CreateOutname(Url(urls[i]).host)]]

\* add_url of link-check, which writes no file.
CheckUrls(urls) == [i \in DOMAIN urls |-> [url |-> urls[i], regexp |-> FALSE, out |-> <<>>]]

\* The comics go to the end of the list.
Add(entries, index) ==
    /\ comics' = comics \o Numbered(entries, unique, index)
    /\ unique' = unique + Regexps(entries)

\* read_link_file of either: a list that cannot be opened is passed over.
HttpGetList(word) ==
    IF word \in DOMAIN Lists THEN Add(GetUrls(Lists[word]), ".") ELSE UNCHANGED <<comics, unique>>

LinkCheckList(word) ==
    IF word \in DOMAIN Lists THEN Add(CheckUrls(Lists[word]), ".") ELSE UNCHANGED <<comics, unique>>

\* Mutant: a configuration goes before the command line.
ReadConfigOverrides(c) ==
    /\ set' = [set EXCEPT
                 !.dir = IF c.dir = NoTag THEN @ ELSE c.dir,
                 !.threads = IF set.threadsSet \/ c.threads = NoThreads THEN @ ELSE c.threads,
                 !.timeout = IF c.timeout = NoTimeout THEN @ ELSE c.timeout]
    /\ Add(c.comics, IF set.index = NoTag THEN "." ELSE set.index)

\* read_config: the first directory counts, and so does the command line; the
\* last number of threads, unless the command line has one; the last timeout.
ReadConfig(c) ==
    /\ set' = [set EXCEPT
                 !.dir = IF @ = NoTag THEN c.dir ELSE @,
                 !.threads = IF set.threadsSet \/ c.threads = NoThreads THEN @ ELSE c.threads,
                 !.timeout = IF c.timeout = NoTimeout THEN @ ELSE c.timeout]
    /\ Add(c.comics, IF set.index = NoTag THEN "." ELSE set.index)

-----------------------------------------------------------------------------
(* The options.                                                            *)

\* The program ends before its loop, or from its loop on.
Stop(status) == pc' = "stopped" /\ exit' = status
Exit(status) == pc' = "exit" /\ exit' = status

\* What an option without consequences sets, in get-comics...
GetComicsSet(letter, arg) ==
    CASE letter = "c" -> [set EXCEPT !.clean = TRUE]
      [] letter = "d" -> [set EXCEPT !.dir = Head(arg)]
      [] letter = "i" -> [set EXCEPT !.index = Head(arg)]
      [] letter = "k" -> [set EXCEPT !.unlink = FALSE]
      [] letter = "l" -> [set EXCEPT !.links = TRUE]
      [] letter = "t" -> [set EXCEPT !.threads = Number(arg), !.threadsSet = TRUE]
      [] letter = "v" -> set
      [] letter = "T" -> [set EXCEPT !.timeout = Number(arg)]
      [] letter = "V" -> [set EXCEPT !.verify = TRUE]

\* ...in http-get...
HttpGetSet(letter, arg) ==
    CASE letter = "r" -> [set EXCEPT !.regexp = TRUE]
      [] letter = "t" -> [set EXCEPT !.threads = Number(arg)]
      [] letter = "u" -> [set EXCEPT !.unlink = FALSE]
      [] letter = "U" -> [set EXCEPT !.unique = TRUE]
      [] letter = "T" -> [set EXCEPT !.timeout = Number(arg)]
      [] letter \in {"l", "R", "v"} -> set

\* ...and in link-check.
LinkCheckSet(letter, arg) ==
    CASE letter = "t" -> [set EXCEPT !.threads = Number(arg)]
      [] letter = "T" -> [set EXCEPT !.timeout = Number(arg)]
      [] letter = "v" -> set

OptionSet(letter, arg) ==
    CASE prog = "get-comics" -> GetComicsSet(letter, arg)
      [] prog = "http-get" -> HttpGetSet(letter, arg)
      [] prog = "link-check" -> LinkCheckSet(letter, arg)

\* The options of get-comics that may end it: a file of links that cannot be
\* opened, a directory that is not there and cannot be made.
Refusable(letter, arg) ==
    prog = "get-comics" /\ (letter = "l" \/ (letter = "i" /\ Head(arg) \notin Dirs))

\* One turn of the loop around getopt.  -l opens the file at once: http-get
\* reads the list, with the options before it; get-comics empties the file.
Option ==
    /\ pc = "options"
    /\ g' = Getopt(g, argv, Takes)
    /\ \/ /\ g'.ret \in {"h", "?"}
          /\ Stop(IF g'.ret = "h" THEN 0 ELSE 1)
          /\ UNCHANGED <<set, comics, unique, disk>>
       \/ /\ g'.ret \notin {"h", "?", "end"} /\ Refusable(g'.ret, g'.optarg)
          /\ Stop(1)
          /\ UNCHANGED <<set, comics, unique, disk>>
       \/ /\ g'.ret = "end" /\ pc' = "operands"
          /\ UNCHANGED <<exit, set, comics, unique, disk>>
       \/ /\ g'.ret \notin {"h", "?", "end"}
          /\ set' = OptionSet(g'.ret, g'.optarg)
          /\ IF prog = "http-get" /\ g'.ret = "l" THEN HttpGetList(g'.optarg)
             ELSE UNCHANGED <<comics, unique>>
          /\ disk' = IF prog = "get-comics" /\ g'.ret = "l"
                     THEN Put(disk, File("/", g'.optarg), <<"links">>) ELSE disk
          /\ UNCHANGED <<pc, exit>>
    /\ UNCHANGED <<run, operand, gotit, before>>

-----------------------------------------------------------------------------
(* The operands, and what is checked before the loop.                      *)

Operands == SubSeq(argv, g.optind, Len(argv))

\* The file that is read when no operand is given: comics.json, or stdin.
Default == <<"default">>

\* The words to take: http-get never reads stdin.
Words == IF Operands = <<>> /\ prog # "http-get" THEN <<Default>> ELSE Operands

Takeable(p) == pc = "operands" /\ prog = p /\ operand < Len(Words)
Word == Words[operand + 1]

\* get-comics: a configuration that cannot be read is fatal.
ConfigOperand ==
    /\ Takeable("get-comics")
    /\ IF Word \in DOMAIN Configs /\ Configs[Word].ok
       THEN ReadConfig(Configs[Word]) /\ UNCHANGED <<pc, exit>>
       ELSE Stop(1) /\ UNCHANGED <<set, comics, unique>>
    /\ operand' = operand + 1
    /\ UNCHANGED <<run, g, gotit, disk, before>>

\* http-get.
UrlOperand ==
    /\ Takeable("http-get")
    /\ Add(GetUrls(<<Head(Word)>>), ".")
    /\ operand' = operand + 1
    /\ UNCHANGED <<run, pc, g, set, gotit, exit, disk, before>>

\* link-check.
ListOperand ==
    /\ Takeable("link-check")
    /\ LinkCheckList(Word)
    /\ operand' = operand + 1
    /\ UNCHANGED <<run, pc, g, set, gotit, exit, disk, before>>

\* The directory that is gone to: of get-comics only.
Home == "home"
ComicsDir == IF set.dir = NoTag THEN Home ELSE set.dir

\* thread_limit once it is no more than n_comics.
Threads == IF set.threads > Len(comics) THEN Len(comics) ELSE set.threads

\* What stops get-comics before its loop, in order: -V, no thread, no
\* directory.  (The one of -i is there: it was made.)
Verified == prog = "get-comics" /\ set.verify
Stops == Verified \/ set.threads = 0 \/ ComicsDir \notin Dirs \cup {set.index}

\* main_loop of the native engine cannot allocate a poll table of negative size.
NoTable == Threads < 0 /\ ~curl

\* Mutant: the directory is cleaned before the threads are looked at.
CleanedEarly == IF set.clean THEN CleanDir(disk, ComicsDir, set.index) ELSE disk

Cleaned == IF set.clean /\ ~Stops THEN CleanDir(disk, ComicsDir, set.index) ELSE disk

\* get-comics goes to its directory: relative files are there from now on.
Begin ==
    /\ prog = "get-comics" /\ pc = "operands" /\ operand = Len(Words)
    /\ disk' = Cleaned
    /\ \/ Verified /\ Stop(0)
       \/ ~Verified /\ Stops /\ Stop(1)
       \/ ~Stops /\ NoTable /\ Exit(1)
       \/ ~Stops /\ ~NoTable /\ pc' = "loop" /\ UNCHANGED exit
    /\ set' = [set EXCEPT !.dir = ComicsDir, !.threads = Threads, !.extend = TRUE]
    /\ UNCHANGED <<run, g, operand, comics, unique, gotit, before>>

\* http-get and link-check stay where they are; extensions come with -U.
BeginHere ==
    /\ prog # "get-comics" /\ pc = "operands" /\ operand = Len(Words)
    /\ \/ set.threads = 0 /\ Stop(1)
       \/ set.threads # 0 /\ NoTable /\ Exit(1)
       \/ set.threads # 0 /\ ~NoTable /\ pc' = "loop" /\ UNCHANGED exit
    /\ set' = [set EXCEPT !.dir = ".", !.threads = Threads,
                          !.extend = \E i \in DOMAIN comics : comics[i].unique]
    /\ UNCHANGED <<run, g, operand, comics, unique, gotit, disk, before>>

-----------------------------------------------------------------------------
(* The loop: each comic goes its way.                                      *)

Become(i, c) == comics' = [comics EXCEPT ![i] = c]
At(f) == IF f.dir = "." THEN File(set.dir, f.name) ELSE f
PageAt(c) == At(c.page)
PageData(c) == <<"page", c.url>>
PagePart(c) == <<"part of a page", c.url>>
ImageData(c) == <<"image", c.url>>
ImagePart(c) == <<"part of an image", c.url>>
FirstStage(c) == c.regexp /\ c.stage = "queued"
HeadOnly == prog = "link-check"

\* The image is there as write_output has named it.
Image(c) == File(set.dir, c.out \o c.exts)

\* What the first bytes of the image look like: too few are of no known type.
\* Of another image than the comic's, or of an error page, it may be anything.
Types(c) == IF c.whole THEN {LazyImgtype(Url(c.url).header), "xxx"} ELSE Exts

\* The file is named when it is opened: each time an extension is appended.
Opened(c, ext) == IF set.extend THEN [c EXCEPT !.exts = Append(@, ext)] ELSE c

\* What is left of a comic and on the disk when the reply is not had whole.  (A
\* name that was extended for a file that could not be made is of no use later.)
Leaves(c) ==
    {[comic |-> c, disk |-> disk]} \cup
    IF HeadOnly THEN {}
    ELSE IF FirstStage(c) THEN {[comic |-> c, disk |-> Put(disk, PageAt(c), PagePart(c))]}
    ELSE {[comic |-> Opened(c, ext), disk |-> Put(disk, Image(Opened(c, ext)), ImagePart(c))] :
            ext \in Types(c)}

IsLink(c) == set.links /\ ~c.regexp

\* Only links are wanted, and the url is one: it is counted twice.
Link(i) ==
    /\ IsLink(comics[i]) /\ comics[i].stage = "queued"
    /\ gotit' = gotit + 2
    /\ Become(i, [comics[i] EXCEPT !.stage = "got"]) /\ UNCHANGED disk

\* The whole page of a comic of two stages has come.
PageCame(i) ==
    /\ FirstStage(comics[i])
    /\ disk' = Put(disk, PageAt(comics[i]), PageData(comics[i]))
    /\ Become(i, [comics[i] EXCEPT !.stage = "page"]) /\ UNCHANGED gotit

\* A page that was broken off, or is empty, is searched all the same: libcurl
\* opens no file for an empty one.
PageBroken(i) ==
    /\ "breaks" \in Net /\ FirstStage(comics[i])
    /\ \/ disk' = Put(disk, PageAt(comics[i]), PagePart(comics[i]))
       \/ curl /\ UNCHANGED disk
    /\ Become(i, [comics[i] EXCEPT !.stage = "page", !.whole = FALSE]) /\ UNCHANGED gotit

\* What the regexp finds in the file of the page, if it is there.
Found(c) ==
    IF PageAt(c) \notin DOMAIN disk THEN {"nothing"}
    ELSE IF disk[PageAt(c)][1] = "page" THEN {Url(disk[PageAt(c)][2]).page}
    ELSE {"names", "nothing", "partly"}

\* What is searched is the comic's own page, and whole.
OwnPage(c) == PageAt(c) \in DOMAIN disk /\ disk[PageAt(c)] = PageData(c)

\* find_regexp: a page that matches, if only partly, is removed.
Unlinked(c, found) ==
    IF set.unlink /\ found # "nothing" THEN Without(disk, {PageAt(c)}) ELSE disk

\* What process_html does with what was found, and how often it is counted.  A
\* link is counted by add_link and again by close_connection, for which with
\* libcurl the connection is closed already: it stays outstanding, like a comic
\* whose image cannot be asked for.
Goes(found) ==
    IF found # "names" THEN {[stage |-> "failed", counts |-> 0]}
    ELSE IF ~set.links THEN {[stage |-> "image", counts |-> 0], [stage |-> "stuck", counts |-> 0]}
    ELSE IF curl THEN {[stage |-> "stuck", counts |-> 1]}
    ELSE {[stage |-> "got", counts |-> 2]}

FindRegexp(i) ==
    LET c == comics[i]
    IN /\ c.stage = "page"
       /\ \E found \in Found(c) : \E to \in Goes(found) :
            /\ disk' = Unlinked(c, found)
            /\ gotit' = gotit + to.counts
            /\ Become(i, [c EXCEPT !.stage = to.stage,
                             !.whole = @ /\ OwnPage(c)])

Wanted(c) ==
    \/ c.stage = "image"
    \/ c.stage = "queued" /\ ~c.regexp /\ ~set.links

\* Mutant: write_output does not truncate a file that is there.
WrittenKept(c) ==
    IF Image(c) \in DOMAIN disk THEN disk ELSE Put(disk, Image(c), ImageData(c))

\* The whole image in its file.
Written(c) == Put(disk, Image(c), ImageData(c))

\* The image has come.
ImageCame(i) ==
    /\ Wanted(comics[i]) /\ ~HeadOnly
    /\ \E ext \in Types(comics[i]) :
         LET c == Opened(comics[i], ext)
         IN disk' = Written(c) /\ Become(i, [c EXCEPT !.stage = "got"])
    /\ gotit' = gotit + 1

\* The answer to a HEAD request has come.
HeadCame(i) ==
    /\ Wanted(comics[i]) /\ HeadOnly
    /\ Become(i, [comics[i] EXCEPT !.stage = "got"])
    /\ gotit' = gotit + 1 /\ UNCHANGED disk

\* An image that was broken off, or is empty, counts as well.
ImageBroken(i) ==
    /\ "breaks" \in Net /\ Wanted(comics[i]) /\ ~HeadOnly
    /\ \E left \in Leaves(comics[i]) :
         /\ disk' = left.disk
         /\ Become(i, [left.comic EXCEPT !.stage = "got", !.whole = FALSE])
    /\ gotit' = gotit + 1

\* The native engine asks again after a reset, up to twice; the file of an image
\* is opened again then, and its name extended again.
Reset(i) ==
    /\ "resets" \in Net /\ ~curl /\ comics[i].resets < 2
    /\ comics[i].stage \in {"queued", "image"} /\ ~IsLink(comics[i])
    /\ \E left \in Leaves(comics[i]) :
         /\ disk' = left.disk
         /\ Become(i, [left.comic EXCEPT !.resets = @ + 1])
    /\ UNCHANGED gotit

\* It is missed, before or after a part of it is in the file.
Missed(i) ==
    /\ comics[i].stage \in {"queued", "image"} /\ ~IsLink(comics[i])
    /\ \E left \in Leaves(comics[i]) :
         /\ disk' = left.disk
         /\ Become(i, [left.comic EXCEPT !.stage = "missed"])
    /\ UNCHANGED gotit

Resolved(c) == c.stage \in {"got", "missed", "failed"}

\* A comic is started while fewer than thread_limit are outstanding, of which
\* those that are stuck are for ever.
Moves(c) ==
    \/ c.stage \in {"page", "image"}
    \/ c.stage = "queued" /\ Cardinality({i \in DOMAIN comics : comics[i].stage = "stuck"}) < set.threads

Download ==
    /\ pc = "loop"
    /\ \E i \in DOMAIN comics :
         /\ Moves(comics[i])
         /\ \/ Link(i) \/ PageCame(i) \/ PageBroken(i) \/ FindRegexp(i)
            \/ ImageCame(i) \/ HeadCame(i) \/ ImageBroken(i) \/ Reset(i) \/ Missed(i)
    /\ UNCHANGED <<run, pc, g, operand, set, unique, exit, before>>

\* The loop never ends: a comic is stuck, or can never be started.
Waits ==
    /\ pc = "loop" /\ \E i \in DOMAIN comics : ~Resolved(comics[i])
    /\ \A i \in DOMAIN comics : ~Moves(comics[i])
    /\ UNCHANGED vars

Status == IF gotit # Len(comics) THEN 1 ELSE 0

\* main_loop has returned: out_results, and the exit status.
Results ==
    /\ pc = "loop" /\ \A i \in DOMAIN comics : Resolved(comics[i])
    /\ Exit(Status)
    /\ UNCHANGED <<run, g, operand, set, comics, unique, gotit, disk, before>>

-----------------------------------------------------------------------------
Fresh ==
    /\ pc' = "options" /\ g' = Getopt0 /\ operand' = 0 /\ set' = Setting0
    /\ comics' = <<>> /\ unique' = 0 /\ gotit' = 0 /\ exit' = Running
    /\ before' = disk

\* Later, another command in the same directories.
NextRun ==
    /\ pc \in {"stopped", "exit"} /\ Commands[run].then # 0
    /\ run' = Commands[run].then
    /\ Fresh /\ UNCHANGED disk

Init ==
    /\ run \in DOMAIN Commands
    /\ pc = "options" /\ g = Getopt0 /\ operand = 0 /\ set = Setting0
    /\ comics = <<>> /\ unique = 0 /\ gotit = 0 /\ exit = Running
    /\ disk = Disk0 /\ before = Disk0

Terminating ==
    pc \in {"stopped", "exit"} /\ Commands[run].then = 0 /\ UNCHANGED vars

Next ==
    \/ Option
    \/ ConfigOperand \/ UrlOperand \/ ListOperand
    \/ Begin \/ BeginHere
    \/ Download \/ Waits \/ Results
    \/ NextRun \/ Terminating

Spec == Init /\ [][Next]_vars

-----------------------------------------------------------------------------
\* Types; the numbers of pages that were given out are those of the list.
TypeOK ==
    /\ run \in DOMAIN Commands /\ pc \in {"options", "operands", "loop", "stopped", "exit"}
    /\ g.optind \in 1 .. Len(argv) + 2 /\ operand \in 0 .. Len(Words)
    /\ DOMAIN set = DOMAIN Setting0 /\ set.threads \in Int /\ set.timeout \in Int
    /\ \A i \in DOMAIN comics :
         comics[i].stage \in {"queued", "page", "image", "got", "missed", "failed", "stuck"}
    /\ unique = Cardinality({i \in DOMAIN comics : comics[i].regexp})
    /\ gotit \in 0 .. 2 * Len(comics) /\ exit \in {Running, 0, 1}

Given(opts, letter) == {i \in DOMAIN opts : opts[i].letter = letter}
LastArg(opts, letter) ==
    opts[CHOOSE i \in Given(opts, letter) : \A j \in Given(opts, letter) : j <= i].arg

\* The number of threads that was asked for, by whom it counts.
ThreadsAsked(opts, read) ==
    LET say == {i \in DOMAIN read : read[i].threads # NoThreads}
    IN IF Given(opts, "t") # {} THEN Number(LastArg(opts, "t"))
       ELSE IF say = {} THEN ThreadLimit
       ELSE read[CHOOSE i \in say : \A j \in say : j <= i].threads

\* The timeout: unlike of the threads, a configuration goes before the command line.
TimeoutAsked(opts, read) ==
    LET say == {i \in DOMAIN read : read[i].timeout # NoTimeout}
    IN IF say # {} THEN read[CHOOSE i \in say : \A j \in say : j <= i].timeout
       ELSE IF Given(opts, "T") = {} THEN SocketTimeout ELSE Number(LastArg(opts, "T"))

DirAsked(opts, read) ==
    LET say == {i \in DOMAIN read : read[i].dir # NoTag}
    IN IF Given(opts, "d") # {} THEN Head(LastArg(opts, "d"))
       ELSE IF say = {} THEN Home
       ELSE read[CHOOSE i \in say : \A j \in say : i <= j].dir

\* Options and operands as POSIX has them.
Asked == Meaning(argv, Takes)

Settled ==
    LET opts == Asked.opts
        words == IF Asked.operands = <<>> THEN <<Default>> ELSE Asked.operands
        read == [i \in DOMAIN words |-> Configs[words[i]]]
    IN /\ Given(opts, "h") = {} /\ Given(opts, "?") = {}
       /\ prog = "get-comics" =>
            /\ set.dir = DirAsked(opts, read)
            /\ LET asked0 == ThreadsAsked(opts, read)
               IN set.threads = IF asked0 > Len(comics) THEN Len(comics) ELSE asked0
            /\ set.timeout = TimeoutAsked(opts, read)
            /\ set.unlink = (Given(opts, "k") = {}) /\ set.links = (Given(opts, "l") # {})
            /\ \A i \in DOMAIN read : \A k \in DOMAIN read[i].comics :
                 \E c \in DOMAIN comics : comics[c].url = read[i].comics[k].url
       /\ prog = "http-get" => \A i \in DOMAIN Asked.operands :
            \E c \in DOMAIN comics : comics[c].url = Head(Asked.operands[i])

\* Types; and a program that comes to its loop has understood its command line as POSIX
\* has it, in whatever way options were joined to each other and to their
\* arguments, and what the command line says of the directory and the threads
\* goes before what the configurations say, of which all are read.  (Of the
\* timeout it is the other way round, though get-comics.1:91 says the same of it.)
SettingsRight == TypeOK /\ (pc = "loop" => Settled)

\* The directory is gone to, and main_loop called.
Begun == pc \in {"loop", "exit"}

Cleanable(f) ==
    /\ set.clean
    /\ \/ f.dir = set.dir /\ IsImgtype(Ext(f.name))
       \/ f.dir = set.index /\ Ext(f.name) = "html"

\* A name that the image of the comic may come to have.
Named(c, name) ==
    IF set.extend
    THEN /\ Len(name) >= Len(c.out) /\ SubSeq(name, 1, Len(c.out)) = c.out
         /\ \A k \in Len(c.out) + 1 .. Len(name) : name[k] \in Exts
    ELSE name = c.out

Own(f) ==
    \E i \in DOMAIN comics :
        (f.dir = set.dir /\ Named(comics[i], f.name)) \/ f = PageAt(comics[i])

\* A file that was there is changed or removed only by a run that comes to its
\* loop, and only for one of its comics, or because -c says so: a run that
\* stops early, for whatever reason, leaves the directories as they were.  (The
\* file of -l is emptied at once.)
OthersKept ==
    \A f \in DOMAIN before :
        \/ f \in DOMAIN disk /\ disk[f] = before[f]
        \/ f.dir = "/"
        \/ Begun /\ (Own(f) \/ (Cleanable(f) /\ ~Hidden(f.name)))

\* Nothing of it has come.
Untouched(c) == c.stage = "queued" /\ c.resets = 0

\* After -c no image that an earlier run has downloaded, whole or in part, is
\* left, whatever it is named and holds, and no page in the index directory.
CleanExact ==
    pc = "loop" /\ set.clean /\ (\A i \in DOMAIN comics : Untouched(comics[i])) =>
        \A f \in DOMAIN disk :
            /\ f.dir = set.dir => disk[f][1] \notin {"image", "part of an image"}
            /\ f.dir = set.index => disk[f][1] \notin {"page", "part of a page"}

\* The comics are named apart, and none of them like a page.
NamesApart ==
    /\ \A i, j \in DOMAIN comics : i # j => ~Named(comics[i], comics[j].out)
    /\ \A i, j \in DOMAIN comics :
         comics[j].regexp /\ PageAt(comics[j]).dir = set.dir =>
             ~Named(comics[i], PageAt(comics[j]).name)

\* When the exit status says that all was got, all is there that came whole: the
\* comic is in the file it was last given a name for, with nothing left in it of
\* what a reset, another comic or an earlier run has put there.  (What was broken
\* off counts too, so that of it nothing can be said: see ImageBroken.)
SuccessMeansFiles ==
    (pc = "exit" /\ exit = 0 /\ NamesApart /\ ~set.links /\ ~HeadOnly) =>
        \A i \in DOMAIN comics :
            /\ comics[i].stage = "got"
            /\ comics[i].whole =>
                 Image(comics[i]) \in DOMAIN disk /\ disk[Image(comics[i])] = ImageData(comics[i])

\* The page that is searched is the comic's own, if it came whole, and in the native
\* engine always; it is kept when it does not match, to be looked at, and is gone
\* once it has matched, if only in part, unless -k is given.
PageOwn ==
    Begun /\ NamesApart =>
        \A i \in DOMAIN comics :
            LET c == comics[i]
                there == OwnPage(c)
            IN /\ c.stage = "page" /\ ~curl =>
                    PageAt(c) \in DOMAIN disk /\ disk[PageAt(c)] \in {PageData(c), PagePart(c)}
               /\ c.whole /\ c.stage = "page" => there
               /\ c.whole /\ c.stage = "failed" /\ Url(c.url).page = "nothing" => there
               /\ c.whole /\ c.stage = "failed" /\ Url(c.url).page = "partly" => there = ~set.unlink
               /\ c.whole /\ c.regexp /\ c.stage \in {"image", "got", "stuck"} => there = ~set.unlink
=============================================================================
