------------------------------- MODULE Files -------------------------------
(***************************************************************************)
(* The files of the programs (common.c, get-comics.c, config.c): how they  *)
(* are named, which are written, looked for and removed.                   *)
(*                                                                         *)
(* A name is the sequence of its parts between dots, so that "a.b.gif" is  *)
(* <<"a", "b", "gif">> and ".gif" is <<"", "gif">>.  A disk maps files to  *)
(* what they hold: whose data, and what its first bytes look like.         *)
(***************************************************************************)
EXTENDS Integers, Sequences, TLC

File(dir, name) == [dir |-> dir, name |-> name]

Put(disk, f, data) == [g \in DOMAIN disk \cup {f} |-> IF g = f THEN data ELSE disk[g]]
Without(disk, gone) == [g \in DOMAIN disk \ gone |-> disk[g]]

\* hdrs: the first four bytes, by which an image is known, and its extension.
Hdrs == [GIF8 |-> "gif", PNG |-> "png", JFIF |-> "jpg", EXIF |-> "jpg",
         ADOBE |-> "jpg", II42 |-> "tif", MM42 |-> "tif"]

LazyImgtype(header) == IF header \in DOMAIN Hdrs THEN Hdrs[header] ELSE "xxx"

\* Mutant: what is not known for an image cannot be cleaned.
IsImgtypeKnown(ext) == ext \in {Hdrs[h] : h \in DOMAIN Hdrs}

\* The extensions that images get.
Exts == {Hdrs[h] : h \in DOMAIN Hdrs} \cup {"xxx"}

IsImgtype(ext) == ext \in Exts

\* What follows the last dot.
Ext(name) == IF Len(name) > 1 THEN name[Len(name)] ELSE ""
Hidden(name) == name[1] = ""

\* create_outname: what follows the last slash of the url, which is last.
CreateOutname(last) == IF last = <<>> THEN <<"index", "html">> ELSE last

\* Mutant: pages do not get a number of their own.
RegfnameSame(unique) == <<"index-", "html">>

\* do_add_regexp: the name of a page.
Regfname(unique) == <<"index-" \o ToString(unique), "html">>

\* What readdir lists.
Entries(disk, dir) == {f \in DOMAIN disk : f.dir = dir}

\* clean_index_dir.
CleanIndexDir(disk, index) ==
    Without(disk, {f \in Entries(disk, index) : ~Hidden(f.name) /\ Ext(f.name) = "html"})

\* clean_dir, and then the index directory, if there is one.
CleanDir(disk, dir, index) ==
    CleanIndexDir(Without(disk, {f \in Entries(disk, dir) :
                                   ~Hidden(f.name) /\ IsImgtype(Ext(f.name))}), index)
=============================================================================
