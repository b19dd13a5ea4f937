----------------------------- MODULE CowrieFS -----------------------------
(***************************************************************************)
(* The virtual file system of one cowrie connection (shell/fs.py) and the  *)
(* file commands of its shell (commands/fs.py), as functions from a tree   *)
(* to a tree.  A directory is a Python list of entries: two entries may    *)
(* have one name, one entry may stand in two lists, and a lookup takes the *)
(* first or the last of equal names as the method that does it.            *)
(*                                                                         *)
(* An entry is an index of t.node; path components are strings, an         *)
(* absolute path is the sequence of its components, << >> is "/".          *)
(* Sizes, modes, owners and times are left out, except that two entries    *)
(* made apart differ in their times ("born"): list.remove compares values. *)
(***************************************************************************)
EXTENDS Integers, Sequences, SequencesExt, FiniteSets

CONSTANT MaxNew        \* the artificial limit of mkfile and mkdir, 10000 in the code

ASSUME MaxNewAssumption == MaxNew \in Nat

Root == 1
Missing == 0           \* getfile's False
NotFound == -1         \* FileNotFound is raised
NoContents == -2       \* False[A_CONTENTS]: a TypeError is raised

\* A file of the host is a non-empty tuple; this is None.
NoFile == << >>

\* An entry: A_NAME, A_TYPE, A_CONTENTS, A_TARGET, A_REALFILE (NoFile for None).
Entry(name, type, target, real, born) ==
  [name |-> name, type |-> type, contents |-> << >>, target |-> target,
   real |-> real, born |-> born]

-----------------------------------------------------------------------------
(* Paths and lookups *)

\* resolve_path: ".." never leaves the root, "." and empty pieces are dropped.
resolve_path(path, cwd) ==
  LET add(acc, piece) == CASE piece = ".." -> (IF acc = << >> THEN acc ELSE Front(acc))
                           [] piece \in {".", ""} -> acc
                           [] OTHER -> Append(acc, piece)
  IN FoldLeft(add, IF path.abs THEN << >> ELSE cwd, path.pieces)

dirname(p) == IF p = << >> THEN p ELSE Front(p)
basename(p) == IF p = << >> THEN "" ELSE Last(p)

\* getfile: of several entries of one name the last one is taken; a link is
\* followed unless its name is that of the last piece and the caller says no.
getfile(t, wanted, follow) ==
  LET at[path \in Seq(STRING)] ==
        LET reach(x, piece) ==
              IF t.node[x].type = "link" /\ (follow \/ piece # Last(path))
              THEN at[t.node[x].target] ELSE x
            walk(p, piece) ==
              IF p = Missing THEN Missing
              ELSE LET named == {i \in DOMAIN t.node[p].contents :
                                   t.node[t.node[p].contents[i]].name = piece}
                       ends == {reach(t.node[p].contents[i], piece) : i \in named}
                   IN IF named = {} \/ Missing \in ends THEN Missing
                      ELSE reach(t.node[p].contents[CHOOSE i \in named : \A j \in named : j <= i], piece)
        IN FoldLeft(walk, Root, path)
  IN at[wanted]

\* get_path: the list of a directory; the first entry of each name is taken.
\* Returns the entry that holds the list, or the exception.
get_path(t, path) ==
  LET walk(d, piece) ==
        IF d = NotFound THEN d
        ELSE IF d <= Missing THEN NoContents
        ELSE LET named == {i \in DOMAIN t.node[d].contents :
                             t.node[t.node[d].contents[i]].name = piece}
             IN IF named = {} THEN NotFound
                ELSE LET x == t.node[d].contents[CHOOSE i \in named : \A j \in named : i <= j]
                     IN IF t.node[x].type = "link" THEN getfile(t, t.node[x].target, TRUE) ELSE x
      d == FoldLeft(walk, Root, path)
  IN IF d = Missing THEN NoContents ELSE d

exists(t, path) == getfile(t, path, TRUE) # Missing

isdir(t, path) == LET f == getfile(t, path, TRUE)
                  IN f # Missing /\ t.node[f].type = "dir"

-----------------------------------------------------------------------------
(* Lists of entries *)

\* == between two entries, field by field
Same(t, x, y) ==
  LET same[a, b \in DOMAIN t.node] ==
        \/ a = b
        \/ /\ [t.node[a] EXCEPT !.contents = << >>] = [t.node[b] EXCEPT !.contents = << >>]
           /\ Len(t.node[a].contents) = Len(t.node[b].contents)
           /\ \A i \in DOMAIN t.node[a].contents : same[t.node[a].contents[i], t.node[b].contents[i]]
  IN same[x, y]

\* list.remove(x): the first entry that equals x goes; a ValueError if none does
Removed(t, d, x) ==
  LET at == {i \in DOMAIN t.node[d].contents : Same(t, t.node[d].contents[i], x)}
  IN [tree |-> IF at = {} THEN t
               ELSE [t EXCEPT !.node[d].contents =
                       RemoveAt(@, CHOOSE i \in at : \A j \in at : i <= j)],
      ok |-> at # {}]

WithEntry(t, d, x) == [t EXCEPT !.node[d].contents = Append(@, x)]

FirstNamed(t, d, name) ==
  LET at == {i \in DOMAIN t.node[d].contents : t.node[t.node[d].contents[i]].name = name}
  IN IF at = {} THEN << >>
     ELSE << t.node[d].contents[CHOOSE i \in at : \A j \in at : i <= j] >>

\* A fresh entry in the list of d
NewEntry(t, d, name, type) ==
  LET new == Len(t.node) + 1
  IN [WithEntry([t EXCEPT !.node = Append(@, Entry(name, type, << >>, NoFile, new))], d, new)
        EXCEPT !.newcount = @ + 1]

\* What an operation on the tree gives: the new tree and the exception, or "".
Done(t) == [tree |-> t, err |-> ""]
Fails(t, e) == [tree |-> t, err |-> e]
Lookup(d) == IF d = NotFound THEN "FileNotFound" ELSE "TypeError"

-----------------------------------------------------------------------------
(* Operations *)

\* mkfile: over the limit nothing happens; the first entry of that name goes.
mkfile(t, path) ==
  LET d == get_path(t, dirname(path))
  IN IF t.newcount > MaxNew THEN Done(t)
     ELSE IF d <= Missing THEN Fails(t, Lookup(d))
     ELSE LET old == FirstNamed(t, d, basename(path))
              u == IF old = << >> THEN t ELSE Removed(t, d, Head(old)).tree
          IN Done(NewEntry(u, d, basename(path), "file"))

\* mkdir: no look at what is there already.
mkdir(t, path) ==
  LET d == get_path(t, dirname(path))
  IN IF t.newcount > MaxNew \/ path = << >> THEN Fails(t, "OSError")
     ELSE IF d <= Missing THEN Fails(t, Lookup(d))
     ELSE Done(NewEntry(t, d, basename(path), "dir"))

\* update_realfile: only an entry without a real file takes one that is on disk.
\* f is what getfile gave: False has no A_REALFILE.
update_realfile(t, f, real, onDisk) ==
  IF f = Missing THEN Fails(t, "TypeError")
  ELSE Done(IF t.node[f].real = NoFile /\ real \in onDisk
            THEN [t EXCEPT !.node[f].real = real] ELSE t)

\* mkdir2, rmdir, remove and rename: what the SFTP server calls
mkdir2(t, path) ==
  IF exists(t, path) THEN Fails(t, "OSError") ELSE mkdir(t, path)

rmdir(t, path) ==
  LET f == getfile(t, path, FALSE)
      d == get_path(t, path)
      p == get_path(t, dirname(path))
  IN IF f = Missing \/ (f # Missing /\ t.node[f].type # "dir") THEN Fails(t, "OSError")
     ELSE IF d <= Missing THEN Fails(t, Lookup(d))
     ELSE IF t.node[d].contents # << >> THEN Fails(t, "OSError")
     ELSE IF p <= Missing THEN Fails(t, Lookup(p))
     ELSE LET old == FirstNamed(t, p, basename(path))
          IN Done(IF old = << >> THEN t ELSE Removed(t, p, Head(old)).tree)

remove(t, path) ==
  LET f == getfile(t, path, FALSE)
      d == get_path(t, dirname(path))
  IN IF f = Missing THEN Fails(t, "OSError")
     ELSE IF d <= Missing THEN Fails(t, Lookup(d))
     ELSE LET r == Removed(t, d, f)
          IN IF r.ok THEN Done(r.tree) ELSE Fails(t, "ValueError")

\* rename: the entry is out of its list before the new one is looked for.
rename(t, oldpath, newpath) ==
  LET old == getfile(t, oldpath, TRUE)
      from == get_path(t, dirname(oldpath))
  IN IF old = Missing \/ exists(t, newpath) THEN Fails(t, "OSError")
     ELSE IF from <= Missing THEN Fails(t, Lookup(from))
     ELSE LET r == Removed(t, from, old)
              named == [r.tree EXCEPT !.node[old].name = basename(newpath)]
              to == get_path(named, dirname(newpath))
          IN IF ~r.ok THEN Fails(t, "ValueError")
             ELSE IF to <= Missing THEN Fails(named, Lookup(to))
             ELSE Done(WithEntry(named, to, old))

-----------------------------------------------------------------------------
(* The file commands of the shell: c is the parsed command line *)

\* rm [-r] path
file_rm(t, cwd, c) ==
  LET path == resolve_path(c.src, cwd)
      d == get_path(t, dirname(path))
      gone == {i \in DOMAIN t.node[d].contents :
                 /\ t.node[t.node[d].contents[i]].name = basename(path)
                 /\ t.node[t.node[d].contents[i]].type = "dir" => c.recursive}
      kept == SelectSeq([i \in DOMAIN t.node[d].contents |-> i], LAMBDA i : i \notin gone)
  IN IF d = NoContents THEN Fails(t, "TypeError")
     ELSE IF d = NotFound THEN Done(t)
     ELSE Done([t EXCEPT !.node[d].contents = [k \in DOMAIN kept |-> @[kept[k]]]])

\* copy.deepcopy of entry x: the tree with the copy, and the copy.  What is in
\* several lists is copied once.  (The entries x does not lead to are copied too,
\* but nothing leads to the copies.)
Copied(t, x) ==
  LET new(y) == Len(t.node) + y
      copy == [i \in DOMAIN t.node |->
                 [t.node[i] EXCEPT !.contents = [k \in DOMAIN @ |-> new(@[k])]]]
  IN [tree |-> [t EXCEPT !.node = @ \o copy], top |-> new(x)]

\* cp [-r] src dst
file_cp(t, cwd, c) ==
  LET src == resolve_path(c.src, cwd)
      dst == resolve_path(c.dst, cwd)
      into == isdir(t, dst)
      d == get_path(t, IF into THEN dst ELSE dirname(dst))
      name == IF into THEN basename(c.src.pieces) ELSE basename(c.dst.pieces)
      copy == Copied(t, getfile(t, src, TRUE))
      x == copy.top
      old == FirstNamed(copy.tree, d, name)
      room == IF old = << >> THEN copy.tree ELSE Removed(copy.tree, d, Head(old)).tree
  IN IF \/ ~into /\ ~exists(t, dirname(dst))
        \/ ~exists(t, src)
        \/ ~c.recursive /\ isdir(t, src) THEN Done(t)
     ELSE IF d <= Missing THEN Fails(t, Lookup(d))
     ELSE Done(WithEntry([room EXCEPT !.node[x].name = name], d, x))

\* mv src dst: the list of the target is compared with a path, which it never
\* is, so the entry is always appended and then removed from where it was.
file_mv(t, cwd, c) ==
  LET src == resolve_path(c.src, cwd)
      dst == resolve_path(c.dst, cwd)
      into == isdir(t, dst)
      d == get_path(t, IF into THEN dst ELSE dirname(dst))
      s == getfile(t, src, TRUE)
      moved == WithEntry([t EXCEPT !.node[s].name =
                            IF into THEN basename(c.src.pieces) ELSE basename(c.dst.pieces)], d, s)
      from == get_path(moved, dirname(src))
  IN IF (~into /\ ~exists(t, dirname(dst))) \/ s = Missing THEN Done(t)
     ELSE IF d <= Missing THEN Fails(t, Lookup(d))
     ELSE IF from <= Missing THEN Fails(moved, Lookup(from))
     ELSE LET r == Removed(moved, from, s)
          IN IF r.ok THEN Done(r.tree) ELSE Fails(moved, "ValueError")

\* mkdir path: FileNotFound is caught
file_mkdir(t, cwd, c) ==
  LET path == resolve_path(c.src, cwd)
      r == mkdir(t, path)
  IN IF exists(t, path) \/ r.err = "FileNotFound" THEN Done(t) ELSE r

\* Mutant: a directory that is not empty goes too.
Bug_RmdirFull(t, cwd, c) ==
  LET path == resolve_path(c.src, cwd)
      d == get_path(t, dirname(path))
      old == FirstNamed(t, d, basename(c.src.pieces))
  IN IF d <= Missing \/ (d > Missing /\ old = << >>) THEN Done(t)
     ELSE IF t.node[Head(old)].type # "dir" THEN Done(t)
     ELSE Done(Removed(t, d, Head(old)).tree)

\* rmdir path: the name removed is that of the argument, not of its path
file_rmdir(t, cwd, c) ==
  LET path == resolve_path(c.src, cwd)
      self == get_path(t, path)
      d == get_path(t, dirname(path))
      old == FirstNamed(t, d, basename(c.src.pieces))
  IN IF self = NoContents THEN Fails(t, "TypeError")
     ELSE IF self = NotFound \/ t.node[self].contents # << >> THEN Done(t)
     ELSE IF d = NoContents THEN Fails(t, "TypeError")
     ELSE IF d = NotFound \/ old = << >> \/ t.node[Head(old)].type # "dir" THEN Done(t)
     ELSE Done(Removed(t, d, Head(old)).tree)

\* touch path: a file that is there already is left alone
file_touch(t, cwd, c) ==
  LET path == resolve_path(c.src, cwd)
  IN IF ~exists(t, dirname(path)) \/ exists(t, path) THEN Done(t) ELSE mkfile(t, path)

\* nohup: a file "nohup.out" of the current directory, unless it is there
file_nohup(t, cwd, c) ==
  LET path == Append(cwd, "nohup.out")
  IN IF exists(t, path) THEN Done(t) ELSE mkfile(t, path)

\* tar x: of the members of the archive, a file with a real file behind it.  A
\* directory is made without a look; the directories above a file are made with
\* mkfullpath, whose first prefix is the empty string: exists does not know it
\* and mkdir refuses it.
mkfullpath(t) == Fails(t, "OSError")

file_tar(t, cwd, c) ==
  LET f == getfile(t, resolve_path(c.src, cwd), TRUE)
      dest == resolve_path(c.dst, cwd)
  IN IF f = Missing \/ (f # Missing /\ t.node[f].real = NoFile) THEN Done(t)
     ELSE IF c.recursive THEN mkdir(t, dest)
     ELSE mkfullpath(t)

\* cd path: the new current directory
file_cd(t, cwd, c) ==
  LET path == resolve_path(c.src, cwd)
      f == getfile(t, path, TRUE)
  IN IF f # Missing /\ t.node[f].type = "dir" THEN path ELSE cwd

\* What one of them does, by its name
FileCommand(name, t, cwd, c) ==
  CASE name = "rm" -> file_rm(t, cwd, c)
    [] name = "cp" -> file_cp(t, cwd, c)
    [] name = "mv" -> file_mv(t, cwd, c)
    [] name = "mkdir" -> file_mkdir(t, cwd, c)
    [] name = "rmdir" -> file_rmdir(t, cwd, c)
    [] name = "touch" -> file_touch(t, cwd, c)
    [] name = "nohup" -> file_nohup(t, cwd, c)
    [] name = "tar" -> file_tar(t, cwd, c)
    [] OTHER -> Done(t)
=============================================================================
