----------------------------- MODULE CowrieSFTP -----------------------------
(***************************************************************************)
(* The SFTP side of a cowrie session: shell/filetransfer.py and the half   *)
(* of shell/fs.py it calls, as functions.  An upload is written to a file  *)
(* of the host whose name is made of the second and the path, and filed    *)
(* under the hash of what it holds when its handle is closed.              *)
(*                                                                         *)
(* s is what one SFTP channel keeps: [tree, handles, leaked].  host is the *)
(* download directory, shared by all sessions: names -> file, and what is  *)
(* in each file (a descriptor stays with its file when the name changes).  *)
(* leaked: the names whose file an open had opened when it raised.         *)
(***************************************************************************)
EXTENDS CowrieFS

CONSTANT UploadLimit   \* download_limit_size in writes, 0 for none

ASSUME UploadAssumption == UploadLimit \in Nat

\* A channel before its server is made
NoSftp == [tree |-> << >>, handles |-> << >>, leaked |-> {}]

NoHost == [names |-> << >>, data |-> << >>]

Sha(content) == << "sha", content >>
HostFile(path, second) == << "sftp", second, path >>

\* A handle: fd is the file behind it (0 for None, as for reading).
Handle(path, name, fd) ==
  [path |-> path, name |-> name, fd |-> fd, count |-> 0, wrote |-> "", state |-> "open"]

\* What a call gives
Gives(s, host, err) == [s |-> s, host |-> host, err |-> err, uploaded |-> FALSE]

Contents(host, name) == host.data[host.names[name]]

\* os.open of the file in the download directory
os_open(host, name, flags) ==
  LET new == Len(host.data) + 1
      there == name \in DOMAIN host.names
  IN CASE there /\ {"creat", "excl"} \subseteq flags -> [host |-> host, fd |-> 0]
       [] there /\ ~({"creat", "excl"} \subseteq flags) ->
            [host |-> IF "trunc" \in flags THEN [host EXCEPT !.data[host.names[name]] = ""] ELSE host,
             fd |-> host.names[name]]
       [] ~there /\ "creat" \in flags ->
            [host |-> [names |-> [n \in DOMAIN host.names \union {name} |->
                                    IF n = name THEN new ELSE host.names[n]],
                       data |-> Append(host.data, "")],
             fd |-> new]
       [] OTHER -> [host |-> host, fd |-> 0]

\* fs.open for writing: the entry is made before the host's file is opened.
open(s, host, path, flags, second) ==
  LET name == HostFile(path, second)
      made == mkfile(s.tree, path)
      opened == os_open(host, name, flags)
      linked == update_realfile(made.tree, getfile(made.tree, path, TRUE), name, DOMAIN opened.host.names)
  IN IF made.err # "" THEN Gives(s, host, made.err)
     ELSE IF opened.fd = 0 THEN Gives([s EXCEPT !.tree = made.tree], host, "OSError")
     ELSE IF linked.err # ""
     THEN Gives([s EXCEPT !.tree = made.tree, !.leaked = @ \union {name}], opened.host, linked.err)
     ELSE Gives([s EXCEPT !.tree = linked.tree, !.handles = Append(@, Handle(path, name, opened.fd))],
                opened.host, "")

\* openFile: for reading, fs.open gives None and the contents are fetched at once.
openFile(s, host, path, flags, second) ==
  IF "write" \in flags THEN open(s, host, path, flags, second)
  ELSE LET f == getfile(s.tree, path, TRUE)
       IN IF f = Missing THEN Gives(s, host, "FileNotFound")
          ELSE IF s.tree.node[f].type = "dir" THEN Gives(s, host, "OSError")
          ELSE Gives([s EXCEPT !.handles = Append(@, Handle(path, NoFile, 0))], host, "")

\* writeChunk at the start of the file: it counts before it can fail.
writeChunk(s, host, h, data) ==
  LET u == [s EXCEPT !.handles[h].count = @ + 1]
  IN IF UploadLimit # 0 /\ u.handles[h].count > UploadLimit THEN Gives(u, host, "SFTPError")
     ELSE IF s.handles[h].fd = 0 THEN Gives(u, host, "TypeError")
     ELSE Gives([u EXCEPT !.handles[h].wrote = data],
                [host EXCEPT !.data[s.handles[h].fd] = data], "")

\* Mutant: what was uploaded goes even if its hash is not there yet.
Bug_Removed(host, name) ==
  [host EXCEPT !.names = [n \in DOMAIN @ \ {name} |-> @[n]]]

\* The file is moved to its hash, or goes when that is there already.
Moved(host, name) ==
  LET sha == Sha(Contents(host, name))
      file == IF sha \in DOMAIN host.names THEN host.names[sha] ELSE host.names[name]
  IN [host EXCEPT !.names = [n \in (DOMAIN @ \ {name}) \union {sha} |->
                               IF n = sha THEN file ELSE @[n]]]

\* close: the name may be gone with another handle of that name, the entry with
\* a remove; then nothing is logged and the descriptor stays open.
close(s, host, h) ==
  LET handle == s.handles[h]
      ends(state) == [s EXCEPT !.handles[h].state = state]
      moved == Moved(host, handle.name)
      linked == update_realfile(s.tree, getfile(s.tree, handle.path, TRUE),
                                Sha(Contents(host, handle.name)), DOMAIN moved.names)
  IN IF handle.fd = 0 THEN Gives(ends("closed"), host, "")
     ELSE IF handle.name \notin DOMAIN host.names THEN Gives(ends("leaked"), host, "IOError")
     ELSE IF linked.err # "" THEN Gives(ends("leaked"), moved, linked.err)
     ELSE [Gives([ends("closed") EXCEPT !.tree = linked.tree], moved, "") EXCEPT !.uploaded = TRUE]

\* FileTransferServer.connectionLost closes what is open, up to the first that
\* raises: the set of its one outcome.
CloseNext(acc, h) ==
  IF acc.err # "" \/ acc.s.handles[h].state # "open" THEN acc
  ELSE LET r == close(acc.s, acc.host, h)
       IN [s |-> r.s, host |-> r.host, err |-> r.err,
           uploads |-> acc.uploads + (IF r.uploaded THEN 1 ELSE 0)]

CloseAll(s, host) ==
  LET upto[h \in 0 .. Len(s.handles)] ==
        IF h = 0 THEN {[s |-> s, host |-> host, err |-> "", uploads |-> 0]}
        ELSE {CloseNext(acc, h) : acc \in upto[h - 1]}
  IN upto[Len(s.handles)]

\* The calls on names: a call that raises may have changed the tree before.
OnNames(s, host, m) ==
  LET r == CASE m.do = "remove" -> remove(s.tree, m.path)
             [] m.do = "rename" -> rename(s.tree, m.path, m.to)
             [] m.do = "mkdir"  -> mkdir2(s.tree, m.path)
             [] m.do = "rmdir"  -> rmdir(s.tree, m.path)
  IN Gives([s EXCEPT !.tree = r.tree], host, r.err)

\* One request of the client.  A handle it does not have is refused.
Request(s, host, m, second) ==
  CASE m.do = "open" -> openFile(s, host, m.path, m.flags, second)
    [] m.do \in {"write", "close"} ->
         IF m.h \notin DOMAIN s.handles \/ (m.h \in DOMAIN s.handles /\ s.handles[m.h].state # "open")
         THEN Gives(s, host, "KeyError")
         ELSE IF m.do = "write" THEN writeChunk(s, host, m.h, m.data) ELSE close(s, host, m.h)
    [] OTHER -> OnNames(s, host, m)
=============================================================================
