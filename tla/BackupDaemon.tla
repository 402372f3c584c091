---------------------------- MODULE BackupDaemon ----------------------------
(***************************************************************************)
(* src/task_6/tiazhelkov.ve: a daemon that watches the working directory   *)
(* of a process with inotify and copies every file that is created or      *)
(* modified into a directory of its own, dump_dir/<name>.                  *)
(*                                                                         *)
(* The users of the directory and the kernel are external.  An event       *)
(* carries the name of a file only, and the daemon looks for the file      *)
(* again with find when it gets to the event; find and cp run as commands  *)
(* of their own, between which the file may change or go.  A content is    *)
(* a number that grows with the changes, 2 for a file that is there at     *)
(* the start.                                                              *)
(*                                                                         *)
(* dump_dir is outside the tree, all pending events fit into one read(),   *)
(* files are not renamed and directories stay.  CHANGE_CFG is never set:   *)
(* no statement installs sig_handler.  What diff writes is read by nobody  *)
(* and left out.                                                           *)
(***************************************************************************)
EXTENDS Integers, Sequences, FiniteSets

CONSTANTS
  Dirs, Root,   \* the directories there may be, and the watched one
  Parent,       \* Parent[d]: the directory that d is in
  Paths,        \* the files there may be: <<directory, name>>
  MaxChanges    \* bound: changes the users make

Names == {p[2] : p \in Paths}

DirPath(d) == <<Parent[d], d>>
DirPaths   == {DirPath(d) : d \in Dirs \ {Root}}
FindFile   == <<"dump_dir", "find_file">>   \* the output of find

ASSUME BackupAssumption ==
  /\ Root \in Dirs
  /\ Parent \in [Dirs \ {Root} -> Dirs]
  /\ Paths \subseteq Dirs \X Names
  /\ Names \cap Dirs = {}
  /\ "dump_dir" \notin Dirs
  /\ MaxChanges \in Nat

VARIABLES
  dirs,      \* the directories that exist
  ver,       \* ver[p]: the content of file p, 0 if there is no such file
  changes,   \* how many changes there have been
  watched,   \* the directories with an inotify watch
  queue,     \* the inotify events nobody has read
  reported,  \* the files and directories there has been an event for
  dpc,       \* where the daemon is
  todo,      \* the directories add_watcher_recursive still has to open
  dir,       \* the one it is at
  batch,     \* the events of the last read() that are left, the current one first
  filepath,  \* what find has found
  dump       \* dump[n]: the entry n of dump_dir and the content of the copy

userVars   == <<dirs, ver, changes>>
kernelVars == <<queue, reported>>
scanVars   == <<watched, todo, dir>>
vars == <<userVars, kernelVars, scanVars, dpc, batch, filepath, dump>>

Event == [kind : {"create", "modify", "delete"}, in : Dirs, name : Names \cup Dirs]
Entry == [kind : {"none", "dir", "file"}, copy : Nat]

TypeOK ==
  /\ dirs \subseteq Dirs
  /\ ver \in [Paths -> Nat]
  /\ changes \in Nat
  /\ watched \subseteq Dirs
  /\ queue \in Seq(Event)
  /\ reported \subseteq Paths \cup DirPaths
  /\ dpc \in {"start", "open", "watch", "list", "read", "next", "find", "mkdir", "cp", "failed"}
  /\ todo \subseteq Dirs
  /\ dir \in Dirs
  /\ batch \in Seq(Event)
  /\ filepath \in Paths \cup DirPaths \cup {FindFile}
  /\ dump \in [Names \cup Dirs -> Entry]

(* Some directories and files are there before the daemon, and dump_dir may   *)
(* hold copies of an earlier run, inside directories or plain.                *)
Init ==
  /\ dirs \in {D \in SUBSET Dirs : Root \in D /\ \A d \in D \ {Root} : Parent[d] \in D}
  /\ \E P \in SUBSET {p \in Paths : p[1] \in dirs} :
       ver = [p \in Paths |-> IF p \in P THEN 2 ELSE 0]
  /\ changes = 0
  /\ watched = {} /\ queue = <<>> /\ reported = {}
  /\ dpc = "start" /\ todo = {Root} /\ dir = Root
  /\ batch = <<>> /\ filepath = FindFile
  /\ \E old \in [Names -> {[kind |-> "none", copy |-> 0],
                            [kind |-> "dir", copy |-> 1], [kind |-> "file", copy |-> 1]}] :
       dump = [n \in Names \cup Dirs |->
                 IF n \in Names THEN old[n] ELSE [kind |-> "none", copy |-> 0]]

---------------------------------------------------------------------------
(* The users, and the events the kernel makes of what they do (external).     *)

(* A watched directory reports; an event like the last unread one is dropped. *)
Report(k, p) ==
  IF p[1] \in watched
  THEN LET e == [kind |-> k, in |-> p[1], name |-> p[2]]
       IN  /\ queue' = IF queue # <<>> /\ queue[Len(queue)] = e THEN queue ELSE Append(queue, e)
           /\ reported' = reported \cup {p}
  ELSE UNCHANGED kernelVars

Change ==
  /\ changes < MaxChanges /\ changes' = changes + 1
  /\ UNCHANGED <<scanVars, dpc, batch, filepath, dump>>

MakeDir(d) ==
  /\ Change
  /\ d \notin dirs /\ d # Root /\ Parent[d] \in dirs
  /\ dirs' = dirs \cup {d}
  /\ Report("create", DirPath(d))
  /\ UNCHANGED ver

Write(p) ==
  /\ Change
  /\ p[1] \in dirs
  /\ ver' = [ver EXCEPT ![p] = changes + 3]
  /\ Report(IF ver[p] = 0 THEN "create" ELSE "modify", p)
  /\ UNCHANGED dirs

Delete(p) ==
  /\ Change
  /\ ver[p] # 0
  /\ ver' = [ver EXCEPT ![p] = 0]
  /\ Report("delete", p)
  /\ UNCHANGED dirs

UserStep == (\E d \in Dirs : MakeDir(d)) \/ (\E p \in Paths : Write(p) \/ Delete(p))

---------------------------------------------------------------------------
(* add_watcher_recursive                                                      *)

(* The process may be gone, or its working directory unreadable. *)
FindProcess ==
  /\ dpc = "start"
  /\ dpc' \in {"open", "failed"}
  /\ UNCHANGED <<userVars, kernelVars, scanVars, batch, filepath, dump>>

OpenDir ==
  /\ dpc = "open"
  /\ \E d \in todo : dir' = d /\ todo' = todo \ {d}
  /\ dpc' = "watch"
  /\ UNCHANGED <<userVars, kernelVars, watched, batch, filepath, dump>>

AddWatch ==
  /\ dpc = "watch"
  /\ watched' = watched \cup {dir}
  /\ dpc' = "list"
  /\ UNCHANGED <<userVars, kernelVars, todo, dir, batch, filepath, dump>>

(* A mutant of ListDir: directories are not descended into.                   *)
ListDir_Flat ==
  /\ dpc = "list"
  /\ todo' = todo
  /\ dpc' = IF todo' = {} THEN "read" ELSE "open"
  /\ UNCHANGED <<userVars, kernelVars, watched, dir, batch, filepath, dump>>

(* readdir and stat, which see the directories that are there by now, and a   *)
(* call for each; monitor_dir after the last one.                             *)
ListDir ==
  /\ dpc = "list"
  /\ todo' = todo \cup {d \in dirs \ {Root} : Parent[d] = dir}
  /\ dpc' = IF todo' = {} THEN "read" ELSE "open"
  /\ UNCHANGED <<userVars, kernelVars, watched, dir, batch, filepath, dump>>

---------------------------------------------------------------------------
(* monitor_dir                                                                *)

Read ==
  /\ dpc = "read" /\ queue # <<>>
  /\ batch' = queue /\ queue' = <<>>
  /\ dpc' = "next"
  /\ UNCHANGED <<userVars, reported, scanVars, filepath, dump>>

(* Two kinds of events have a handler, both of which begin with find. *)
NextEvent ==
  /\ dpc = "next"
  /\ \/ batch = <<>> /\ dpc' = "read" /\ UNCHANGED batch
     \/ batch # <<>> /\ Head(batch).kind = "delete" /\ dpc' = dpc /\ batch' = Tail(batch)
     \/ batch # <<>> /\ Head(batch).kind # "delete" /\ dpc' = "find" /\ UNCHANGED batch
  /\ UNCHANGED <<userVars, kernelVars, scanVars, filepath, dump>>

(* What find -name prints, in the order of the directories. *)
Matches(n) == {p \in Paths : p[2] = n /\ ver[p] # 0} \cup {DirPath(d) : d \in (dirs \ {Root}) \cap {n}}

(* A mutant of Find: a new file is looked at only, and saved when it changes.  *)
Find_NoCreate ==
  /\ dpc = "find"
  /\ IF Head(batch).kind = "create"
     THEN /\ dpc' = "next" /\ batch' = Tail(batch) /\ UNCHANGED filepath
     ELSE /\ filepath' \in IF Matches(Head(batch).name) = {}
                           THEN {FindFile} ELSE Matches(Head(batch).name)
          /\ dpc' = "cp" /\ UNCHANGED batch
  /\ UNCHANGED <<userVars, kernelVars, scanVars, dump>>

(* fopen, find, fscanf: the first match.  Without a match fscanf fails and    *)
(* filepath stays the name of find's own output, which is empty.              *)
Find ==
  /\ dpc = "find"
  /\ LET m == Matches(Head(batch).name)
     IN  filepath' \in IF m = {} THEN {FindFile} ELSE m
  /\ dpc' = IF Head(batch).kind = "create" THEN "mkdir" ELSE "cp"
  /\ UNCHANGED <<userVars, kernelVars, scanVars, batch, dump>>

(* mkdir fails if there is an entry of that name. *)
Mkdir ==
  /\ dpc = "mkdir"
  /\ LET n == Head(batch).name
     IN  dump' = IF dump[n].kind = "none" THEN [dump EXCEPT ![n].kind = "dir"] ELSE dump
  /\ dpc' = "cp"
  /\ UNCHANGED <<userVars, kernelVars, scanVars, batch, filepath>>

(* What cp filepath dump_dir/n makes of entry n: a copy inside a directory,   *)
(* and otherwise a plain file.  The empty find_file gets its own name in a    *)
(* directory; a file that is gone and a directory are not copied.             *)
Copied(n) ==
  IF filepath \in Paths /\ ver[filepath] # 0
  THEN [kind |-> IF dump[n].kind = "dir" THEN "dir" ELSE "file", copy |-> ver[filepath]]
  ELSE IF filepath = FindFile /\ dump[n].kind # "dir"
       THEN [kind |-> "file", copy |-> 0]
       ELSE dump[n]

(* A mutant of Cp: the copy is given the name of the event.                   *)
Cp_ByName ==
  /\ dpc = "cp"
  /\ LET n == Head(batch).name
     IN  dump' = IF filepath = FindFile THEN [dump EXCEPT ![n].copy = 0]
                                           ELSE [dump EXCEPT ![n] = Copied(n)]
  /\ batch' = Tail(batch)
  /\ dpc' = "next"
  /\ UNCHANGED <<userVars, kernelVars, scanVars, filepath>>

Cp ==
  /\ dpc = "cp"
  /\ LET n == Head(batch).name IN dump' = [dump EXCEPT ![n] = Copied(n)]
  /\ batch' = Tail(batch)
  /\ dpc' = "next"
  /\ UNCHANGED <<userVars, kernelVars, scanVars, filepath>>

DaemonStep ==
  \/ FindProcess \/ OpenDir \/ AddWatch \/ ListDir
  \/ Read \/ NextEvent \/ Find \/ Mkdir \/ Cp

Next == UserStep \/ DaemonStep

Spec == Init /\ [][Next]_vars

---------------------------------------------------------------------------
(* The file that its name stands for. *)
Unique(p) == \A q \in Paths : q[2] = p[2] => q = p
Saved(p)  == dump[p[2]].kind # "none" /\ dump[p[2]].copy = ver[p]

(* Although events carry names, are merged by the kernel and handled when the *)
(* file has changed again or is gone: when the daemon has nothing to read,    *)
(* every file it has had an event for is saved as it is.                      *)
QuietMeansSaved ==
  dpc = "read" /\ queue = <<>> =>
    \A p \in reported \cap Paths : Unique(p) /\ ver[p] # 0 => Saved(p)

(* A directory that is made while the tree is walked is not overlooked: it is *)
(* found by readdir or reported, since the watch comes before the listing.    *)
NothingUnseen ==
  dpc \in {"read", "next", "find", "mkdir", "cp"} =>
    \A d \in dirs \ {Root} : Parent[d] \in watched => d \in watched \/ DirPath(d) \in reported

(* A copy inside its directory survives its file: an event that is handled    *)
(* when the file is gone leaves the last copy alone, and no event, however    *)
(* old, brings an older content back unless two files share the name.         *)
CopyKept(p) ==
  LET now  == dump[p[2]]
      then == dump'[p[2]]
  IN  now.kind = "dir" /\ now.copy # 0 =>
        then.kind = "dir" /\ then.copy # 0 /\ (Unique(p) => then.copy >= now.copy)

CopiesKept == [][\A p \in Paths : CopyKept(p)]_vars

(* The invariant behind QuietMeansSaved: a file that is not saved as it is    *)
(* has an event that is still to be handled, or is being copied.              *)
Due(p, events) ==
  \E k \in 1 .. Len(events) : events[k].name = p[2] /\ events[k].kind # "delete"

PendingInv ==
  \A p \in reported \cap Paths : Unique(p) /\ ver[p] # 0 =>
    \/ Saved(p)
    \/ Due(p, queue)
    \/ batch # <<>> /\ Due(p, Tail(batch))
    \/ dpc \in {"next", "find"} /\ Due(p, batch)
    \/ dpc \in {"mkdir", "cp"} /\ Head(batch).name = p[2] /\ filepath = p

BatchInv ==
  /\ dpc \in {"find", "mkdir", "cp"} => batch # <<>> /\ Head(batch).kind # "delete"
  /\ dpc \notin {"next", "find", "mkdir", "cp"} => batch = <<>>

IInv == TypeOK /\ BatchInv /\ PendingInv
=============================================================================
