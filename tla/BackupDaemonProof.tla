------------------------- MODULE BackupDaemonProof -------------------------
(***************************************************************************)
(* What holds of the backup daemon for every tree of directories, every    *)
(* set of files and any number of changes: what it has heard of is saved   *)
(* once it is quiet, no new directory is overlooked, and no copy is        *)
(* replaced by an older one.                                               *)
(***************************************************************************)
EXTENDS BackupDaemon, TLAPS

(* Only a watched directory reports. *)
ReportedInv == \A p \in reported \cap Paths : p[1] \in watched

(* What find has found has the name of the event.  A file of that name that   *)
(* it has not found is a newer one, with an event of its own.                 *)
FoundInv ==
  dpc \in {"mkdir", "cp"} =>
    /\ filepath \in Paths => filepath[2] = Head(batch).name
    /\ \A p \in reported \cap Paths :
         Unique(p) /\ ver[p] # 0 /\ p[2] = Head(batch).name => filepath = p \/ Due(p, queue)

(* Every directory in a watched one is watched, reported or still to be       *)
(* listed or opened.                                                          *)
ScanInv ==
  /\ dpc \in {"read", "next", "find", "mkdir", "cp"} => todo = {}
  /\ \A d \in dirs \ {Root} : Parent[d] \in watched =>
       \/ d \in watched \/ DirPath(d) \in reported \/ d \in todo
       \/ dpc = "watch" /\ dir = d
       \/ dpc = "list" /\ dir = Parent[d]

(* Contents grow with the changes, and a copy is not newer than its file. *)
AgeInv ==
  /\ \A p \in Paths : ver[p] < changes + 3
  /\ \A n \in Names \cup Dirs : dump[n].copy < changes + 3
  /\ \A p \in Paths : Unique(p) /\ ver[p] # 0 => dump[p[2]].copy <= ver[p]

Inv == IInv /\ ReportedInv /\ FoundInv /\ ScanInv /\ AgeInv

(* A file and a directory have two names, and neither is the output of find. *)
LEMMA PathFacts ==
  /\ \A p \in Paths : p = <<p[1], p[2]>> /\ p[1] \in Dirs /\ p[2] \in Names /\ p[2] \notin Dirs
  /\ \A p \in Paths, d \in Dirs : p # DirPath(d)
  /\ FindFile \notin Paths
  /\ \A d \in Dirs \ {Root} : DirPath(d) \in DirPaths
  /\ \A d \in Dirs \ {Root} : Parent[d] \in Dirs
<1>1. \A p \in Paths : p = <<p[1], p[2]>> /\ p[1] \in Dirs /\ p[2] \in Names /\ p[2] \notin Dirs
  BY BackupAssumption DEF Names
<1>2. \A p \in Paths, d \in Dirs : p # DirPath(d)
  BY <1>1 DEF DirPath
<1>3. FindFile \notin Paths
  BY <1>1, BackupAssumption DEF FindFile
<1> QED
  BY <1>1, <1>2, <1>3, BackupAssumption DEF DirPaths

LEMMA EventFacts ==
  ASSUME NEW b \in Seq(Event), b # <<>>
  PROVE  /\ Head(b) \in Event /\ Head(b).name \in Names \cup Dirs
         /\ Tail(b) \in Seq(Event)
<1>1. Head(b) \in Event /\ Tail(b) \in Seq(Event)
  OBVIOUS
<1> QED BY <1>1 DEF Event

(* Contents are numbers. *)
LEMMA Contents ==
  ASSUME TypeOK
  PROVE  /\ changes \in Nat /\ \A p \in Paths : ver[p] \in Nat
         /\ \A n \in Names \cup Dirs : dump[n] \in Entry /\ dump[n].copy \in Nat
BY DEF TypeOK, Entry

LEMMA InitInv == Init => Inv
<1> SUFFICES ASSUME Init
             PROVE  Inv
  OBVIOUS
<1> USE BackupAssumption, PathFacts
<1>1. TypeOK
  <2>1. dump \in [Names \cup Dirs -> Entry]
    BY DEF Init, Entry
  <2>2. ver \in [Paths -> Nat]
    BY DEF Init
  <2>3. <<>> \in Seq(Event)
    OBVIOUS
  <2> QED BY <2>1, <2>2, <2>3 DEF Init, TypeOK
<1>2. BatchInv /\ PendingInv /\ ReportedInv /\ FoundInv /\ ScanInv
  BY DEF Init, BatchInv, PendingInv, ReportedInv, FoundInv, ScanInv
<1>3. AgeInv
  BY DEF Init, AgeInv
<1> QED BY <1>1, <1>2, <1>3 DEF Inv, IInv

(* What an event changes: nothing that is due is lost, and what is reported   *)
(* is in a watched directory and, unless deleted, due.                        *)
LEMMA ReportFacts ==
  ASSUME TypeOK, NEW k \in {"create", "modify", "delete"},
         NEW p \in Paths \cup DirPaths, Report(k, p)
  PROVE  /\ queue' \in Seq(Event)
         /\ reported \subseteq reported' /\ reported' \subseteq reported \cup {p}
         /\ \A q \in Paths : Due(q, queue) => Due(q, queue')
         /\ p \in reported' => p \in reported \/ p[1] \in watched
         /\ p[1] \in watched => p \in reported'
         /\ p[1] \in watched /\ k # "delete" => Due(p, queue')
<1> USE PathFacts, BackupAssumption
<1>1. CASE p[1] \notin watched
  BY <1>1 DEF Report, TypeOK, kernelVars
<1>2. CASE p[1] \in watched
  <2> DEFINE e == [kind |-> k, in |-> p[1], name |-> p[2]]
  <2>1. p[1] \in Dirs /\ p[2] \in Names \cup Dirs
    BY DEF DirPaths, DirPath
  <2>2. e \in Event
    BY <2>1 DEF Event
  <2>3. queue \in Seq(Event) /\ Len(queue) \in Nat
    BY DEF TypeOK
  <2>4. /\ queue' = IF queue # <<>> /\ queue[Len(queue)] = e THEN queue ELSE Append(queue, e)
        /\ reported' = reported \cup {p}
    BY <1>2 DEF Report
  <2>5. e.kind = k /\ e.name = p[2]
    OBVIOUS
  <2> HIDE DEF e
  <2>6. queue' \in Seq(Event) /\ Len(queue') \in Nat
    BY <2>2, <2>3, <2>4
  <2>7. /\ Len(queue) <= Len(queue')
        /\ \A j \in 1 .. Len(queue) : queue'[j] = queue[j]
        /\ Len(queue') \in 1 .. Len(queue') /\ queue'[Len(queue')] = e
    <3>1. CASE queue # <<>> /\ queue[Len(queue)] = e
      BY <3>1, <2>3, <2>4
    <3>2. CASE ~(queue # <<>> /\ queue[Len(queue)] = e)
      BY <3>2, <2>2, <2>3, <2>4
    <3> QED BY <3>1, <3>2
  <2>8. \A q \in Paths : Due(q, queue) => Due(q, queue')
    BY <2>3, <2>6, <2>7 DEF Due
  <2>9. k # "delete" => Due(p, queue')
    BY <2>5, <2>7 DEF Due
  <2> QED BY <1>2, <2>4, <2>6, <2>8, <2>9
<1> QED BY <1>1, <1>2

(* The users change the tree while the daemon is anywhere. *)
LEMMA UserKeeps == Inv /\ UserStep => Inv'
<1> USE PathFacts, BackupAssumption
<1> SUFFICES ASSUME Inv, UserStep
             PROVE  Inv'
  OBVIOUS
<1>0. TypeOK /\ BatchInv /\ PendingInv /\ ReportedInv /\ FoundInv /\ ScanInv /\ AgeInv
  BY DEF Inv, IInv
<1>1. ASSUME NEW d \in Dirs, MakeDir(d)
      PROVE  Inv'
  <2>1. /\ d \in Dirs \ {Root} /\ dirs' = dirs \cup {d} /\ Report("create", DirPath(d))
        /\ changes' = changes + 1
        /\ UNCHANGED <<ver, watched, todo, dir, dpc, batch, filepath, dump>>
    BY <1>1 DEF MakeDir, Change, scanVars
  <2>2. /\ queue' \in Seq(Event)
        /\ reported \subseteq reported' /\ reported' \subseteq reported \cup {DirPath(d)}
        /\ \A q \in Paths : Due(q, queue) => Due(q, queue')
        /\ DirPath(d)[1] \in watched => DirPath(d) \in reported'
    BY <1>0, <2>1, ReportFacts
  <2>3. reported' \cap Paths = reported \cap Paths
    BY <2>2
  <2>4. TypeOK'
    BY <1>0, <2>1, <2>2 DEF TypeOK
  <2>5. BatchInv'
    BY <1>0, <2>1 DEF BatchInv
  <2>6. PendingInv'
    BY <1>0, <2>1, <2>2, <2>3 DEF PendingInv, Saved
  <2>7. ReportedInv'
    BY <1>0, <2>1, <2>3 DEF ReportedInv
  <2>8. FoundInv'
    BY <1>0, <2>1, <2>2, <2>3 DEF FoundInv
  <2>9. ScanInv'
    <3>1. DirPath(d)[1] = Parent[d]
      BY DEF DirPath
    <3> QED BY <1>0, <2>1, <2>2, <3>1 DEF ScanInv
  <2>10. AgeInv'
    BY <1>0, <2>1, Contents DEF AgeInv
  <2> QED BY <2>4, <2>5, <2>6, <2>7, <2>8, <2>9, <2>10 DEF Inv, IInv
<1>2. ASSUME NEW p \in Paths, Write(p)
      PROVE  Inv'
  <2>1. /\ ver' = [ver EXCEPT ![p] = changes + 3] /\ changes' = changes + 1
        /\ UNCHANGED <<dirs, watched, todo, dir, dpc, batch, filepath, dump>>
    BY <1>2 DEF Write, Change, scanVars
  <2>2. PICK k \in {"create", "modify"} : Report(k, p)
    BY <1>2 DEF Write
  <2>3. /\ queue' \in Seq(Event)
        /\ reported \subseteq reported' /\ reported' \subseteq reported \cup {p}
        /\ \A q \in Paths : Due(q, queue) => Due(q, queue')
        /\ p \in reported' => p \in reported \/ p[1] \in watched
        /\ p[1] \in watched => Due(p, queue')
    BY <1>0, <2>2, ReportFacts
  <2>4. p \in reported' => p[1] \in watched /\ Due(p, queue')
    BY <1>0, <2>3 DEF ReportedInv
  <2>5. /\ ver' \in [Paths -> Nat] /\ ver'[p] = changes + 3
        /\ \A q \in Paths \ {p} : ver'[q] = ver[q] /\ (q \in reported' => q \in reported)
    BY <1>0, <2>1, <2>3 DEF TypeOK
  <2>6. TypeOK'
    BY <1>0, <2>1, <2>3, <2>5 DEF TypeOK
  <2>7. BatchInv'
    BY <1>0, <2>1 DEF BatchInv
  <2>8. PendingInv'
    <3> SUFFICES ASSUME NEW q \in reported' \cap Paths, Unique(q), ver'[q] # 0
                 PROVE  \/ Saved(q)'
                        \/ Due(q, queue')
                        \/ batch' # <<>> /\ Due(q, Tail(batch'))
                        \/ dpc' \in {"next", "find"} /\ Due(q, batch')
                        \/ dpc' \in {"mkdir", "cp"} /\ Head(batch').name = q[2] /\ filepath' = q
      BY DEF PendingInv
    <3>1. CASE q = p
      BY <2>4, <3>1
    <3>2. CASE q # p
      BY <1>0, <2>1, <2>3, <2>5, <3>2 DEF PendingInv, Saved
    <3> QED BY <3>1, <3>2
  <2>9. ReportedInv'
    BY <1>0, <2>1, <2>4, <2>5 DEF ReportedInv
  <2>10. FoundInv'
    BY <1>0, <2>1, <2>3, <2>4, <2>5 DEF FoundInv
  <2>11. ScanInv'
    BY <1>0, <2>1, <2>3 DEF ScanInv
  <2>12. AgeInv'
    <3>1. \A q \in Paths : ver'[q] < changes' + 3
      BY <1>0, <2>1, <2>5, Contents DEF AgeInv
    <3>2. \A n \in Names \cup Dirs : dump[n].copy < changes + 3 /\ dump'[n].copy < changes' + 3
      BY <1>0, <2>1, Contents DEF AgeInv
    <3>3. \A q \in Paths : Unique(q) /\ ver'[q] # 0 => dump[q[2]].copy <= ver'[q]
      BY <1>0, <2>5, <3>2, Contents DEF AgeInv
    <3> QED BY <2>1, <3>1, <3>2, <3>3 DEF AgeInv
  <2> QED BY <2>6, <2>7, <2>8, <2>9, <2>10, <2>11, <2>12 DEF Inv, IInv
<1>3. ASSUME NEW p \in Paths, Delete(p)
      PROVE  Inv'
  <2>1. /\ ver' = [ver EXCEPT ![p] = 0] /\ changes' = changes + 1 /\ Report("delete", p)
        /\ UNCHANGED <<dirs, watched, todo, dir, dpc, batch, filepath, dump>>
    BY <1>3 DEF Delete, Change, scanVars
  <2>3. /\ queue' \in Seq(Event)
        /\ reported \subseteq reported' /\ reported' \subseteq reported \cup {p}
        /\ \A q \in Paths : Due(q, queue) => Due(q, queue')
        /\ p \in reported' => p \in reported \/ p[1] \in watched
    BY <1>0, <2>1, ReportFacts
  <2>5. /\ ver' \in [Paths -> Nat] /\ ver'[p] = 0
        /\ \A q \in Paths \ {p} : ver'[q] = ver[q] /\ (q \in reported' => q \in reported)
    BY <1>0, <2>1, <2>3 DEF TypeOK
  <2>6. TypeOK'
    BY <1>0, <2>1, <2>3, <2>5 DEF TypeOK
  <2>7. BatchInv'
    BY <1>0, <2>1 DEF BatchInv
  <2>8. PendingInv'
    BY <1>0, <2>1, <2>3, <2>5 DEF PendingInv, Saved
  <2>9. ReportedInv'
    BY <1>0, <2>1, <2>3, <2>5 DEF ReportedInv
  <2>10. FoundInv'
    BY <1>0, <2>1, <2>3, <2>5 DEF FoundInv
  <2>11. ScanInv'
    BY <1>0, <2>1, <2>3 DEF ScanInv
  <2>12. AgeInv'
    BY <1>0, <2>1, <2>5 DEF AgeInv, TypeOK, Entry
  <2> QED BY <2>6, <2>7, <2>8, <2>9, <2>10, <2>11, <2>12 DEF Inv, IInv
<1> QED BY <1>1, <1>2, <1>3 DEF UserStep

(* Walking the tree changes what is watched and nothing else. *)
LEMMA ScanKeeps ==
  Inv /\ (FindProcess \/ OpenDir \/ AddWatch \/ ListDir) => Inv'
<1> USE PathFacts, BackupAssumption
<1> SUFFICES ASSUME Inv, FindProcess \/ OpenDir \/ AddWatch \/ ListDir
             PROVE  Inv'
  OBVIOUS
<1>0. TypeOK /\ BatchInv /\ PendingInv /\ ReportedInv /\ FoundInv /\ ScanInv /\ AgeInv
  BY DEF Inv, IInv
<1>1. /\ dpc \in {"start", "open", "watch", "list"}
      /\ dpc' \in {"open", "failed", "watch", "list", "read"}
      /\ watched \subseteq watched' /\ watched' \subseteq Dirs
      /\ todo' \subseteq Dirs /\ dir' \in Dirs
      /\ UNCHANGED <<dirs, ver, changes, queue, reported, batch, filepath, dump>>
  BY <1>0 DEF FindProcess, OpenDir, AddWatch, ListDir, TypeOK, userVars, kernelVars, scanVars
<1>2. TypeOK'
  BY <1>0, <1>1 DEF TypeOK
<1>3. BatchInv' /\ FoundInv'
  BY <1>0, <1>1 DEF BatchInv, FoundInv
<1>4. PendingInv'
  BY <1>0, <1>1 DEF PendingInv, Saved, BatchInv
<1>5. ReportedInv' /\ AgeInv'
  BY <1>0, <1>1 DEF ReportedInv, AgeInv
<1>6. ScanInv'
  <2>1. CASE FindProcess
    BY <1>0, <1>1, <2>1 DEF FindProcess, ScanInv, scanVars
  <2>2. CASE OpenDir
    BY <1>0, <1>1, <2>2 DEF OpenDir, ScanInv
  <2>3. CASE AddWatch
    BY <1>0, <1>1, <2>3 DEF AddWatch, ScanInv
  <2>4. CASE ListDir
    BY <1>0, <1>1, <2>4 DEF ListDir, ScanInv
  <2> QED BY <2>1, <2>2, <2>3, <2>4
<1> QED BY <1>2, <1>3, <1>4, <1>5, <1>6 DEF Inv, IInv

LEMMA BatchFacts ==
  ASSUME NEW b \in Seq(Event), b # <<>>, NEW p \in Paths
  PROVE  /\ Head(b) \in Event /\ Tail(b) \in Seq(Event)
         /\ Due(p, b) => (Head(b).name = p[2] /\ Head(b).kind # "delete") \/ Due(p, Tail(b))
<1>1. Head(b) \in Event /\ Tail(b) \in Seq(Event) /\ Len(b) \in Nat /\ Len(Tail(b)) = Len(b) - 1
  OBVIOUS
<1>2. ASSUME NEW j \in 1 .. Len(b), b[j].name = p[2] /\ b[j].kind # "delete", j # 1
      PROVE  Due(p, Tail(b))
  <2>1. j - 1 \in 1 .. Len(Tail(b)) /\ Tail(b)[j - 1] = b[j]
    BY <1>1, <1>2
  <2> QED BY <1>2, <2>1 DEF Due
<1>3. Head(b) = b[1]
  OBVIOUS
<1> QED BY <1>1, <1>2, <1>3 DEF Due

(* The loop of monitor_dir up to the handler of an event. *)
LEMMA LoopKeeps == Inv /\ (Read \/ NextEvent) => Inv'
<1> USE PathFacts, BackupAssumption
<1> SUFFICES ASSUME Inv, Read \/ NextEvent
             PROVE  Inv'
  OBVIOUS
<1>0. TypeOK /\ BatchInv /\ PendingInv /\ ReportedInv /\ FoundInv /\ ScanInv /\ AgeInv
  BY DEF Inv, IInv
<1>1. /\ dpc \in {"read", "next"} /\ dpc' \in {"read", "next", "find"}
      /\ UNCHANGED <<dirs, ver, changes, reported, watched, todo, dir, filepath, dump>>
  BY DEF Read, NextEvent, userVars, kernelVars, scanVars
<1>2. queue' \in Seq(Event) /\ batch' \in Seq(Event)
  <2>1. <<>> \in Seq(Event)
    OBVIOUS
  <2> QED BY <1>0, <2>1, EventFacts DEF Read, NextEvent, TypeOK, kernelVars
<1>3. TypeOK' /\ ReportedInv' /\ FoundInv' /\ ScanInv' /\ AgeInv'
  <2>1. TypeOK'
    BY <1>0, <1>1, <1>2 DEF TypeOK
  <2>2. ScanInv'
    BY <1>0, <1>1 DEF ScanInv
  <2> QED BY <1>0, <1>1, <2>1, <2>2 DEF ReportedInv, FoundInv, AgeInv
<1>4. BatchInv'
  BY <1>0 DEF Read, NextEvent, BatchInv
<1>5. ASSUME NEW p \in reported \cap Paths, Unique(p), ver[p] # 0
      PROVE  \/ Saved(p)
             \/ Due(p, queue')
             \/ dpc' \in {"next", "find"} /\ Due(p, batch')
  <2>1. \/ Saved(p)
        \/ Due(p, queue)
        \/ batch # <<>> /\ Due(p, Tail(batch))
        \/ dpc = "next" /\ Due(p, batch)
    BY <1>0, <1>1, <1>5 DEF PendingInv
  <2>2. CASE Read
    BY <1>0, <2>1, <2>2 DEF Read, BatchInv
  <2>3. CASE NextEvent
    <3>0. batch # <<>> /\ Due(p, Tail(batch)) => Due(p, batch)
      <4> SUFFICES ASSUME batch # <<>>, NEW j \in 1 .. Len(Tail(batch)),
                          Tail(batch)[j].name = p[2], Tail(batch)[j].kind # "delete"
                   PROVE  Due(p, batch)
        BY DEF Due
      <4>1. j + 1 \in 1 .. Len(batch) /\ batch[j + 1] = Tail(batch)[j]
        BY <1>0 DEF TypeOK
      <4> QED BY <4>1 DEF Due
    <3>1. batch = <<>> => ~Due(p, batch)
      BY DEF Due
    <3>2. batch # <<>> /\ Head(batch).kind = "delete" /\ Due(p, batch) => Due(p, Tail(batch))
      BY <1>0, BatchFacts DEF TypeOK
    <3> QED BY <2>1, <2>3, <3>0, <3>1, <3>2 DEF NextEvent, kernelVars
  <2> QED BY <2>2, <2>3
<1>6. PendingInv'
  BY <1>1, <1>5 DEF PendingInv, Saved
<1> QED BY <1>3, <1>4, <1>6 DEF Inv, IInv

(* find sees every file that is there. *)
LEMMA FindKeeps == Inv /\ Find => Inv'
<1> USE PathFacts, BackupAssumption
<1> SUFFICES ASSUME Inv, Find
             PROVE  Inv'
  OBVIOUS
<1>0. TypeOK /\ BatchInv /\ PendingInv /\ ReportedInv /\ FoundInv /\ ScanInv /\ AgeInv
  BY DEF Inv, IInv
<1>1. /\ dpc = "find" /\ dpc' \in {"mkdir", "cp"}
      /\ UNCHANGED <<dirs, ver, changes, queue, reported, watched, todo, dir, batch, dump>>
  BY DEF Find, userVars, kernelVars, scanVars
<1> DEFINE n == Head(batch).name
<1>2. /\ batch # <<>> /\ Head(batch).kind # "delete" /\ batch \in Seq(Event)
      /\ Head(batch) \in Event /\ n \in Names \cup Dirs
  BY <1>0, <1>1, EventFacts DEF BatchInv, TypeOK
<1>3. \/ Matches(n) = {} /\ filepath' = FindFile
      \/ filepath' \in Matches(n)
  BY DEF Find
<1>4. filepath' \in Paths \cup DirPaths \cup {FindFile}
  BY <1>0, <1>3 DEF Matches, TypeOK
<1>5. filepath' \in Paths => filepath'[2] = n
  BY <1>0, <1>3 DEF Matches, TypeOK
<1>6. ASSUME NEW p \in Paths, Unique(p), ver[p] # 0, p[2] = n
      PROVE  filepath' = p
  <2>1. p \in Matches(n)
    BY <1>6 DEF Matches
  <2>2. \A q \in Matches(n) : q = p
    <3>1. n \notin Dirs
      BY <1>6
    <3> QED BY <1>0, <1>6, <3>1 DEF Matches, Unique, TypeOK
  <2> QED BY <1>3, <2>1, <2>2
<1>7. TypeOK'
  BY <1>0, <1>1, <1>4 DEF TypeOK
<1>8. BatchInv' /\ ReportedInv' /\ AgeInv' /\ ScanInv'
  BY <1>0, <1>1, <1>2 DEF BatchInv, ReportedInv, AgeInv, ScanInv
<1>9. FoundInv'
  BY <1>1, <1>5, <1>6 DEF FoundInv
<1>10. PendingInv'
  <2> SUFFICES ASSUME NEW p \in reported \cap Paths, Unique(p), ver[p] # 0
               PROVE  \/ Saved(p) \/ Due(p, queue) \/ Due(p, Tail(batch))
                      \/ n = p[2] /\ filepath' = p
    BY <1>1, <1>2 DEF PendingInv, Saved
  <2>1. Saved(p) \/ Due(p, queue) \/ Due(p, Tail(batch)) \/ Due(p, batch)
    BY <1>0, <1>1 DEF PendingInv
  <2> QED BY <1>2, <1>6, <2>1, BatchFacts
<1> QED BY <1>7, <1>8, <1>9, <1>10 DEF Inv, IInv

LEMMA MkdirKeeps == Inv /\ Mkdir => Inv'
<1> USE PathFacts, BackupAssumption
<1> SUFFICES ASSUME Inv, Mkdir
             PROVE  Inv'
  OBVIOUS
<1>0. TypeOK /\ BatchInv /\ PendingInv /\ ReportedInv /\ FoundInv /\ ScanInv /\ AgeInv
  BY DEF Inv, IInv
<1>1. /\ dpc = "mkdir" /\ dpc' = "cp"
      /\ UNCHANGED <<dirs, ver, changes, queue, reported, watched, todo, dir, batch, filepath>>
  BY DEF Mkdir, userVars, kernelVars, scanVars
<1> DEFINE n == Head(batch).name
<1>2. n \in Names \cup Dirs
  BY <1>0, <1>1, EventFacts DEF BatchInv, TypeOK
<1>3. dump' \in [Names \cup Dirs -> Entry]
  <2>1. dump \in [Names \cup Dirs -> Entry]
    BY <1>0 DEF TypeOK
  <2>2. [dump[n] EXCEPT !.kind = "dir"] \in Entry
    BY <1>2, <2>1 DEF Entry
  <2>3. dump' = dump \/ dump' = [dump EXCEPT ![n] = [dump[n] EXCEPT !.kind = "dir"]]
    BY <1>2, <2>1 DEF Mkdir
  <2> QED BY <1>2, <2>1, <2>2, <2>3
<1>4. \A m \in Names \cup Dirs :
        /\ dump'[m].copy = dump[m].copy
        /\ dump[m].kind # "none" => dump'[m].kind = dump[m].kind
  BY <1>0, <1>2 DEF Mkdir, TypeOK, Entry
<1>5. TypeOK'
  BY <1>0, <1>1, <1>3 DEF TypeOK
<1>6. BatchInv' /\ ReportedInv' /\ ScanInv' /\ FoundInv'
  BY <1>0, <1>1 DEF BatchInv, ReportedInv, ScanInv, FoundInv
<1>7. AgeInv'
  BY <1>0, <1>1, <1>4 DEF AgeInv
<1>8. PendingInv'
  <2> SUFFICES ASSUME NEW p \in reported \cap Paths, Unique(p), ver[p] # 0
               PROVE  \/ Saved(p)' \/ Due(p, queue)
                      \/ batch # <<>> /\ Due(p, Tail(batch))
                      \/ n = p[2] /\ filepath = p
    BY <1>1 DEF PendingInv
  <2>1. Saved(p) => Saved(p)'
    BY <1>1, <1>4 DEF Saved
  <2> QED BY <1>0, <1>1, <2>1 DEF PendingInv
<1> QED BY <1>5, <1>6, <1>7, <1>8 DEF Inv, IInv

(* What cp makes of the entry of the event. *)
LEMMA CopiedFacts ==
  ASSUME Inv, Cp
  PROVE  /\ dpc = "cp" /\ dpc' = "next" /\ batch # <<>> /\ batch' = Tail(batch)
         /\ UNCHANGED <<dirs, ver, changes, queue, reported, watched, todo, dir, filepath>>
         /\ Head(batch).name \in Names \cup Dirs
         /\ Copied(Head(batch).name) \in Entry
         /\ dump' = [dump EXCEPT ![Head(batch).name] = Copied(Head(batch).name)]
         /\ dump' \in [Names \cup Dirs -> Entry]
         /\ batch' \in Seq(Event)
<1> USE PathFacts, BackupAssumption
<1>0. TypeOK /\ BatchInv
  BY DEF Inv, IInv
<1>1. /\ dpc = "cp" /\ dpc' = "next" /\ batch' = Tail(batch)
      /\ UNCHANGED <<dirs, ver, changes, queue, reported, watched, todo, dir, filepath>>
      /\ dump' = [dump EXCEPT ![Head(batch).name] = Copied(Head(batch).name)]
  BY DEF Cp, userVars, kernelVars, scanVars
<1>2. batch # <<>> /\ batch \in Seq(Event)
  BY <1>0, <1>1 DEF BatchInv, TypeOK
<1>3. Head(batch).name \in Names \cup Dirs /\ batch' \in Seq(Event)
  BY <1>1, <1>2, EventFacts
<1>4. Copied(Head(batch).name) \in Entry
  BY <1>0, <1>3 DEF Copied, TypeOK, Entry
<1> QED BY <1>0, <1>1, <1>2, <1>3, <1>4 DEF TypeOK

LEMMA CpKeeps == Inv /\ Cp => Inv'
<1> USE PathFacts, BackupAssumption
<1> SUFFICES ASSUME Inv, Cp
             PROVE  Inv'
  OBVIOUS
<1> DEFINE n == Head(batch).name
<1>0. TypeOK /\ BatchInv /\ PendingInv /\ ReportedInv /\ FoundInv /\ ScanInv /\ AgeInv
  BY DEF Inv, IInv
<1>1. /\ dpc = "cp" /\ dpc' = "next" /\ batch # <<>> /\ batch' = Tail(batch)
      /\ UNCHANGED <<dirs, ver, changes, queue, reported, watched, todo, dir, filepath>>
      /\ n \in Names \cup Dirs /\ Copied(n) \in Entry
      /\ dump' = [dump EXCEPT ![n] = Copied(n)]
      /\ dump' \in [Names \cup Dirs -> Entry] /\ batch' \in Seq(Event)
  BY CopiedFacts
<1>2. dump'[n] = Copied(n) /\ \A m \in (Names \cup Dirs) \ {n} : dump'[m] = dump[m]
  BY <1>0, <1>1 DEF TypeOK
<1>3. TypeOK'
  BY <1>0, <1>1 DEF TypeOK
<1>4. BatchInv' /\ ReportedInv' /\ ScanInv' /\ FoundInv'
  BY <1>0, <1>1 DEF BatchInv, ReportedInv, ScanInv, FoundInv
<1>5. ASSUME NEW p \in Paths, p[2] = n, Unique(p), filepath \in Paths
      PROVE  filepath = p
  BY <1>0, <1>1, <1>5 DEF FoundInv, Unique
<1>6. AgeInv'
  <2>1. Copied(n).copy < changes + 3
    <3>1. dump[n].copy < changes + 3
      BY <1>0, <1>1 DEF AgeInv
    <3> QED BY <1>0, <1>1, <3>1, Contents DEF Copied, AgeInv
  <2>2. ASSUME NEW p \in Paths, Unique(p), ver[p] # 0
        PROVE  dump'[p[2]].copy <= ver[p]
    <3>1. CASE p[2] # n
      BY <1>0, <1>2, <2>2, <3>1 DEF AgeInv
    <3>2. CASE p[2] = n
      BY <1>0, <1>2, <1>5, <2>2, <3>2 DEF AgeInv, Copied, TypeOK
    <3> QED BY <3>1, <3>2
  <2> QED BY <1>0, <1>1, <1>2, <2>1, <2>2 DEF AgeInv
<1>7. PendingInv'
  <2> SUFFICES ASSUME NEW p \in reported \cap Paths, Unique(p), ver[p] # 0
               PROVE  Saved(p)' \/ Due(p, queue) \/ Due(p, Tail(batch))
    <3>1. \A p : Due(p, queue)' = Due(p, queue) /\ Due(p, batch)' = Due(p, Tail(batch))
      BY <1>1 DEF Due
    <3> QED BY <1>1, <3>1 DEF PendingInv
  <2>1. \/ Saved(p) \/ Due(p, queue) \/ Due(p, Tail(batch)) \/ (n = p[2] /\ filepath = p)
    BY <1>0, <1>1 DEF PendingInv
  <2>2. CASE p[2] # n
    BY <1>1, <1>2, <2>1, <2>2 DEF Saved
  <2>3. CASE p[2] = n
    <3>1. filepath = p \/ Due(p, queue)
      BY <1>0, <1>1, <2>3 DEF FoundInv
    <3>2. filepath = p => Saved(p)'
      BY <1>1, <1>2, <2>3 DEF Saved, Copied
    <3> QED BY <3>1, <3>2
  <2> QED BY <2>2, <2>3
<1> QED BY <1>3, <1>4, <1>6, <1>7 DEF Inv, IInv

LEMMA NextInv == Inv /\ [Next]_vars => Inv'
<1> SUFFICES ASSUME Inv, [Next]_vars
             PROVE  Inv'
  OBVIOUS
<1>1. CASE UserStep
  BY <1>1, UserKeeps
<1>2. CASE DaemonStep
  BY <1>2, ScanKeeps, LoopKeeps, FindKeeps, MkdirKeeps, CpKeeps DEF DaemonStep
<1>3. CASE UNCHANGED vars
  <2>1. UNCHANGED <<dirs, ver, changes, queue, reported, watched, todo, dir, dpc, batch, filepath, dump>>
    BY <1>3 DEF vars, userVars, kernelVars, scanVars
  <2> QED
    BY <2>1 DEF Inv, IInv, TypeOK, BatchInv, PendingInv, ReportedInv, FoundInv, ScanInv, AgeInv, Saved
<1> QED BY <1>1, <1>2, <1>3 DEF Next

(* The daemon's invariant: what it has not saved is still due, what it has    *)
(* found belongs to the event, and no copy is newer than its file.            *)
THEOREM Invariance == Spec => []Inv
<1>1. Init => Inv
  BY InitInv
<1>2. Inv /\ [Next]_vars => Inv'
  BY NextInv
<1> QED BY <1>1, <1>2, PTL DEF Spec

(* Every variable keeps its type; batch and filepath are what the handlers     *)
(* expect (daemon.c:145-164).                                                 *)
THEOREM TypeCorrect == Spec => [](TypeOK /\ BatchInv)
<1>1. Inv => TypeOK /\ BatchInv
  BY DEF Inv, IInv
<1> QED BY <1>1, Invariance, PTL

(* When nothing is left to be read, every file the daemon has heard of is     *)
(* saved as it is (daemon.c:131-220), for any number of files and changes.    *)
THEOREM QuietSaved == Spec => []QuietMeansSaved
<1>1. Inv => QuietMeansSaved
  <2> SUFFICES ASSUME Inv, dpc = "read", queue = <<>>,
                      NEW p \in reported \cap Paths, Unique(p), ver[p] # 0
               PROVE  Saved(p)
    BY DEF QuietMeansSaved
  <2>1. batch = <<>>
    BY DEF Inv, IInv, BatchInv
  <2>2. ~Due(p, queue)
    BY DEF Due
  <2> QED BY <2>1, <2>2 DEF Inv, IInv, PendingInv
<1> QED BY <1>1, Invariance, PTL

(* No directory is overlooked, for every tree and every moment at which its   *)
(* directories are made (daemon.c:96-129).                                    *)
THEOREM NoneUnseen == Spec => []NothingUnseen
<1>1. Inv => NothingUnseen
  BY DEF Inv, ScanInv, NothingUnseen
<1> QED BY <1>1, Invariance, PTL

(* No step of the daemon loses a copy inside its directory or replaces it by  *)
(* an older one (daemon.c:150-220).                                           *)
THEOREM CopiesAreKept == Spec => CopiesKept
<1> USE PathFacts, BackupAssumption
<1>1. Inv /\ [Next]_vars => [\A p \in Paths : CopyKept(p)]_vars
  <2> SUFFICES ASSUME Inv, Next, NEW p \in Paths
               PROVE  CopyKept(p)
    OBVIOUS
  <2>0. TypeOK /\ FoundInv /\ AgeInv
    BY DEF Inv, IInv
  <2>1. CASE Cp
    <3> DEFINE n == Head(batch).name
    <3>1. /\ dpc = "cp" /\ n \in Names \cup Dirs /\ UNCHANGED ver
          /\ dump' = [dump EXCEPT ![n] = Copied(n)]
      BY <2>1, CopiedFacts
    <3>2. CASE p[2] # n
      BY <2>0, <3>1, <3>2 DEF CopyKept, TypeOK, Entry
    <3>3. CASE p[2] = n
      <4>1. dump'[n] = Copied(n)
        BY <2>0, <3>1 DEF TypeOK
      <4>2. Unique(p) /\ filepath \in Paths => filepath = p
        BY <2>0, <3>1, <3>3 DEF FoundInv, Unique
      <4>3. dump[n].copy \in Nat /\ \A q \in Paths : ver[q] \in Nat
        BY <2>0, <3>1 DEF TypeOK, Entry
      <4> QED BY <2>0, <3>3, <4>1, <4>2, <4>3 DEF CopyKept, Copied, AgeInv
    <3> QED BY <3>2, <3>3
  <2>2. CASE Mkdir
    <3> DEFINE n == Head(batch).name
    <3>1. dump' = dump \/ (dump[n].kind = "none" /\ dump' = [dump EXCEPT ![n].kind = "dir"])
      BY <2>2 DEF Mkdir
    <3>2. p[2] \in Names \cup Dirs /\ dump[p[2]].copy \in Nat
      BY <2>0, Contents
    <3>3. dump'[p[2]].copy = dump[p[2]].copy
      <4>1. CASE p[2] = n
        <5>1. dump[n] \in [kind : {"none", "dir", "file"}, copy : Nat] /\ n \in DOMAIN dump
          BY <2>0, <3>2, <4>1 DEF TypeOK, Entry
        <5>2. dump'[n] = dump[n] \/ dump'[n] = [dump[n] EXCEPT !.kind = "dir"]
          BY <3>1, <5>1
        <5>3. dump'[n].copy = dump[n].copy
          BY <5>1, <5>2
        <5> QED BY <4>1, <5>3
      <4>2. CASE p[2] # n
        BY <2>0, <3>1, <3>2, <4>2 DEF TypeOK
      <4> QED BY <4>1, <4>2
    <3>4. dump[p[2]].kind = "dir" => dump'[p[2]].kind = "dir"
      BY <2>0, <3>1, <3>2 DEF TypeOK
    <3> QED BY <3>2, <3>3, <3>4 DEF CopyKept
  <2>3. CASE dump' = dump
    BY <2>0, <2>3 DEF CopyKept, TypeOK, Entry
  <2>4. Cp \/ Mkdir \/ dump' = dump
    BY DEF Next, UserStep, DaemonStep, MakeDir, Write, Delete, Change, FindProcess, OpenDir,
           AddWatch, ListDir, Read, NextEvent, Find
  <2> QED BY <2>1, <2>2, <2>3, <2>4
<1> QED BY <1>1, Invariance, PTL DEF Spec, CopiesKept
=============================================================================
