-------------------------------- MODULE Shell --------------------------------
(***************************************************************************)
(* src/task_1/Tyazhelkov/cmdline.c: a shell that reads a line, cuts it     *)
(* into commands at the bars and runs them one after the other, each with  *)
(* its output in a new pipe that the next one reads (seq_pipe, the         *)
(* function of src/task_1/examples/10_exec_pipes.c).                       *)
(*                                                                         *)
(* A line is a sequence of letters, spaces and bars.  A program is what it *)
(* does with the pipes: it writes Output[name] units and, if it is one of  *)
(* Filters, ends at the end of its input only.  A pipe is the number of    *)
(* units in it; an end of it stays open as long as a process holds it.     *)
(* The arrays of words and commands are not ended with NULL by the code;   *)
(* they are fresh pages of memory, which are zero.                         *)
(***************************************************************************)
EXTENDS Integers, Sequences, FiniteSets, SequencesExt

CONSTANTS
  Letter,    \* characters without a meaning
  Lines,     \* bound: Lines[n] are the lines that may be typed as the n-th
  Output,    \* Output[name], for the names of programs that exist
  Filters,   \* the names of programs that read their input to its end
  Capacity   \* units a pipe holds

Space == " "
Char  == Letter \cup {Space, "|"}

ASSUME ShellAssumption ==
  /\ Lines \in Seq(SUBSET Seq(Char))
  /\ \A n \in DOMAIN Output : Output[n] \in Nat
  /\ Filters \subseteq DOMAIN Output
  /\ Capacity \in Nat \ {0}

VARIABLES
  waits,   \* whether waitpid(NULL), called with one argument, waits
  spc,     \* "prompt", "start", "wait", or how the shell has ended
  typed,   \* the lines read so far
  cmd, i,  \* the names of the commands of the last line, the loop variable
  fds,     \* the shell's descriptors from 3 on: the end of a pipe of each
  p, fdin, \* int p[2] and fd_in; p holds what pipe() has last put there
  npipes,  \* pipes made so far
  held,    \* held[q]: the units in the q-th pipe
  procs    \* the children, in the order of their forks

vars == <<waits, spc, typed, cmd, i, fds, p, fdin, npipes, held, procs>>
lineVars == <<waits, typed, cmd>>
pipeVars == <<fds, p, fdin, npipes>>

(* The call without its status and options passes whatever is in the          *)
(* registers: it waits, or comes back at once with an error or WNOHANG.       *)
Init ==
  /\ waits \in BOOLEAN
  /\ spc = "prompt" /\ typed = <<>> /\ cmd = <<>> /\ i = 1
  /\ fds = <<>> /\ p = <<0, 0>> /\ fdin = 0
  /\ npipes = 0 /\ held = <<>> /\ procs = <<>>

---------------------------------------------------------------------------
(* parse_cmdline and parse_cmd *)

(* Where the commands end: at the bars, Bars(l)[n] up to the n-th character,  *)
(* and at the end of the line.                                                *)
Bars(l) ==
  LET bars[n \in 0 .. Len(l)] ==
        IF n = 0 THEN <<>> ELSE IF l[n] = "|" THEN Append(bars[n - 1], n) ELSE bars[n - 1]
  IN  bars

Cuts(l) == Append(Bars(l)[Len(l)], Len(l) + 1)

(* A bar is skipped, and with it whatever follows it. *)
Skip_Three == 3
Skip == 2
First(l, k) == IF k = 1 THEN 1 ELSE Cuts(l)[k - 1] + Skip

(* strtok: the first word of s. *)
Word(s) ==
  LET from == CHOOSE n \in 1 .. Len(s) + 1 : /\ \A m \in 1 .. n - 1 : s[m] = Space
                                             /\ n <= Len(s) => s[n] # Space
      to   == CHOOSE n \in from .. Len(s) + 1 : /\ \A m \in from .. n - 1 : s[m] # Space
                                                /\ n <= Len(s) => s[n] = Space
  IN  SubSeq(s, from, to - 1)

Commands(l) == [k \in 1 .. Len(Cuts(l)) |-> Word(SubSeq(l, First(l, k), Cuts(l)[k] - 1))]

(* strncpy with a length of -1 runs out of the memory of the process. *)
Overruns(l) == \E k \in 1 .. Len(Cuts(l)) : Cuts(l)[k] < First(l, k)

ReadLine ==
  /\ spc = "prompt" /\ Len(typed) < Len(Lines)
  /\ \E l \in Lines[Len(typed) + 1] :
       /\ typed' = Append(typed, l)
       /\ IF Overruns(l) THEN spc' = "killed" /\ cmd' = cmd
                         ELSE spc' = "start" /\ cmd' = Commands(l)
  /\ i' = 1 /\ fdin' = 0
  /\ UNCHANGED <<waits, fds, p, npipes, held, procs>>

(* At the end of the input strchr finds no newline in the old line. *)
EndOfInput ==
  /\ spc = "prompt"
  /\ spc' = "killed"
  /\ UNCHANGED <<lineVars, i, pipeVars, held, procs>>

---------------------------------------------------------------------------
(* seq_pipe *)

Free(n) == CHOOSE d \in 3 .. Cardinality(DOMAIN fds) + 4 :
             /\ d \notin DOMAIN fds
             /\ Cardinality((3 .. d - 1) \ DOMAIN fds) = n

Without(f, ds) == [d \in DOMAIN f \ ds |-> f[d]]

(* The output of every command but the last goes into the new pipe. *)
OutPipe_OffByOne == IF i + 1 < Len(cmd) THEN npipes + 1 ELSE 0
OutPipe          == IF i < Len(cmd) THEN npipes + 1 ELSE 0

(* pipe(p), fork(), and in the child dup2(), close() and execvp(): the child   *)
(* holds every end the shell holds but that of p[0], and has the pipes of     *)
(* fd_in and p[1] as its input and output (0: the terminal).  A name without  *)
(* a program is a child that ends at once.                                    *)
StartCommand ==
  /\ spc = "start"
  /\ npipes' = npipes + 1
  /\ held' = Append(held, 0)
  /\ p' = <<Free(0), Free(1)>>
  /\ fds' = [d \in DOMAIN fds \cup {Free(0), Free(1)} |->
               IF d = Free(0) THEN <<npipes + 1, "r">>
               ELSE IF d = Free(1) THEN <<npipes + 1, "w">> ELSE fds[d]]
  /\ procs' = Append(procs,
       [name  |-> cmd[i],
        in    |-> IF i > 1 THEN fds[fdin][1] ELSE 0,
        out   |-> OutPipe,
        ends  |-> Range(Without(fds', {p'[1]})),
        left  |-> IF cmd[i] \in DOMAIN Output THEN Output[cmd[i]] ELSE 0,
        took  |-> 0, state |-> "running"])
  /\ spc' = "wait"
  /\ UNCHANGED <<lineVars, i, fdin>>

ForkFails ==
  /\ spc = "start"
  /\ spc' = "exited"
  /\ UNCHANGED <<lineVars, i, pipeVars, held, procs>>

(* Mutants: a descriptor is not closed. *)
Closed_Reader == {p[2]}
Closed_Writer == IF i > 1 THEN {fdin} ELSE {}
Closed        == IF i > 1 THEN {p[2], fdin} ELSE {p[2]}

MayGoOn_Always == TRUE
MayGoOn        == waits => procs[Len(procs)].state # "running"

(* waitpid() returns; p[1] and the old fd_in are closed, p[0] is the next one. *)
EndCommand ==
  /\ spc = "wait" /\ MayGoOn
  /\ fds' = Without(fds, Closed)
  /\ fdin' = p[1]
  /\ i' = i + 1
  /\ spc' = IF i < Len(cmd) THEN "start" ELSE "prompt"
  /\ UNCHANGED <<lineVars, p, npipes, held, procs>>

ShellStep == StartCommand \/ EndCommand

---------------------------------------------------------------------------
(* The programs (external). *)

Alive        == spc \in {"prompt", "start", "wait"}
Runs(j)      == procs[j].state = "running"
Held(e)      == \/ Alive /\ e \in Range(fds)
                \/ \E j \in DOMAIN procs : Runs(j) /\ e \in procs[j].ends

WriteUnit(j) ==
  LET q == procs[j].out IN
  /\ Runs(j) /\ procs[j].left > 0
  /\ q # 0 => Held(<<q, "r">>) /\ held[q] < Capacity
  /\ procs' = [procs EXCEPT ![j].left = @ - 1]
  /\ held' = IF q = 0 THEN held ELSE [held EXCEPT ![q] = @ + 1]

BrokenPipe(j) ==
  /\ Runs(j) /\ procs[j].left > 0 /\ procs[j].out # 0 /\ ~Held(<<procs[j].out, "r">>)
  /\ procs' = [procs EXCEPT ![j].state = "killed"]
  /\ held' = held

ReadUnit(j) ==
  LET q == procs[j].in IN
  /\ Runs(j) /\ procs[j].name \in Filters /\ q # 0
  /\ held[q] > 0
  /\ procs' = [procs EXCEPT ![j].took = @ + 1]
  /\ held' = [held EXCEPT ![q] = @ - 1]

Exit(j) ==
  LET q == procs[j].in IN
  /\ Runs(j) /\ procs[j].left = 0
  /\ procs[j].name \in Filters /\ q # 0 => held[q] = 0 /\ ~Held(<<q, "w">>)
  /\ procs' = [procs EXCEPT ![j].state = "ended"]
  /\ held' = held

ProgramStep ==
  /\ \E j \in DOMAIN procs : WriteUnit(j) \/ BrokenPipe(j) \/ ReadUnit(j) \/ Exit(j)
  /\ UNCHANGED <<lineVars, spc, i, pipeVars>>

Next == ReadLine \/ EndOfInput \/ ForkFails \/ ShellStep \/ ProgramStep

(* The kernel schedules the shell and every program; the user may stop typing. *)
Spec == Init /\ [][Next]_vars /\ WF_vars(ShellStep) /\ WF_vars(ProgramStep)

---------------------------------------------------------------------------
Line  == typed[Len(typed)]
Leaks == IF spc = "prompt" THEN Len(typed) ELSE Len(typed) - 1

(* task_1.md:15: the programs that run are those whose names stand between    *)
(* the bars, as long as a space follows every bar.                            *)
ParsedAsWritten ==
  spc = "start" /\ (\A n \in DOMAIN Line : Line[n] = "|" => n < Len(Line) /\ Line[n + 1] = Space) =>
    LET from(k) == IF k = 1 THEN 1 ELSE Cuts(Line)[k - 1] + 1
    IN  cmd = [k \in 1 .. Len(Cuts(Line)) |-> Word(SubSeq(Line, from(k), Cuts(Line)[k] - 1))]

(* A filter that has ended has read all that the program before it had to     *)
(* write: its input came from that program and from no other, to the end.     *)
Total(j) == IF procs[j].name \in DOMAIN Output THEN Output[procs[j].name] ELSE 0

WholeInput ==
  \A j \in DOMAIN procs :
    procs[j].state = "ended" /\ procs[j].in # 0 /\ procs[j].name \in Filters
      => procs[j].took = Total(j - 1)

(* Nobody but the program itself holds the write end of its output once the   *)
(* next program runs: the reader sees the end of its input.                   *)
OnlyWriterHolds ==
  \A j \in DOMAIN procs : Runs(j) /\ procs[j].in # 0 =>
    LET e == <<procs[j].in, "w">> IN
    /\ Alive => e \notin Range(fds)
    /\ \A k \in DOMAIN procs \ {j - 1} : Runs(k) => e \notin procs[k].ends

(* 10_exec_pipes.c:2-12: two pipes at most are open at a time and their       *)
(* descriptors are used again as listed there; the last one of every line is  *)
(* never closed, so that each line costs the shell one descriptor.            *)
DescriptorsReused ==
  Alive =>
    /\ Cardinality({fds[d][1] : d \in DOMAIN fds}) <= Leaks + 2
    /\ spc = "prompt" => Cardinality(DOMAIN fds) = Leaks
    /\ spc = "wait" /\ Len(typed) = 1 /\ i <= 4 => p = <<<<3, 4>>, <<4, 5>>, <<3, 5>>, <<4, 5>>>>[i]

(* The shell starts a program only after the one before has ended, so a       *)
(* program that fills its pipe never ends: those that have, fitted.           *)
EndedFits ==
  waits => \A j \in DOMAIN procs : procs[j].state = "ended" /\ procs[j].out # 0 => Total(j) <= Capacity

(* With outputs that fit, or with a waitpid() that does not wait, the prompt  *)
(* comes back after every line.                                               *)
Fits(c) == \A k \in 1 .. Len(c) - 1 : c[k] \in DOMAIN Output => Output[c[k]] <= Capacity

PromptComesBack == (spc = "start" /\ (waits => Fits(cmd))) ~> spc \in {"prompt", "exited"}
=============================================================================
