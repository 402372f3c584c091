----------------------------- MODULE MonteCarlo -----------------------------
(***************************************************************************)
(* src/task_8/tiazhelkov.ve/src/monte_carlo.c, which the worker calls once *)
(* for its task, and src/monte_carlo/monte_carlo.c, the same function as a *)
(* program of its own: main creates one thread per core, every thread      *)
(* integrates its part and adds it to the global res_square under the      *)
(* mutex m, main joins all of them and returns res_square.                 *)
(*                                                                         *)
(* res_square += square is a load and a store, as the machine does it.  A  *)
(* part of the integral is the index of its thread; res_square counts how  *)
(* often each part has been added, so a lost or a doubled addition shows.  *)
(* The loop over the random points is one step.                            *)
(***************************************************************************)
EXTENDS Integers, FiniteSets

CONSTANTS
  NThreads,    \* n_threads: num_of_cores, or argv[1]
  MaxRefused   \* bound: how many calls of pthread_create fail

ASSUME MonteCarloAssumption == NThreads \in Nat /\ MaxRefused \in Nat

Threads == 1 .. NThreads
NoOne   == 0                 \* the mutex is free

VARIABLES
  mpc,         \* where main is: "create", "join", "returned", "crashed"
  i,           \* its loop variable, from 1
  tpc,         \* where every thread is
  refused,     \* the threads whose pthread_create failed, tids[i] never set
  owner,       \* the thread that holds m
  loaded,      \* loaded[t]: the res_square that t has read
  res_square

mcVars == <<mpc, i, tpc, refused, owner, loaded, res_square>>

Sums == [Threads -> Nat]

ThreadPhase == {"none", "args", "points", "lock", "load", "store", "unlock", "exited"}

MonteCarloTypeOK ==
  /\ mpc \in {"create", "join", "returned", "crashed"}
  /\ i \in 1 .. NThreads + 1
  /\ tpc \in [Threads -> ThreadPhase]
  /\ refused \subseteq Threads
  /\ owner \in Threads \cup {NoOne}
  /\ loaded \in [Threads -> Sums]
  /\ res_square \in Sums

Zero == [t \in Threads |-> 0]

MonteCarloInit ==
  /\ mpc = "create"
  /\ i = 1
  /\ tpc = [t \in Threads |-> "none"]
  /\ refused = {}
  /\ owner = NoOne
  /\ loaded = [t \in Threads |-> Zero]
  /\ res_square = Zero

---------------------------------------------------------------------------
(* The caller. *)

(* args[i] is filled in, then the thread that reads it is created. *)
Create ==
  /\ mpc = "create" /\ i <= NThreads
  /\ tpc' = [tpc EXCEPT ![i] = "args"]
  /\ i' = i + 1
  /\ UNCHANGED <<mpc, refused, owner, loaded, res_square>>

(* pthread_create fails; nobody looks at its result. *)
CreateRefused ==
  /\ mpc = "create" /\ i <= NThreads
  /\ Cardinality(refused) < MaxRefused
  /\ refused' = refused \cup {i}
  /\ i' = i + 1
  /\ UNCHANGED <<mpc, tpc, owner, loaded, res_square>>

(* A mutant of Join: the thread is detached and not waited for. *)
Join_NoWait ==
  /\ mpc = "join" /\ i <= NThreads
  /\ i \notin refused
  /\ i' = i + 1
  /\ UNCHANGED <<mpc, tpc, refused, owner, loaded, res_square>>

AllCreated ==
  /\ mpc = "create" /\ i > NThreads
  /\ mpc' = "join" /\ i' = 1
  /\ UNCHANGED <<tpc, refused, owner, loaded, res_square>>

Join ==
  /\ mpc = "join" /\ i <= NThreads
  /\ i \notin refused /\ tpc[i] = "exited"
  /\ i' = i + 1
  /\ UNCHANGED <<mpc, tpc, refused, owner, loaded, res_square>>

(* pthread_join on the garbage of a tids[i] that was never set: it comes back *)
(* with an error nobody looks at, or the process dies of a wild pointer.      *)
JoinGarbage ==
  /\ mpc = "join" /\ i <= NThreads
  /\ i \in refused
  /\ \/ i' = i + 1 /\ UNCHANGED mpc
     \/ mpc' = "crashed" /\ UNCHANGED i
  /\ UNCHANGED <<tpc, refused, owner, loaded, res_square>>

(* monte_carlo returns res_square, and its frame with args is gone. *)
Return ==
  /\ mpc = "join" /\ i > NThreads
  /\ mpc' = "returned"
  /\ UNCHANGED <<i, tpc, refused, owner, loaded, res_square>>

MainStep == Create \/ CreateRefused \/ AllCreated \/ Join \/ JoinGarbage \/ Return

---------------------------------------------------------------------------
(* square_of_one_square, in thread t. *)

(* The threads of a process that died run no more. *)
Go(t, from, to) == mpc # "crashed" /\ tpc[t] = from /\ tpc' = [tpc EXCEPT ![t] = to]

(* d_arg[0..4] are read from the caller's stack. *)
ReadArgs(t) ==
  /\ Go(t, "args", "points")
  /\ UNCHANGED <<mpc, i, refused, owner, loaded, res_square>>

CountPoints(t) ==
  /\ Go(t, "points", "lock")
  /\ UNCHANGED <<mpc, i, refused, owner, loaded, res_square>>

Lock(t) ==
  /\ Go(t, "lock", "load")
  /\ owner = NoOne
  /\ owner' = t
  /\ UNCHANGED <<mpc, i, refused, loaded, res_square>>

Load(t) ==
  /\ Go(t, "load", "store")
  /\ loaded' = [loaded EXCEPT ![t] = res_square]
  /\ UNCHANGED <<mpc, i, refused, owner, res_square>>

Store(t) ==
  /\ Go(t, "store", "unlock")
  /\ res_square' = [loaded[t] EXCEPT ![t] = @ + 1]
  /\ UNCHANGED <<mpc, i, refused, owner, loaded>>

(* A mutant of Unlock: the thread returns with m locked. *)
Unlock_Forgotten(t) ==
  /\ Go(t, "unlock", "exited")
  /\ UNCHANGED <<mpc, i, refused, owner, loaded, res_square>>

Unlock(t) ==
  /\ Go(t, "unlock", "exited")
  /\ owner' = NoOne
  /\ UNCHANGED <<mpc, i, refused, loaded, res_square>>

ThreadStep(t) ==
  \/ ReadArgs(t) \/ CountPoints(t) \/ Lock(t) \/ Load(t) \/ Store(t) \/ Unlock(t)

MonteCarloNext == MainStep \/ \E t \in Threads : ThreadStep(t)

(* The kernel schedules main and every thread. *)
MonteCarloSpec ==
  /\ MonteCarloInit /\ [][MonteCarloNext]_mcVars
  /\ WF_mcVars(MainStep) /\ \A t \in Threads : WF_mcVars(ThreadStep(t))

---------------------------------------------------------------------------
Done(t) == tpc[t] \in {"unlock", "exited"}

(* The addition to res_square is not lost and not doubled: at any moment it   *)
(* holds the parts of exactly the threads that are behind their "+=" (l. 86). *)
NoLostUpdate == \A t \in Threads : res_square[t] = IF Done(t) THEN 1 ELSE 0

(* monte_carlo returns no partial sum: every thread that could be created has *)
(* added its part by then, although the parts are added outside main's loop.  *)
ReturnsWholeSum ==
  mpc = "returned" => \A t \in Threads \ refused : res_square[t] = 1

(* args is on the stack of monte_carlo: no thread reads it after the return.  *)
ArgsOutliveReaders == mpc = "returned" => \A t \in Threads : tpc[t] # "args"

(* Only the holder of m is between lock and unlock, and what it has loaded is  *)
(* still the value of res_square.                                             *)
OwnerInv ==
  \A t \in Threads :
    /\ tpc[t] \in {"load", "store", "unlock"} <=> owner = t
    /\ tpc[t] = "store" => loaded[t] = res_square

(* Which threads exist and which are known to be over, by main's progress.    *)
MainInv ==
  \A t \in Threads :
    /\ t \in refused => tpc[t] = "none"
    /\ tpc[t] = "none" => t \in refused \/ (mpc = "create" /\ t >= i)
    /\ mpc = "create" /\ t >= i => tpc[t] = "none" /\ t \notin refused
    /\ mpc = "returned" \/ (mpc = "join" /\ t < i) => t \in refused \/ tpc[t] = "exited"

(* The inductive invariant of the function: the mutex protects every load and *)
(* store of res_square (l. 85-87), and main is never ahead of a thread.       *)
ThreadsInv == MonteCarloTypeOK /\ OwnerInv /\ MainInv /\ NoLostUpdate

(* The implementation of the atomic sum, in which a part is decided on when   *)
(* its "+=" has been stored or its thread could not be created.               *)
Sum == INSTANCE ParallelSum WITH
         Parts   <- Threads,
         pending <- {t \in Threads : ~Done(t)} \ refused,
         sum     <- res_square,
         outcome <- IF mpc \in {"returned", "crashed"} THEN mpc ELSE "running"

(* Load, store, lock and join together add up to the atomic sum: every step   *)
(* is a step of it or invisible, and the call comes to an end.                *)
SumImplemented == Sum!PSSpec
SumSteps       == Sum!PSSafety
=============================================================================
