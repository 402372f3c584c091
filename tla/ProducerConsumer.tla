-------------------------- MODULE ProducerConsumer --------------------------
(***************************************************************************)
(* src/task_4/examples/10_prod_cons_cond_var.c: producers put numbers into *)
(* a ring buffer, consumers take them out.  Each side sleeps on its own    *)
(* condition variable and is woken by the other.  What a thread does       *)
(* between lock and unlock is one step, unless it sleeps in between: then  *)
(* it goes on, once it is woken and has the mutex again, without another   *)
(* test (`if`, not `while`).                                               *)
(***************************************************************************)
EXTENDS Integers, Sequences, FiniteSets

CONSTANTS
  Producer, Consumer,  \* the threads
  BUF_SIZE,
  Count,               \* numbers a producer inserts
  Spurious             \* whether pthread_cond_wait may return without a signal

VARIABLES
  buffer, add, rem, num,
  pc,      \* where a thread is: "run", "asleep", "woken" or "done"
  made,    \* the numbers each producer has inserted
  taken    \* what the consumers have taken

vars == <<buffer, add, rem, num, pc, made, taken>>

Init ==
  /\ buffer = [n \in 0 .. BUF_SIZE - 1 |-> 0]
  /\ add = 0 /\ rem = 0 /\ num = 0
  /\ pc = [t \in Producer \cup Consumer |-> "run"]
  /\ made = [t \in Producer |-> 0] /\ taken = <<>>

(* pthread_cond_signal: one of the threads of S that sleep is woken, if any.  *)
Signalled(S, state) ==
  LET asleep == {t \in S : state[t] = "asleep"}
  IN  IF asleep = {} THEN {state} ELSE {[state EXCEPT ![t] = "woken"] : t \in asleep}

Sleep(t, cond) ==
  /\ pc[t] = "run" /\ cond
  /\ pc' = [pc EXCEPT ![t] = "asleep"]
  /\ UNCHANGED <<buffer, add, rem, num, made, taken>>

WakeSpuriously(t) ==
  /\ Spurious /\ pc[t] = "asleep"
  /\ pc' = [pc EXCEPT ![t] = "woken"]
  /\ UNCHANGED <<buffer, add, rem, num, made, taken>>

Insert(t) ==
  /\ pc[t] = "woken" \/ (pc[t] = "run" /\ num # BUF_SIZE)
  /\ buffer' = [buffer EXCEPT ![add] = made[t] + 1]
  /\ add' = (add + 1) % BUF_SIZE
  /\ num' = num + 1
  /\ made' = [made EXCEPT ![t] = @ + 1]
  /\ pc' \in Signalled(Consumer, [pc EXCEPT ![t] = IF made[t] + 1 < Count THEN "run" ELSE "done"])
  /\ UNCHANGED <<rem, taken>>

Remove(t) ==
  /\ pc[t] = "woken" \/ (pc[t] = "run" /\ num # 0)
  /\ taken' = Append(taken, buffer[rem])
  /\ rem' = (rem + 1) % BUF_SIZE
  /\ num' = num - 1
  /\ pc' \in Signalled(Producer, [pc EXCEPT ![t] = "run"])
  /\ UNCHANGED <<buffer, add, made>>

Next ==
  \/ \E t \in Producer : Sleep(t, num = BUF_SIZE) \/ Insert(t)
  \/ \E t \in Consumer : Sleep(t, num = 0) \/ Remove(t)
  \/ \E t \in Producer \cup Consumer : WakeSpuriously(t)

Spec == Init /\ [][Next]_vars

---------------------------------------------------------------------------
(* 10_prod_cons_cond_var.c:49,68: a thread that gets behind the wait adds to  *)
(* a buffer that is not full, takes from one that is not empty; line 25:      *)
(* there may be any number of threads.                                        *)
BufferInBounds == num \in 0 .. BUF_SIZE
=============================================================================
