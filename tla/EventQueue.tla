----------------------------- MODULE EventQueue -----------------------------
(***************************************************************************)
(* EventQueue (src/src/tools/common/EventQueue.h, the same text as         *)
(* src/src/libhidpp/misc/EventQueue.h): a mutex, a condition variable, a   *)
(* queue and a flag.  One thread pops; any thread pushes; interrupt() may  *)
(* come from a signal handler and does not take the mutex.                 *)
(***************************************************************************)
EXTENDS Integers, Sequences

VARIABLES
    queue,      \* _queue
    interrupted,\* _interrupted
    notifying,  \* interrupt() has set the flag and not notified yet
    popping     \* the popping thread: where it is in pop()

queueVars == <<queue, interrupted, notifying, popping>>

QueueInit ==
    /\ queue = <<>>
    /\ interrupted = FALSE
    /\ notifying = FALSE
    /\ popping = "out"

\* Only the thread between the test of its loop and the wait keeps the mutex
\* from one step to the next.
Unlocked == popping # "tested"
Woken == IF popping = "waiting" THEN "woken" ELSE popping

\* push (): the notification wakes the waiting thread, if there is one.
Push(events) ==
    /\ Unlocked
    /\ queue' = queue \o events
    /\ popping' = Woken
    /\ UNCHANGED <<interrupted, notifying>>

\* pop (), up to its test: the thread is going to wait ...
PopTest ==
    /\ popping \in {"out", "woken"}
    /\ queue = <<>>
    /\ ~interrupted
    /\ popping' = "tested"
    /\ UNCHANGED <<queue, interrupted, notifying>>

\* ... and waits, which releases the mutex.
PopWait ==
    /\ popping = "tested"
    /\ popping' = "waiting"
    /\ UNCHANGED <<queue, interrupted, notifying>>

PopEvent ==
    /\ popping \in {"out", "woken"}
    /\ queue # <<>>
    /\ ~interrupted
    /\ queue' = Tail(queue)
    /\ popping' = "out"
    /\ UNCHANGED <<interrupted, notifying>>

\* Faulty variant: an interrupted pop () first empties the queue.
EmptyFirst ==
    /\ popping \in {"out", "woken"}
    /\ interrupted
    /\ queue = <<>>
    /\ popping' = "left"
    /\ UNCHANGED <<queue, interrupted, notifying>>
\* pop () returns no value.
PopNothing ==
    /\ popping \in {"out", "woken"}
    /\ interrupted
    /\ popping' = "left"
    /\ UNCHANGED <<queue, interrupted, notifying>>

\* interrupt (): the flag, without the mutex, ...
Interrupt ==
    /\ interrupted' = TRUE
    /\ notifying' = TRUE
    /\ UNCHANGED <<queue, popping>>

\* ... then notify_all ().
Notify ==
    /\ notifying
    /\ notifying' = FALSE
    /\ popping' = Woken
    /\ UNCHANGED <<queue, interrupted>>

\* A condition variable may wake up on its own.
SpuriousWakeUp ==
    /\ popping = "waiting"
    /\ popping' = "woken"
    /\ UNCHANGED <<queue, interrupted, notifying>>
=============================================================================
