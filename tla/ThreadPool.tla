----------------------------- MODULE ThreadPool -----------------------------
(***************************************************************************)
(* The thread pool of server/14/thread_pool.cpp: one producer (the event   *)
(* loop, thread Main) and a fixed set of workers share a deque, a mutex    *)
(* and a condition variable.  One action per call that another thread can  *)
(* observe: taking and releasing mu, entering and leaving the wait set of  *)
(* not_empty, pushing, popping, and running the job.                       *)
(***************************************************************************)
EXTENDS Naturals, Sequences, FiniteSets

CONSTANTS Workers,      \* tp->threads
          Main,         \* the thread that runs the event loop
          Jobs,         \* the values of Work.arg
          None,         \* no thread, no job
          MaxSpurious   \* bound: spurious returns of pthread_cond_wait

ASSUME ThreadAssumption ==
    /\ Workers # {} /\ IsFiniteSet(Workers)
    /\ Main \notin Workers /\ None \notin Workers \cup {Main}

ASSUME JobAssumption == None \notin Jobs

ASSUME BoundAssumption == MaxSpurious \in Nat

VARIABLES mu,       \* the thread that holds tp->mu, or None
          queue,    \* tp->queue, front first
          pc,       \* the call each thread is about to make
          w,        \* the local Work of each thread, None when unset
          ran,      \* how many times w.f(j) returned, for every job j
          spurious  \* spurious wakeups so far

vars == <<mu, queue, pc, w, ran, spurious>>

Threads == Workers \cup {Main}

\* Threads blocked in pthread_cond_wait, in the wait set of not_empty.
Waiters == {t \in Workers : pc[t] = "wait"}

\* Workers that will look at the queue before they can block on not_empty.
Awake == {t \in Workers : pc[t] \in {"lock", "test"}}

\* Jobs thread_pool_queue has been called with.
Posted == {j \in Jobs : \/ ran[j] > 0
                        \/ \E i \in DOMAIN queue : queue[i] = j
                        \/ \E t \in Threads : w[t] = j}

\* thread_pool_init: the mutex is free and every thread enters worker().
Init == /\ mu = None
        /\ queue = <<>>
        /\ pc = [t \in Threads |-> IF t = Main THEN "idle" ELSE "lock"]
        /\ w = [t \in Threads |-> None]
        /\ ran = [j \in Jobs |-> 0]
        /\ spurious = 0

Goto(t, label) == pc' = [pc EXCEPT ![t] = label]

-----------------------------------------------------------------------------
(* worker(), one iteration of its outer loop *)

\* pthread_mutex_lock, and the re-acquisition inside pthread_cond_wait.
Lock(t) == /\ pc[t] = "lock"
           /\ mu = None
           /\ mu' = t
           /\ Goto(t, "test")
           /\ UNCHANGED <<queue, w, ran, spurious>>

\* while (queue.empty()) pthread_cond_wait: releases mu and blocks at once.
Wait(t) == /\ pc[t] = "test"
           /\ queue = <<>>
           /\ mu' = None
           /\ Goto(t, "wait")
           /\ UNCHANGED <<queue, w, ran, spurious>>

\* The wait returns without a signal; the mutex is still to be re-acquired.
SpuriousWakeup(t) == /\ pc[t] = "wait"
                     /\ spurious < MaxSpurious
                     /\ spurious' = spurious + 1
                     /\ Goto(t, "lock")
                     /\ UNCHANGED <<mu, queue, w, ran>>

\* Mutants of Take: the job stays in the deque; the youngest job is taken.
Take_NoPop(t) == /\ pc[t] = "test"
                 /\ queue # <<>>
                 /\ w' = [w EXCEPT ![t] = Head(queue)]
                 /\ Goto(t, "unlock")
                 /\ UNCHANGED <<mu, queue, ran, spurious>>

Take_Back(t) == /\ pc[t] = "test"
                /\ queue # <<>>
                /\ w' = [w EXCEPT ![t] = queue[Len(queue)]]
                /\ queue' = SubSeq(queue, 1, Len(queue) - 1)
                /\ Goto(t, "unlock")
                /\ UNCHANGED <<mu, ran, spurious>>

\* The loop test fails: w = front(), pop_front().
Take(t) == /\ pc[t] = "test"
           /\ queue # <<>>
           /\ w' = [w EXCEPT ![t] = Head(queue)]
           /\ queue' = Tail(queue)
           /\ Goto(t, "unlock")
           /\ UNCHANGED <<mu, ran, spurious>>

Unlock(t) == /\ pc[t] = "unlock"
             /\ mu' = None
             /\ Goto(t, "work")
             /\ UNCHANGED <<queue, w, ran, spurious>>

\* w.f(w.arg) returns; w goes out of scope and the outer loop starts over.
DoWork(t) == /\ pc[t] = "work"
             /\ ran' = [ran EXCEPT ![w[t]] = @ + 1]
             /\ w' = [w EXCEPT ![t] = None]
             /\ Goto(t, "lock")
             /\ UNCHANGED <<mu, queue, spurious>>

-----------------------------------------------------------------------------
(* thread_pool_queue(), called by the event loop only *)

\* The call, with a job that was never posted: an Entry is deleted once.
Post(j) == /\ pc[Main] = "idle"
           /\ j \notin Posted
           /\ w' = [w EXCEPT ![Main] = j]
           /\ Goto(Main, "qlock")
           /\ UNCHANGED <<mu, queue, ran, spurious>>

QLock == /\ pc[Main] = "qlock"
         /\ mu = None
         /\ mu' = Main
         /\ Goto(Main, "push")
         /\ UNCHANGED <<queue, w, ran, spurious>>

Push == /\ pc[Main] = "push"
        /\ queue' = Append(queue, w[Main])
        /\ w' = [w EXCEPT ![Main] = None]
        /\ Goto(Main, "signal")
        /\ UNCHANGED <<mu, ran, spurious>>

\* Mutants of Signal: no signal at all; a signal only to a queue that was empty.
Signal_Never == /\ pc[Main] = "signal"
                /\ Goto(Main, "qunlock")
                /\ UNCHANGED <<mu, queue, w, ran, spurious>>

Signal_IfWasEmpty == \/ /\ Len(queue) # 1
                        /\ Signal_Never
                     \/ /\ Len(queue) = 1
                        /\ pc[Main] = "signal"
                        /\ \E S \in SUBSET Waiters :
                              /\ S = {} => Waiters = {}
                              /\ pc' = [t \in Threads |-> IF t = Main THEN "qunlock"
                                                 ELSE IF t \in S THEN "lock" ELSE pc[t]]
                        /\ UNCHANGED <<mu, queue, w, ran, spurious>>

\* pthread_cond_signal unblocks at least one of the waiters, if there is one.
Signal == /\ pc[Main] = "signal"
          /\ \E S \in SUBSET Waiters :
                /\ S = {} => Waiters = {}
                /\ pc' = [t \in Threads |-> IF t = Main THEN "qunlock"
                                            ELSE IF t \in S THEN "lock" ELSE pc[t]]
          /\ UNCHANGED <<mu, queue, w, ran, spurious>>

QUnlock == /\ pc[Main] = "qunlock"
           /\ mu' = None
           /\ Goto(Main, "idle")
           /\ UNCHANGED <<queue, w, ran, spurious>>

-----------------------------------------------------------------------------

Worker(t) == Lock(t) \/ Wait(t) \/ Take(t) \/ Unlock(t) \/ DoWork(t)

Producer == QLock \/ Push \/ Signal \/ QUnlock

Next == \/ \E t \in Workers : Worker(t) \/ SpuriousWakeup(t)
        \/ \E j \in Jobs : Post(j)
        \/ Producer

Spec == Init /\ [][Next]_vars

\* A started thread keeps being scheduled and the job function terminates;
\* nothing forces the event loop to delete a key.  Strong fairness for the
\* two lock calls is not needed: a worker that finds the queue empty blocks.
FairSpec == Spec /\ WF_vars(Producer) /\ \A t \in Workers : WF_vars(Worker(t))

-----------------------------------------------------------------------------

PcOK == /\ pc \in [Threads -> {"lock", "test", "wait", "unlock", "work", "idle",
                               "qlock", "push", "signal", "qunlock"}]
        /\ \A t \in Workers : pc[t] \in {"lock", "test", "wait", "unlock", "work"}
        /\ pc[Main] \in {"idle", "qlock", "push", "signal", "qunlock"}

\* Types of the pool's state and of each thread's program counter.
TypeOK == /\ mu \in Threads \cup {None}
          /\ queue \in Seq(Jobs)
          /\ PcOK
          /\ w \in [Threads -> Jobs \cup {None}]
          /\ ran \in [Jobs -> Nat]
          /\ spurious \in Nat

\* A thread between lock and unlock is the owner of mu, so the deque, which
\* has no protection of its own, is touched by one thread at a time.
InCritical(t) == pc[t] \in {"test", "unlock", "push", "signal", "qunlock"}

MutualExclusion == \A t \in Threads : InCritical(t) <=> mu = t

\* Nobody runs or drops a job twice: a job is in at most one place, be it a
\* slot of the deque, a thread's local Work, or the set of executed jobs.
AtMostOnce ==
    /\ \A i, k \in DOMAIN queue : queue[i] = queue[k] => i = k
    /\ \A j \in Jobs :
          /\ ran[j] <= 1
          /\ \A t \in Threads : w[t] = j =>
                /\ ran[j] = 0
                /\ \A u \in Threads : w[u] = j => u = t
                /\ \A i \in DOMAIN queue : queue[i] # j
          /\ \A i \in DOMAIN queue : queue[i] = j => ran[j] = 0

\* No wakeup is lost or wasted: while some worker sleeps on not_empty, there
\* is an awake worker for every queued job (the job just pushed excepted,
\* until its signal is sent), so a long job never keeps another one waiting.
Unsignalled == IF pc[Main] = "signal" THEN 1 ELSE 0

WorkConserving ==
    Waiters # {} => Len(queue) <= Cardinality(Awake) + Unsignalled

\* Once accepted, a job is eventually executed.
EveryJobRuns == \A j \in Jobs : (j \in Posted) ~> (ran[j] = 1)

\* The pool implements the abstract job queue, in FIFO order of acceptance.
InHand == {j \in Jobs : \E t \in Workers : w[t] = j}

Abstract == INSTANCE JobQueue WITH pending <- queue, running <- InHand,
                                   finished <- {j \in Jobs : ran[j] > 0}

ImplementsJobQueue == Abstract!JSpec
=============================================================================
