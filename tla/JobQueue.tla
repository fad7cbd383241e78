------------------------------ MODULE JobQueue ------------------------------
(***************************************************************************)
(* What server/14/thread_pool.cpp promises to its caller: every job that   *)
(* thread_pool_queue accepted is started once, in the order of acceptance, *)
(* is run by one worker, and finishes once.  Threads, the mutex and the    *)
(* condition variable do not exist at this level.                          *)
(***************************************************************************)
EXTENDS Sequences

CONSTANT Jobs           \* the arguments handed to thread_pool_queue

VARIABLES pending,      \* accepted jobs, oldest first
          running,      \* jobs a worker has taken and not finished
          finished      \* jobs whose function returned

jobVars == <<pending, running, finished>>

Known == {pending[i] : i \in DOMAIN pending} \cup running \cup finished

JInit == pending = <<>> /\ running = {} /\ finished = {}

Accept(j) == /\ j \notin Known
             /\ pending' = Append(pending, j)
             /\ UNCHANGED <<running, finished>>

Start == /\ pending # <<>>
         /\ pending' = Tail(pending)
         /\ running' = running \cup {Head(pending)}
         /\ UNCHANGED finished

Finish(j) == /\ j \in running
             /\ running' = running \ {j}
             /\ finished' = finished \cup {j}
             /\ UNCHANGED pending

JNext == \/ \E j \in Jobs : Accept(j) \/ Finish(j)
         \/ Start

JSpec == JInit /\ [][JNext]_jobVars
=============================================================================
