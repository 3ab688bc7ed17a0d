------------------------------ MODULE CartJobs ------------------------------
(***************************************************************************)
(* What the cart chip's main loop promises about its job queue: jobs are   *)
(* run one at a time in the order they were posted, and $1FE6 bit 14 says  *)
(* "a job is queued" the whole time, the running job included.             *)
(* firmware/core/dispatch/jobs.c states it for the original chip; Levels   *)
(* is shown to implement it on interrupts, JobRing on a ring of slots.     *)
(***************************************************************************)
EXTENDS Sequences

CONSTANTS Job          \* the kinds of job a post can queue

VARIABLES queue,       \* the jobs posted and not finished, the running one first
          running,     \* the job at the head has been started
          pending      \* $1FE6 bit 14, on which the 68000 spins

cartVars == <<queue, running, pending>>

\* App init leaves bit 14 set although nothing is queued.
CartInit == queue = <<>> /\ running = FALSE /\ pending = TRUE

Post(j) == /\ queue' = Append(queue, j)
           /\ pending' = TRUE
           /\ UNCHANGED running

\* F4 posts two jobs at once.
PostTwo(i, j) == /\ queue' = queue \o <<i, j>>
                 /\ pending' = TRUE
                 /\ UNCHANGED running

Start == /\ queue # <<>> /\ ~running
         /\ running' = TRUE
         /\ UNCHANGED <<queue, pending>>

Finish == /\ running
          /\ queue' = Tail(queue)
          /\ running' = FALSE
          /\ pending' = (Tail(queue) # <<>>)

CartNext == \/ \E j \in Job : Post(j)
            \/ \E i, j \in Job : PostTwo(i, j)
            \/ Start
            \/ Finish

CartSpec == /\ CartInit /\ [][CartNext]_cartVars
            /\ WF_cartVars(Start) /\ WF_cartVars(Finish)
=============================================================================
