------------------------------ MODULE JobQueue ------------------------------
(***************************************************************************)
(* A BullMQ queue whose worker runs one job at a time, as a sequence of    *)
(* jobs, the active one at its head.  queue.service.ts sets neither        *)
(* lockDuration, nor stalledInterval, nor maxStalledCount.                 *)
(*                                                                         *)
(* A process that dies leaves its job active.  BullMQ puts such a job back *)
(* ahead of the waiting ones, but only once its lock has run out and a     *)
(* check for stalled jobs has found it: until then the worker of the next  *)
(* process takes the jobs that wait.                                       *)
(***************************************************************************)
EXTENDS Naturals, Sequences

CONSTANT MaxStalls   \* BullMQ's maxStalledCount (its default, 1)

\* The next job of q: the first that has never stalled, or a job before it,
\* should that have been put back in the meantime.
Startable(q) == {i \in 1 .. Len(q) : \A j \in 1 .. i - 1 : q[j].stalls > 0}

Start(q, i) == <<q[i]>> \o SubSeq(q, 1, i - 1) \o SubSeq(q, i + 1, Len(q))

\* The process dies with the head of q active; the job may stall MaxStalls times.
Restall(q) ==
  IF Head(q).stalls < MaxStalls THEN [q EXCEPT ![1].stalls = @ + 1] ELSE Tail(q)
=============================================================================
