---------------------------- MODULE FireAndForget ----------------------------
(***************************************************************************)
(* What the background runner promises its callers, with no channel, no    *)
(* worker goroutine and no shutdown protocol: a job handed over is either  *)
(* taken on or refused, jobs taken on are started at most once and in the   *)
(* order they were taken on, at most Capacity run at a time and at most    *)
(* Backlog wait, and once the runner has stopped nothing is waiting,       *)
(* running or ever started again.                                          *)
(***************************************************************************)
EXTENDS Naturals, Sequences, FiniteSets

CONSTANTS Jobs,      \* the jobs handlers hand over
          Capacity,  \* how many run at a time
          Backlog    \* how many wait to be started

VARIABLES status,    \* status[j]: what has become of job j
          waiting,   \* the jobs taken on and not started yet
          stopped    \* has the runner stopped for good?

vars == <<status, waiting, stopped>>

Status == {"new", "pending", "running", "ended", "refused"}

With(st) == {j \in Jobs : status[j] = st}

Init == /\ status = [j \in Jobs |-> "new"]
        /\ waiting = <<>>
        /\ stopped = FALSE

Accept(j) == /\ status[j] = "new"
             /\ ~stopped
             /\ Len(waiting) < Backlog
             /\ status' = [status EXCEPT ![j] = "pending"]
             /\ waiting' = Append(waiting, j)
             /\ UNCHANGED stopped

Refuse(j) == /\ status[j] = "new"
             /\ status' = [status EXCEPT ![j] = "refused"]
             /\ UNCHANGED <<waiting, stopped>>

Start(j) == /\ waiting # <<>> /\ j = Head(waiting)
            /\ Cardinality(With("running")) < Capacity
            /\ status' = [status EXCEPT ![j] = "running"]
            /\ waiting' = Tail(waiting)
            /\ UNCHANGED stopped

End(j) == /\ status[j] = "running"
          /\ status' = [status EXCEPT ![j] = "ended"]
          /\ UNCHANGED <<waiting, stopped>>

Stop == /\ ~stopped
        /\ waiting = <<>> /\ With("running") = {}
        /\ stopped' = TRUE
        /\ UNCHANGED <<status, waiting>>

Next == \/ \E j \in Jobs : Accept(j) \/ Refuse(j) \/ Start(j) \/ End(j)
        \/ Stop

Spec == Init /\ [][Next]_vars
=============================================================================
