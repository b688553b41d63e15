----------------------------- MODULE Dispatcher ------------------------------
(***************************************************************************)
(* internal/bg: the in-process pool that runs activity, webhook and        *)
(* recent-visit jobs off the request path.  Submit is called by a request  *)
(* goroutine and is two selects, so it is two steps; a worker goroutine    *)
(* receives, runs and recovers; Shutdown closes two channels one after the *)
(* other, waits for the workers or for the grace period, and cancels.      *)
(***************************************************************************)
EXTENDS Naturals, Sequences, FiniteSets

CONSTANTS Jobs,      \* jobs, each handed to Submit by one request goroutine
          NilJobs,   \* those among them that are nil functions
          Awaiting,  \* those that return only when their context is cancelled
          Workers,   \* worker goroutines
          Buffer,    \* capacity of the jobs channel
          Stoppers,  \* goroutines that call Shutdown
          NoJob,     \* a worker blocked on the channel
          Exited     \* a worker whose goroutine has returned

ASSUME JobSubsets == NilJobs \subseteq Jobs /\ Awaiting \subseteq Jobs
\* New clamps both of its arguments to at least one.
ASSUME PoolSize == Workers # {} /\ IsFiniteSet(Workers) /\ Buffer \in Nat \ {0}
ASSUME Sentinels == NoJob \notin Jobs /\ Exited \notin Jobs /\ NoJob # Exited

VARIABLES fate,      \* fate[j]: where Submit(j), or the job itself, has got to
          queue,     \* the buffered channel d.jobs
          worker,    \* worker[w]: the job it runs, NoJob or Exited
          phase,     \* how far the one Shutdown that runs has got
          cancelled, \* has the context every job receives been cancelled?
          stopper,   \* stopper[s]: where the call Shutdown of s has got to
          accepted,  \* history: the jobs in the order the channel took them
          started    \* history: the jobs in the order workers started them

dispatcherVars == <<fate, queue, worker, phase, cancelled, stopper, accepted, started>>

Fates == {"new",       \* Submit not called yet
          "checked",   \* past the first select, before the second
          "queued", "running", "finished", "recovered",
          "ignored", "dropped", "panicked"}

Phases == {"open", "closing", "draining", "expired", "done"}

DispatcherOK == /\ fate \in [Jobs -> Fates]
                /\ queue \in Seq(Jobs) /\ Len(queue) <= Buffer
                /\ worker \in [Workers -> Jobs \cup {NoJob, Exited}]
                /\ phase \in Phases
                /\ cancelled \in BOOLEAN
                /\ stopper \in [Stoppers -> {"idle", "leader", "blocked", "returned"}]
                /\ accepted \in Seq(Jobs)
                /\ started \in Seq(Jobs)

\* The two channels: d.closed is closed first, d.jobs second.
ClosedChanClosed == phase # "open"
JobsChanClosed == phase \notin {"open", "closing"}

AllExited == \A w \in Workers : worker[w] = Exited

DispatcherInit == /\ fate = [j \in Jobs |-> "new"]
                  /\ queue = <<>>
                  /\ worker = [w \in Workers |-> NoJob]
                  /\ phase = "open"
                  /\ cancelled = FALSE
                  /\ stopper = [s \in Stoppers |-> "idle"]
                  /\ accepted = <<>>
                  /\ started = <<>>

-----------------------------------------------------------------------------
(* Submit.                                                                 *)

Becomes(j, f) == fate' = [fate EXCEPT ![j] = f]

\* A nil job, or a job submitted once d.closed is closed, goes no further.
SubmitCheck(j) ==
  /\ fate[j] = "new"
  /\ Becomes(j, IF j \in NilJobs \/ ClosedChanClosed THEN "ignored" ELSE "checked")
  /\ UNCHANGED <<queue, worker, phase, cancelled, stopper, accepted, started>>

\* The second select: Go picks at random among the cases that are ready, and
\* a send case on a closed channel is ready and panics when picked.
SendReadyAfterClose == Len(queue) < Buffer
SendReady == ~JobsChanClosed /\ Len(queue) < Buffer

Enqueue(j) ==
  /\ fate[j] = "checked"
  /\ SendReady
  /\ Becomes(j, "queued")
  /\ queue' = Append(queue, j)
  /\ accepted' = Append(accepted, j)
  /\ UNCHANGED <<worker, phase, cancelled, stopper, started>>

SeeClosed(j) ==
  /\ fate[j] = "checked"
  /\ ClosedChanClosed
  /\ Becomes(j, "ignored")
  /\ UNCHANGED <<queue, worker, phase, cancelled, stopper, accepted, started>>

SendOnClosed(j) ==
  /\ fate[j] = "checked"
  /\ JobsChanClosed
  /\ Becomes(j, "panicked")
  /\ UNCHANGED <<queue, worker, phase, cancelled, stopper, accepted, started>>

DropMissingDefault(j) ==
  /\ fate[j] = "checked" /\ ClosedChanClosed
  /\ Becomes(j, "dropped")
  /\ UNCHANGED <<queue, worker, phase, cancelled, stopper, accepted, started>>
Drop(j) ==
  /\ fate[j] = "checked"
  /\ ~SendReady
  /\ ~ClosedChanClosed
  /\ Becomes(j, "dropped")
  /\ UNCHANGED <<queue, worker, phase, cancelled, stopper, accepted, started>>

SubmitSend(j) == Enqueue(j) \/ SeeClosed(j) \/ SendOnClosed(j) \/ Drop(j)

-----------------------------------------------------------------------------
(* The worker goroutine.                                                   *)

TakeNewest(w) ==
  LET last == queue[Len(queue)] IN
  /\ worker[w] = NoJob /\ queue # <<>>
  /\ worker' = [worker EXCEPT ![w] = last]
  /\ Becomes(last, "running")
  /\ queue' = SubSeq(queue, 1, Len(queue) - 1)
  /\ started' = Append(started, last)
  /\ UNCHANGED <<phase, cancelled, stopper, accepted>>
Take(w) ==
  /\ worker[w] = NoJob
  /\ queue # <<>>
  /\ worker' = [worker EXCEPT ![w] = Head(queue)]
  /\ Becomes(Head(queue), "running")
  /\ queue' = Tail(queue)
  /\ started' = Append(started, Head(queue))
  /\ UNCHANGED <<phase, cancelled, stopper, accepted>>

\* The job returns, or panics and run() recovers; either way the worker goes
\* back to its channel.  A job of Awaiting does neither until it is cancelled.
Return(w, f) ==
  /\ worker[w] \in Jobs
  /\ worker[w] \in Awaiting => cancelled
  /\ Becomes(worker[w], f)
  /\ worker' = [worker EXCEPT ![w] = NoJob]
  /\ UNCHANGED <<queue, phase, cancelled, stopper, accepted, started>>

Finish(w) == Return(w, "finished")
RecoverNotDeferred(w) ==
  /\ worker[w] \in Jobs
  /\ Becomes(worker[w], "recovered")
  /\ worker' = [worker EXCEPT ![w] = Exited]
  /\ UNCHANGED <<queue, phase, cancelled, stopper, accepted, started>>
Recover(w) == Return(w, "recovered")

\* range over a closed and empty channel ends; the deferred wg.Done runs.
ExitOnClosed(w) ==
  /\ worker[w] = NoJob /\ ClosedChanClosed
  /\ worker' = [worker EXCEPT ![w] = Exited]
  /\ UNCHANGED <<fate, queue, phase, cancelled, stopper, accepted, started>>
Exit(w) ==
  /\ worker[w] = NoJob
  /\ queue = <<>> /\ JobsChanClosed
  /\ worker' = [worker EXCEPT ![w] = Exited]
  /\ UNCHANGED <<fate, queue, phase, cancelled, stopper, accepted, started>>

-----------------------------------------------------------------------------
(* Shutdown, inside once.Do: the first caller runs it, later callers wait. *)

CallShutdown(s) ==
  /\ stopper[s] = "idle"
  /\ IF phase = "open"
     THEN /\ stopper' = [stopper EXCEPT ![s] = "leader"]
          /\ phase' = "closing"
     ELSE /\ stopper' = [stopper EXCEPT ![s] = "blocked"]
          /\ UNCHANGED phase
  /\ UNCHANGED <<fate, queue, worker, cancelled, accepted, started>>

CloseJobs ==
  /\ phase = "closing"
  /\ phase' = "draining"
  /\ UNCHANGED <<fate, queue, worker, cancelled, stopper, accepted, started>>

GraceExpiresNoCancel ==
  /\ phase = "draining"
  /\ phase' = "expired"
  /\ UNCHANGED <<fate, queue, worker, cancelled, stopper, accepted, started>>
GraceExpires ==
  /\ phase = "draining"
  /\ phase' = "expired"
  /\ cancelled' = TRUE
  /\ UNCHANGED <<fate, queue, worker, stopper, accepted, started>>

\* <-done: the goroutine in wg.Wait has seen every worker exit.
WorkersDoneNoSecondWait ==
  /\ phase \in {"draining", "expired"}
  /\ phase = "draining" => AllExited
  /\ phase' = "done"
  /\ cancelled' = TRUE
  /\ UNCHANGED <<fate, queue, worker, stopper, accepted, started>>
WorkersDone ==
  /\ phase \in {"draining", "expired"}
  /\ AllExited
  /\ phase' = "done"
  /\ cancelled' = TRUE
  /\ UNCHANGED <<fate, queue, worker, stopper, accepted, started>>

ShutdownReturns(s) ==
  /\ stopper[s] \in {"leader", "blocked"}
  /\ phase = "done"
  /\ stopper' = [stopper EXCEPT ![s] = "returned"]
  /\ UNCHANGED <<fate, queue, worker, phase, cancelled, accepted, started>>

-----------------------------------------------------------------------------
Submitting == \E j \in Jobs : SubmitCheck(j) \/ SubmitSend(j)
Working == \E w \in Workers : Take(w) \/ Finish(w) \/ Recover(w) \/ Exit(w)
Stopping == \/ \E s \in Stoppers : CallShutdown(s) \/ ShutdownReturns(s)
            \/ CloseJobs \/ GraceExpires \/ WorkersDone

DispatcherNext == Submitting \/ Working \/ Stopping

DispatcherSpec == DispatcherInit /\ [][DispatcherNext]_dispatcherVars

(* Fairness.  A request goroutine inside Submit, a worker with something   *)
(* to receive, a job that can return and the goroutine inside Shutdown     *)
(* keep running (the Go scheduler); the grace timer fires.  Nothing obliges *)
(* a handler to call Submit or main to call Shutdown.                      *)
RequestsRun == \A j \in Jobs : WF_dispatcherVars(SubmitSend(j))
WorkersRun == \A w \in Workers : /\ WF_dispatcherVars(Take(w) \/ Exit(w))
                                 /\ WF_dispatcherVars(Finish(w) \/ Recover(w))
ShutdownRuns == /\ WF_dispatcherVars(CloseJobs) /\ WF_dispatcherVars(GraceExpires) /\ WF_dispatcherVars(WorkersDone)
                /\ \A s \in Stoppers : WF_dispatcherVars(ShutdownReturns(s))

DispatcherFairSpec == DispatcherSpec /\ RequestsRun /\ WorkersRun /\ ShutdownRuns

-----------------------------------------------------------------------------
(* Properties.                                                             *)

\* Every job the channel took is started at most once, in the order it was
\* taken, and none is lost between Submit and the workers, whatever happens
\* in Shutdown: what was started, then what waits, is what was accepted.
StartedInOrder == /\ accepted = started \o queue
                  /\ \A m, n \in DOMAIN accepted : accepted[m] = accepted[n] => m = n

\* A panicking job takes no worker down: a worker goroutine ends only once the
\* jobs channel is closed and empty, and no job is enqueued behind its back.
WorkersSurvive == \A w \in Workers : worker[w] = Exited => JobsChanClosed /\ queue = <<>>

\* The types of the pool, with workers that outlive the jobs they run.
DispatcherInv == DispatcherOK /\ WorkersSurvive

\* When any call of Shutdown has returned - the one that ran it or one that
\* waited on the once - no accepted job is waiting or still running.
ReturnedMeansDrained ==
  (\E s \in Stoppers : stopper[s] = "returned")
    => AllExited /\ \A j \in Jobs : fate[j] \notin {"queued", "running"}

\* Submit never blocks the request path (dispatcher.go:72), even when every
\* worker is stuck in a job that never ends and the queue is full.
SubmitReturns == \A j \in Jobs : fate[j] = "checked" ~> fate[j] # "checked"

\* Every job taken into the queue is eventually run to its end or its panic,
\* unless it, or the job of every worker, waits for a cancellation.
Stuck(j) == \/ j \in Awaiting /\ fate[j] = "running"
            \/ ~cancelled /\ \A w \in Workers : worker[w] \in Awaiting
AcceptedRuns ==
  \A j \in Jobs : fate[j] = "queued" ~> fate[j] \in {"finished", "recovered"} \/ Stuck(j)

\* Shutdown returns to every caller even if every worker is in a job that ends
\* only when its context is cancelled (the grace period cancels it).
ShutdownCompletes == \A s \in Stoppers : stopper[s] # "idle" ~> stopper[s] = "returned"

\* "After Shutdown, submits are ignored" (dispatcher.go:74): no Submit may take
\* its request down, however it overlaps with Shutdown.
SubmitsIgnored == \A j \in Jobs : fate[j] # "panicked"

-----------------------------------------------------------------------------
(* The pool implements FireAndForget.                                      *)

AbstractStatus ==
  [j \in Jobs |-> CASE fate[j] \in {"new", "checked"} -> "new"
                    [] fate[j] = "queued" -> "pending"
                    [] fate[j] = "running" -> "running"
                    [] fate[j] \in {"finished", "recovered"} -> "ended"
                    [] OTHER -> "refused"]

Promise == INSTANCE FireAndForget
             WITH status <- AbstractStatus, waiting <- queue, stopped <- (phase = "done"),
                  Capacity <- Cardinality(Workers), Backlog <- Buffer
KeepsPromise == Promise!Spec
=============================================================================
