-------------------------- MODULE Background_proofs --------------------------
(***************************************************************************)
(* Theorems about background jobs, in two parts that share the abstract    *)
(* runner FireAndForget: Dispatcher implements it, and Deliveries runs its *)
(* jobs on it.                                                             *)
(***************************************************************************)
EXTENDS Dispatcher, Deliveries, FiniteSetTheorems, SequenceTheorems, TLAPS

-----------------------------------------------------------------------------
(***************************************************************************)
(* The dispatcher, for any number of jobs, workers and callers of Shutdown *)
(* and any buffer size.                                                    *)
(***************************************************************************)

\* A job the channel has taken is past Submit for good.
AcceptedIsPast == \A n \in DOMAIN accepted : fate[accepted[n]] \notin {"new", "checked"}

\* A job marked as waiting or running really waits or runs somewhere.
Located == /\ \A j \in Jobs : fate[j] = "queued" => \E n \in DOMAIN queue : queue[n] = j
           /\ \A j \in Jobs : fate[j] = "running" => \E w \in Workers : worker[w] = j

\* What a return of Shutdown rests on.
ReturnIsLate == /\ phase = "done" => AllExited
                /\ \A s \in Stoppers : stopper[s] = "returned" => phase = "done"

DispatcherIInv == /\ DispatcherOK
                  /\ StartedInOrder
                  /\ AcceptedIsPast
                  /\ WorkersSurvive
                  /\ Located
                  /\ ReturnIsLate

-----------------------------------------------------------------------------
(* Sequence lemmas.                                                        *)

\* Taking the head of the queue and adding it to the started jobs keeps their
\* concatenation.
LEMMA MoveHead ==
  ASSUME NEW s \in Seq(Jobs), NEW q \in Seq(Jobs), q # <<>>
  PROVE  Append(s, Head(q)) \o Tail(q) = s \o q
<1>1. Head(q) \in Jobs /\ Tail(q) \in Seq(Jobs) /\ Len(q) \in Nat /\ Len(q) > 0
  OBVIOUS
<1>2. Append(s, Head(q)) \in Seq(Jobs) /\ Len(Append(s, Head(q))) = Len(s) + 1
  BY <1>1
<1>3. Len(Append(s, Head(q)) \o Tail(q)) = Len(s \o q)
  BY <1>1, <1>2
<1>4. ASSUME NEW i \in 1..Len(s \o q)
      PROVE  (Append(s, Head(q)) \o Tail(q))[i] = (s \o q)[i]
  <2>1. /\ Len(s \o q) = Len(s) + Len(q) /\ Len(s) \in Nat /\ Len(Tail(q)) = Len(q) - 1
        /\ i \in Nat
    BY <1>1
  <2>2. CASE i <= Len(s)
    BY <1>1, <1>2, <2>1, <2>2
  <2>3. CASE i = Len(s) + 1
    BY <1>1, <1>2, <2>1, <2>3
  <2>4. CASE i > Len(s) + 1
    BY <1>1, <1>2, <2>1, <2>4
  <2>5. i <= Len(s) \/ i = Len(s) + 1 \/ i > Len(s) + 1
    BY <2>1
  <2> QED BY <2>2, <2>3, <2>4, <2>5
<1>5. Append(s, Head(q)) \o Tail(q) \in Seq(Jobs) /\ s \o q \in Seq(Jobs)
  BY <1>1, <1>2
<1>6. QED
  BY <1>3, <1>4, <1>5

\* Appending to the queue appends to the concatenation.
LEMMA AppendToQueue ==
  ASSUME NEW s \in Seq(Jobs), NEW q \in Seq(Jobs), NEW e \in Jobs
  PROVE  Append(s \o q, e) = s \o Append(q, e)
<1>1. <<e>> \in Seq(Jobs) /\ s \o q \in Seq(Jobs)
  OBVIOUS
<1>2. Append(s \o q, e) = (s \o q) \o <<e>> /\ Append(q, e) = q \o <<e>>
  BY <1>1, AppendIsConcat
<1>3. QED
  BY <1>1, <1>2, ConcatAssociative

-----------------------------------------------------------------------------
(* The invariant is inductive.                                             *)

LEMMA InitDispatcherIInv == DispatcherInit => DispatcherIInv
<1> SUFFICES ASSUME DispatcherInit PROVE DispatcherIInv
  OBVIOUS
<1>1. DispatcherOK
  <2>1. <<>> \in Seq(Jobs) /\ Len(<<>>) = 0 /\ 0 <= Buffer
    BY PoolSize, EmptySeq
  <2>2. QED
    BY <2>1 DEF DispatcherInit, DispatcherOK, Fates, Phases
<1>2. StartedInOrder /\ AcceptedIsPast
  BY DEF DispatcherInit, StartedInOrder, AcceptedIsPast
<1>3. WorkersSurvive
  BY Sentinels DEF DispatcherInit, WorkersSurvive
<1>4. Located /\ ReturnIsLate
  BY DEF DispatcherInit, Located, ReturnIsLate
<1>5. QED
  BY <1>1, <1>2, <1>3, <1>4 DEF DispatcherIInv

USE DEF Becomes, ClosedChanClosed, JobsChanClosed

\* The steps of Submit.
LEMMA SubmitKeepsIInv ==
  ASSUME DispatcherIInv, NEW j \in Jobs, SubmitCheck(j) \/ SubmitSend(j)
  PROVE  DispatcherIInv'
<1> USE PoolSize, Sentinels DEF DispatcherIInv
<1>1. CASE Enqueue(j)
  <2> USE <1>1 DEF Enqueue, SendReady
  <2>1. DispatcherOK'
    BY AppendProperties DEF DispatcherOK, Fates, Phases
  <2>2. accepted' = started' \o queue'
    <3>1. started \in Seq(Jobs) /\ queue \in Seq(Jobs) /\ accepted = started \o queue
      BY DEF DispatcherOK, StartedInOrder
    <3>2. Append(started \o queue, j) = started \o Append(queue, j)
      BY <3>1, AppendToQueue
    <3>3. QED
      BY <3>1, <3>2
  <2>3. DOMAIN accepted = 1..Len(accepted) /\ Len(accepted) \in Nat /\ accepted \in Seq(Jobs)
    BY DEF DispatcherOK
  <2>4. /\ DOMAIN accepted' = 1..(Len(accepted) + 1)
        /\ \A n \in DOMAIN accepted : accepted'[n] = accepted[n]
        /\ accepted'[Len(accepted) + 1] = j
    BY <2>3, AppendProperties
  <2>5. \A n \in DOMAIN accepted : accepted[n] # j
    BY DEF AcceptedIsPast
  <2>6. StartedInOrder'
    <3>1. ASSUME NEW m \in DOMAIN accepted', NEW n \in DOMAIN accepted',
                 accepted'[m] = accepted'[n]
          PROVE  m = n
      <4>1. \A i \in DOMAIN accepted' : i \in DOMAIN accepted \/ i = Len(accepted) + 1
        BY <2>3, <2>4
      <4>2. CASE m \in DOMAIN accepted /\ n \in DOMAIN accepted
        BY <2>4, <3>1, <4>2 DEF StartedInOrder
      <4>3. QED
        BY <2>4, <2>5, <3>1, <4>1, <4>2
    <3>2. QED
      BY <2>2, <3>1 DEF StartedInOrder
  <2>7. AcceptedIsPast'
    BY <2>3, <2>4, <2>5 DEF AcceptedIsPast, DispatcherOK
  <2>8. WorkersSurvive'
    BY DEF WorkersSurvive
  <2>9. Located'
    <3>1. /\ DOMAIN queue' = 1..(Len(queue) + 1) /\ DOMAIN queue = 1..Len(queue)
          /\ Len(queue) \in Nat
          /\ \A n \in DOMAIN queue : queue'[n] = queue[n]
          /\ queue'[Len(queue) + 1] = j
      BY AppendProperties DEF DispatcherOK
    <3>2. ASSUME NEW k \in Jobs, fate'[k] = "queued"
          PROVE  \E n \in DOMAIN queue' : queue'[n] = k
      <4>1. CASE k = j
        BY <3>1, <4>1
      <4>2. CASE k # j
        <5>1. fate[k] = "queued"
          BY <3>2, <4>2 DEF DispatcherOK
        <5>2. PICK n \in DOMAIN queue : queue[n] = k
          BY <5>1 DEF Located
        <5>3. QED
          BY <3>1, <5>2
      <4>3. QED
        BY <4>1, <4>2
    <3>3. ASSUME NEW k \in Jobs, fate'[k] = "running"
          PROVE  \E w \in Workers : worker'[w] = k
      <4>1. fate[k] = "running"
        BY <3>3 DEF DispatcherOK
      <4>2. \E w \in Workers : worker[w] = k
        BY <4>1 DEF Located
      <4>3. QED
        BY <4>2
    <3>4. QED
      BY <3>2, <3>3 DEF Located
  <2>10. ReturnIsLate'
    BY DEF ReturnIsLate, AllExited
  <2>11. QED
    BY <2>1, <2>6, <2>7, <2>8, <2>9, <2>10
<1>2. ASSUME NEW f \in {"checked", "ignored", "dropped", "panicked"},
             fate[j] \in {"new", "checked"}, fate' = [fate EXCEPT ![j] = f],
             UNCHANGED <<queue, worker, phase, cancelled, stopper, accepted, started>>
      PROVE  DispatcherIInv'
  <2>1. DispatcherOK'
    BY <1>2 DEF DispatcherOK, Fates
  <2>2. StartedInOrder'
    BY <1>2 DEF StartedInOrder
  <2>3. AcceptedIsPast'
    BY <1>2 DEF AcceptedIsPast, DispatcherOK
  <2>4. WorkersSurvive' /\ ReturnIsLate'
    BY <1>2 DEF WorkersSurvive, ReturnIsLate, AllExited
  <2>5. Located'
    BY <1>2 DEF Located, DispatcherOK
  <2>6. QED
    BY <2>1, <2>2, <2>3, <2>4, <2>5
<1>3. CASE SubmitCheck(j)
  BY <1>2, <1>3 DEF SubmitCheck
<1>4. CASE SeeClosed(j) \/ SendOnClosed(j) \/ Drop(j)
  BY <1>2, <1>4 DEF SeeClosed, SendOnClosed, Drop
<1>5. QED
  BY <1>1, <1>3, <1>4 DEF SubmitSend

\* A worker receives the job at the head of the channel.
LEMMA TakeKeepsIInv ==
  ASSUME DispatcherIInv, NEW w \in Workers, Take(w)
  PROVE  DispatcherIInv'
<1> USE PoolSize, Sentinels DEF DispatcherIInv, Take
<1> DEFINE h == Head(queue)
<1>1. /\ h \in Jobs /\ Tail(queue) \in Seq(Jobs) /\ Len(queue) \in Nat
      /\ Len(Tail(queue)) = Len(queue) - 1 /\ h = queue[1]
      /\ \A i \in 1..Len(Tail(queue)) : Tail(queue)[i] = queue[i + 1]
      /\ DOMAIN queue = 1..Len(queue) /\ DOMAIN queue' = 1..(Len(queue) - 1)
  BY HeadTailProperties DEF DispatcherOK
<1>2. DispatcherOK'
  BY <1>1, AppendProperties DEF DispatcherOK, Fates
<1>3. accepted' = started' \o queue'
  BY MoveHead DEF DispatcherOK, StartedInOrder
<1>4. StartedInOrder'
  BY <1>3 DEF StartedInOrder
<1>5. AcceptedIsPast'
  BY <1>1 DEF AcceptedIsPast, DispatcherOK
<1>6. WorkersSurvive'
  BY DEF WorkersSurvive, DispatcherOK
<1>7. ASSUME NEW k \in Jobs, fate'[k] = "queued"
      PROVE  \E n \in DOMAIN queue' : queue'[n] = k
  <2>1. k # h /\ fate[k] = "queued"
    BY <1>1, <1>7 DEF DispatcherOK
  <2>2. PICK n \in 1..Len(queue) : queue[n] = k
    BY <1>1, <2>1 DEF Located
  <2>3. n # 1 /\ n - 1 \in DOMAIN queue'
    BY <1>1, <2>1, <2>2
  <2>4. queue'[n - 1] = k
    BY <1>1, <2>2, <2>3
  <2>5. QED
    BY <2>3, <2>4
<1>8. ASSUME NEW k \in Jobs, fate'[k] = "running"
      PROVE  \E x \in Workers : worker'[x] = k
  <2>1. CASE k = h
    BY <2>1 DEF DispatcherOK
  <2>2. CASE k # h
    <3>1. fate[k] = "running"
      BY <1>1, <1>8, <2>2 DEF DispatcherOK
    <3>2. PICK x \in Workers : worker[x] = k
      BY <3>1 DEF Located
    <3>3. x # w
      BY <3>2
    <3>4. QED
      BY <3>2, <3>3 DEF DispatcherOK
  <2>3. QED
    BY <2>1, <2>2
<1>9. ReturnIsLate'
  BY DEF ReturnIsLate, AllExited
<1>10. QED
  BY <1>2, <1>4, <1>5, <1>6, <1>7, <1>8, <1>9 DEF Located

\* A job returns, or panics and is recovered; a worker leaves its loop.
LEMMA WorkerKeepsIInv ==
  ASSUME DispatcherIInv, NEW w \in Workers, Finish(w) \/ Recover(w) \/ Exit(w)
  PROVE  DispatcherIInv'
<1> USE PoolSize, Sentinels DEF DispatcherIInv
<1>1. ASSUME NEW f \in {"finished", "recovered"}, Return(w, f)
      PROVE  DispatcherIInv'
  <2> USE <1>1 DEF Return
  <2>1. DispatcherOK'
    BY DEF DispatcherOK, Fates
  <2>2. StartedInOrder' /\ AcceptedIsPast'
    BY DEF StartedInOrder, AcceptedIsPast, DispatcherOK
  <2>3. WorkersSurvive' /\ ReturnIsLate'
    BY DEF WorkersSurvive, ReturnIsLate, AllExited, DispatcherOK
  <2>4. ASSUME NEW k \in Jobs, fate'[k] = "running"
        PROVE  \E x \in Workers : worker'[x] = k
    <3>1. k # worker[w] /\ fate[k] = "running"
      BY <2>4 DEF DispatcherOK
    <3>2. PICK x \in Workers : worker[x] = k
      BY <3>1 DEF Located
    <3>3. QED
      BY <3>1, <3>2 DEF DispatcherOK
  <2>5. Located'
    BY <2>4 DEF Located, DispatcherOK
  <2>6. QED
    BY <2>1, <2>2, <2>3, <2>5
<1>2. CASE Exit(w)
  <2> USE <1>2 DEF Exit
  <2>1. DispatcherOK' /\ StartedInOrder' /\ AcceptedIsPast'
    BY DEF DispatcherOK, StartedInOrder, AcceptedIsPast
  <2>2. WorkersSurvive'
    BY DEF WorkersSurvive, DispatcherOK
  <2>3. ReturnIsLate'
    BY DEF ReturnIsLate, AllExited, DispatcherOK
  <2>4. \A k \in Jobs : fate[k] = "running" => \E x \in Workers : worker'[x] = k
    BY DEF Located, DispatcherOK
  <2>5. Located'
    BY <2>4 DEF Located
  <2>6. QED
    BY <2>1, <2>2, <2>3, <2>5
<1>3. QED
  BY <1>1, <1>2 DEF Finish, Recover

\* The steps of Shutdown.
LEMMA StoppingKeepsIInv ==
  ASSUME DispatcherIInv, Stopping
  PROVE  DispatcherIInv'
<1> USE PoolSize, Sentinels DEF DispatcherIInv
<1>1. ASSUME NEW s \in Stoppers, CallShutdown(s)
      PROVE  DispatcherIInv'
  <2> USE <1>1 DEF CallShutdown
  <2>1. DispatcherOK'
    BY DEF DispatcherOK, Phases
  <2>2. StartedInOrder' /\ AcceptedIsPast' /\ Located'
    BY DEF StartedInOrder, AcceptedIsPast, Located
  <2>3. WorkersSurvive'
    BY DEF WorkersSurvive
  <2>4. ReturnIsLate'
    BY DEF ReturnIsLate, AllExited, DispatcherOK
  <2>5. QED
    BY <2>1, <2>2, <2>3, <2>4
<1>2. ASSUME NEW s \in Stoppers, ShutdownReturns(s)
      PROVE  DispatcherIInv'
  BY <1>2 DEF ShutdownReturns, DispatcherOK, StartedInOrder, AcceptedIsPast,
              WorkersSurvive, Located, ReturnIsLate, AllExited
<1>3. CASE CloseJobs
  BY <1>3 DEF CloseJobs, DispatcherOK, Phases, StartedInOrder, AcceptedIsPast,
              WorkersSurvive, Located, ReturnIsLate, AllExited
<1>4. CASE GraceExpires
  BY <1>4 DEF GraceExpires, DispatcherOK, Phases, StartedInOrder, AcceptedIsPast,
              WorkersSurvive, Located, ReturnIsLate, AllExited
<1>5. CASE WorkersDone
  BY <1>5 DEF WorkersDone, DispatcherOK, Phases, StartedInOrder, AcceptedIsPast,
              WorkersSurvive, Located, ReturnIsLate, AllExited
<1>6. QED
  BY <1>1, <1>2, <1>3, <1>4, <1>5 DEF Stopping

LEMMA StepKeepsDispatcherIInv == DispatcherIInv /\ [DispatcherNext]_dispatcherVars => DispatcherIInv'
<1> SUFFICES ASSUME DispatcherIInv, [DispatcherNext]_dispatcherVars PROVE DispatcherIInv'
  OBVIOUS
<1>1. CASE Submitting
  BY <1>1, SubmitKeepsIInv DEF Submitting
<1>2. CASE Working
  BY <1>2, TakeKeepsIInv, WorkerKeepsIInv DEF Working
<1>3. CASE Stopping
  BY <1>3, StoppingKeepsIInv
<1>4. CASE UNCHANGED dispatcherVars
  BY <1>4 DEF dispatcherVars, DispatcherIInv, DispatcherOK, StartedInOrder, AcceptedIsPast, WorkersSurvive,
              Located, ReturnIsLate, AllExited
<1>5. QED
  BY <1>1, <1>2, <1>3, <1>4 DEF DispatcherNext

THEOREM DispatcherInvariance == DispatcherSpec => []DispatcherIInv
BY InitDispatcherIInv, StepKeepsDispatcherIInv, PTL DEF DispatcherSpec

-----------------------------------------------------------------------------
(* What it gives.                                                          *)

\* The state of the pool is always well formed and the channel never holds
\* more than its capacity (dispatcher.go:42, 84-89).
THEOREM DispatcherTypes == DispatcherSpec => []DispatcherOK
BY DispatcherInvariance, PTL DEF DispatcherIInv

\* Jobs are started at most once, in the order Submit enqueued them, and none
\* is lost in the channel (dispatcher.go:54-59, 84-89).
THEOREM StartsInOrder == DispatcherSpec => []StartedInOrder
BY DispatcherInvariance, PTL DEF DispatcherIInv

\* No panic of a job ends a worker: workers end only when the channel is
\* closed and drained (dispatcher.go:54-70).
THEOREM WorkersOutliveJobs == DispatcherSpec => []WorkersSurvive
BY DispatcherInvariance, PTL DEF DispatcherIInv

\* Both together, as the run checks them (dispatcher.go:40-70).
THEOREM PoolStaysSound == DispatcherSpec => []DispatcherInv
<1>1. DispatcherIInv => DispatcherInv
  BY DEF DispatcherIInv, DispatcherInv
<1> QED
  BY DispatcherInvariance, <1>1, PTL

\* When Shutdown has returned to any caller, no accepted job waits or runs
\* (dispatcher.go:94-108), whatever submits overlapped with it.
THEOREM ShutdownDrains == DispatcherSpec => []ReturnedMeansDrained
<1>1. DispatcherIInv => ReturnedMeansDrained
  <2> SUFFICES ASSUME DispatcherIInv, NEW s \in Stoppers, stopper[s] = "returned"
               PROVE  AllExited /\ \A j \in Jobs : fate[j] \notin {"queued", "running"}
    BY DEF ReturnedMeansDrained
  <2>1. AllExited
    BY DEF DispatcherIInv, ReturnIsLate
  <2>2. queue = <<>>
    BY <2>1, PoolSize DEF DispatcherIInv, WorkersSurvive, AllExited
  <2>3. \A j \in Jobs : fate[j] # "queued"
    BY <2>2 DEF DispatcherIInv, Located
  <2>4. \A j \in Jobs : fate[j] # "running"
    BY <2>1, Sentinels DEF DispatcherIInv, Located, AllExited
  <2>5. QED
    BY <2>1, <2>3, <2>4
<1>2. QED
  BY <1>1, DispatcherInvariance, PTL

-----------------------------------------------------------------------------
(* The pool implements FireAndForget.                                      *)

\* A job has the fate of the place it is in, and a worker of its own.
InPlace == /\ \A n \in DOMAIN queue : fate[queue[n]] = "queued"
           /\ \A w \in Workers : worker[w] \in Jobs => fate[worker[w]] = "running"
           /\ \A w, x \in Workers : worker[w] = worker[x] /\ worker[w] \in Jobs => w = x

LEMMA StepKeepsInPlace ==
  ASSUME DispatcherIInv, InPlace, [DispatcherNext]_dispatcherVars
  PROVE  InPlace'
<1> USE PoolSize, Sentinels DEF DispatcherIInv
<1>1. /\ DOMAIN queue = 1..Len(queue) /\ Len(queue) \in Nat /\ \A n \in DOMAIN queue : queue[n] \in Jobs
      /\ worker \in [Workers -> Jobs \cup {NoJob, Exited}] /\ fate \in [Jobs -> Fates]
  BY DEF DispatcherOK
<1>2. ASSUME NEW j \in Jobs, SubmitCheck(j) \/ SubmitSend(j)
      PROVE  InPlace'
  <2>1. fate[j] \in {"new", "checked"} /\ worker' = worker
    BY <1>2 DEF SubmitCheck, SubmitSend, Enqueue, SeeClosed, SendOnClosed, Drop
  <2>2. \A k \in Jobs : k # j => fate'[k] = fate[k]
    BY <1>1, <1>2 DEF SubmitCheck, SubmitSend, Enqueue, SeeClosed, SendOnClosed, Drop
  <2>3. \A n \in DOMAIN queue' : fate'[queue'[n]] = "queued"
    <3>1. CASE Enqueue(j)
      <4>1. /\ DOMAIN queue' = 1..(Len(queue) + 1) /\ queue'[Len(queue) + 1] = j
            /\ \A n \in DOMAIN queue : queue'[n] = queue[n]
        BY <1>1, <3>1, AppendProperties DEF Enqueue, DispatcherOK
      <4>2. fate'[j] = "queued"
        BY <1>1, <3>1 DEF Enqueue
      <4>3. \A n \in DOMAIN queue : fate'[queue[n]] = "queued"
        BY <1>1, <2>1, <2>2 DEF InPlace
      <4> QED BY <1>1, <4>1, <4>2, <4>3
    <3>2. CASE queue' = queue
      BY <1>1, <2>1, <2>2, <3>2 DEF InPlace
    <3> QED BY <1>2, <3>1, <3>2 DEF SubmitCheck, SubmitSend, SeeClosed, SendOnClosed, Drop
  <2>4. \A w \in Workers : worker[w] \in Jobs => fate'[worker[w]] = "running"
    BY <2>1, <2>2 DEF InPlace
  <2> QED BY <2>1, <2>3, <2>4 DEF InPlace
<1>3. ASSUME NEW w \in Workers, Take(w)
      PROVE  InPlace'
  <2> DEFINE h == Head(queue)
  <2>1. /\ h \in Jobs /\ h = queue[1] /\ 1 \in DOMAIN queue
        /\ DOMAIN queue' = 1..(Len(queue) - 1)
        /\ \A n \in DOMAIN queue' : queue'[n] = queue[n + 1] /\ n + 1 \in DOMAIN queue
    BY <1>1, <1>3, HeadTailProperties DEF DispatcherOK, Take
  <2>2. /\ fate' = [fate EXCEPT ![h] = "running"] /\ worker' = [worker EXCEPT ![w] = h]
        /\ worker[w] = NoJob
    BY <1>3 DEF Take
  <2>3. fate[h] = "queued"
    BY <2>1 DEF InPlace
  <2> HIDE DEF h
  <2>4. \A m, n \in DOMAIN queue : queue[m] = queue[n] => m = n
    <3> SUFFICES ASSUME NEW m \in DOMAIN queue, NEW n \in DOMAIN queue, queue[m] = queue[n]
                 PROVE  m = n
      OBVIOUS
    <3> DEFINE l == Len(started)
    <3>1. /\ l \in Nat /\ DOMAIN accepted = 1..(l + Len(queue))
          /\ \A k \in 1..Len(queue) : accepted[l + k] = queue[k]
      BY <1>1, ConcatProperties DEF DispatcherOK, StartedInOrder
    <3>2. accepted[l + m] = accepted[l + n] /\ l + m \in DOMAIN accepted /\ l + n \in DOMAIN accepted
      BY <1>1, <3>1
    <3>3. l + m = l + n
      BY <3>2 DEF StartedInOrder
    <3> QED BY <1>1, <3>1, <3>3
  <2>5. ASSUME NEW n \in DOMAIN queue'
        PROVE  fate'[queue'[n]] = "queued"
    <3>1. queue'[n] = queue[n + 1] /\ n + 1 \in DOMAIN queue /\ n + 1 # 1
      BY <1>1, <2>1, <2>5
    <3>2. queue[n + 1] # h
      BY <2>1, <2>4, <3>1
    <3> QED BY <1>1, <2>2, <3>1, <3>2 DEF InPlace
  <2>6. ASSUME NEW x \in Workers, worker'[x] \in Jobs
        PROVE  /\ fate'[worker'[x]] = "running"
               /\ x # w => worker'[x] = worker[x] /\ worker[x] # h
    <3>1. CASE x = w
      BY <1>1, <2>1, <2>2, <3>1
    <3>2. CASE x # w
      <4>1. worker'[x] = worker[x]
        BY <1>1, <2>2, <3>2
      <4>2. fate[worker[x]] = "running"
        BY <2>6, <4>1 DEF InPlace
      <4> QED BY <1>1, <2>2, <2>3, <2>6, <4>1, <4>2
    <3> QED BY <3>1, <3>2
  <2>7. worker'[w] = h
    BY <1>1, <2>1, <2>2
  <2>8. ASSUME NEW x \in Workers, NEW y \in Workers, worker'[x] = worker'[y], worker'[x] \in Jobs
        PROVE  x = y
    BY <2>6, <2>7, <2>8 DEF InPlace
  <2> QED BY <2>5, <2>6, <2>8 DEF InPlace
<1>4. ASSUME NEW w \in Workers, NEW f \in {"finished", "recovered"}, Return(w, f)
      PROVE  InPlace'
  <2>1. /\ worker[w] \in Jobs /\ queue' = queue
        /\ fate' = [fate EXCEPT ![worker[w]] = f] /\ worker' = [worker EXCEPT ![w] = NoJob]
    BY <1>4 DEF Return
  <2>2. \A x \in Workers : worker'[x] \in Jobs => x # w /\ worker'[x] = worker[x]
    BY <1>1, <2>1
  <2>3. \A x \in Workers : worker'[x] \in Jobs => worker[x] # worker[w]
    BY <2>1, <2>2 DEF InPlace
  <2>4. \A k \in Jobs : k # worker[w] => fate'[k] = fate[k]
    BY <1>1, <2>1
  <2>5. \A n \in DOMAIN queue : queue[n] # worker[w]
    BY <2>1 DEF InPlace
  <2>6. \A n \in DOMAIN queue : fate'[queue[n]] = "queued"
    BY <1>1, <2>4, <2>5 DEF InPlace
  <2> QED BY <2>1, <2>2, <2>3, <2>4, <2>6 DEF InPlace
<1>5. ASSUME NEW w \in Workers, Exit(w)
      PROVE  InPlace'
  BY <1>1, <1>5 DEF Exit, InPlace
<1>6. CASE Stopping
  BY <1>6 DEF Stopping, CallShutdown, ShutdownReturns, CloseJobs, GraceExpires, WorkersDone, InPlace
<1>7. CASE UNCHANGED dispatcherVars
  BY <1>7 DEF dispatcherVars, InPlace
<1> QED BY <1>2, <1>3, <1>4, <1>5, <1>6, <1>7 DEF DispatcherNext, Submitting, Working, Finish, Recover

\* What a fate is to the abstract runner.
Outcome(f) == CASE f \in {"new", "checked"} -> "new"
                [] f = "queued" -> "pending"
                [] f = "running" -> "running"
                [] f \in {"finished", "recovered"} -> "ended"
                [] OTHER -> "refused"

LEMMA Outcomes ==
  /\ AbstractStatus = [j \in Jobs |-> Outcome(fate[j])]
  /\ AbstractStatus' = [j \in Jobs |-> Outcome(fate'[j])]
  /\ \A f \in {"new", "checked"} : Outcome(f) = "new"
  /\ Outcome("queued") = "pending" /\ Outcome("running") = "running"
  /\ \A f \in {"finished", "recovered"} : Outcome(f) = "ended"
  /\ \A f \in {"ignored", "dropped", "panicked"} : Outcome(f) = "refused"
<1>1. /\ AbstractStatus = [j \in Jobs |-> Outcome(fate[j])]
      /\ AbstractStatus' = [j \in Jobs |-> Outcome(fate'[j])]
  BY DEF AbstractStatus, Outcome
<1>2. \A f \in {"new", "checked"} : Outcome(f) = "new"
  BY DEF Outcome
<1>3. Outcome("queued") = "pending" /\ Outcome("running") = "running"
  BY DEF Outcome
<1>4. \A f \in {"finished", "recovered"} : Outcome(f) = "ended"
  BY DEF Outcome
<1>5. \A f \in {"ignored", "dropped", "panicked"} : Outcome(f) = "refused"
  BY DEF Outcome
<1> QED BY <1>1, <1>2, <1>3, <1>4, <1>5

\* A step of one job is a step of it in the abstract state.
LEMMA StatusStep ==
  ASSUME DispatcherOK, NEW j \in Jobs, NEW f \in Fates, fate' = [fate EXCEPT ![j] = f]
  PROVE  AbstractStatus' = [AbstractStatus EXCEPT ![j] = Outcome(f)]
<1>1. fate \in [Jobs -> Fates]
  BY DEF DispatcherOK
<1>2. \A k \in Jobs : fate'[k] = IF k = j THEN f ELSE fate[k]
  BY <1>1
<1>3. AbstractStatus' = [k \in Jobs |-> Outcome(fate'[k])] /\ AbstractStatus = [k \in Jobs |-> Outcome(fate[k])]
  BY Outcomes
<1>4. \A k \in Jobs : Outcome(fate'[k]) = IF k = j THEN Outcome(f) ELSE Outcome(fate[k])
  BY <1>2
<1> QED BY <1>3, <1>4

\* A worker that is free leaves room to run one more job.
LEMMA RoomToRun ==
  ASSUME DispatcherIInv, InPlace, NEW w \in Workers, worker[w] = NoJob
  PROVE  Cardinality({j \in Jobs : AbstractStatus[j] = "running"}) < Cardinality(Workers)
<1> DEFINE Busy == {x \in Workers : worker[x] \in Jobs}
           Runs == {j \in Jobs : AbstractStatus[j] = "running"}
           f == [x \in Busy |-> worker[x]]
<1>1. Runs = {j \in Jobs : fate[j] = "running"}
  <2>1. \A j \in Jobs : fate[j] \in Fates
    BY DEF DispatcherIInv, DispatcherOK
  <2>2. \A g \in Fates : Outcome(g) = "running" <=> g = "running"
    BY DEF Outcome, Fates
  <2>3. \A j \in Jobs : AbstractStatus[j] = Outcome(fate[j])
    BY Outcomes
  <2> QED BY <2>1, <2>2, <2>3
<1>2. \A j \in Runs : \E x \in Busy : f[x] = j
  BY <1>1 DEF DispatcherIInv, Located
<1>3. \A x \in Busy : f[x] \in Runs
  BY <1>1 DEF InPlace
<1>4. f \in Surjection(Busy, Runs)
  BY <1>2, <1>3 DEF Surjection
<1>5. /\ IsFiniteSet(Workers \ {w}) /\ Cardinality(Workers \ {w}) = Cardinality(Workers) - 1
      /\ Cardinality(Workers) \in Nat /\ Cardinality(Workers \ {w}) \in Nat
  BY PoolSize, FS_RemoveElement, FS_CardinalityType
<1>6. Busy \subseteq Workers \ {w}
  BY Sentinels
<1>7. IsFiniteSet(Busy) /\ Cardinality(Busy) <= Cardinality(Workers \ {w})
  BY <1>5, <1>6, FS_Subset
<1>8. IsFiniteSet(Runs) /\ Cardinality(Runs) <= Cardinality(Busy)
  BY <1>4, <1>7, FS_Surjection
<1>9. Cardinality(Runs) \in Nat /\ Cardinality(Busy) \in Nat
  BY <1>7, <1>8, FS_CardinalityType
<1> HIDE DEF Busy, Runs
<1>10. Cardinality(Runs) < Cardinality(Workers)
  BY <1>5, <1>7, <1>8, <1>9
<1> QED BY <1>10 DEF Runs

\* Every step of a request, a worker or Shutdown is a step of the abstract runner, or none.
LEMMA StepKeepsPromise ==
  ASSUME DispatcherIInv, InPlace, [DispatcherNext]_dispatcherVars
  PROVE  [Promise!Next]_Promise!vars
<1> DEFINE over == phase = "done"
           Same == AbstractStatus' = AbstractStatus /\ queue' = queue /\ over' = over
<1>1. Same => UNCHANGED Promise!vars
  BY DEF Promise!vars
<1>2. /\ DispatcherOK /\ fate \in [Jobs -> Fates] /\ queue \in Seq(Jobs)
      /\ \A j \in Jobs : AbstractStatus[j] = Outcome(fate[j])
  BY Outcomes DEF DispatcherIInv, DispatcherOK
<1>3. ASSUME NEW j \in Jobs, Enqueue(j)
      PROVE  Promise!Accept(j)
  <2>1. fate' = [fate EXCEPT ![j] = "queued"] /\ fate[j] = "checked" /\ "queued" \in Fates
    BY <1>3 DEF Enqueue, Fates
  <2>2. AbstractStatus' = [AbstractStatus EXCEPT ![j] = "pending"]
    BY <1>2, <2>1, StatusStep, Outcomes
  <2>3. AbstractStatus[j] = "new"
    BY <1>2, <2>1, Outcomes
  <2>4. /\ ~over /\ over' = over /\ Len(queue) < Buffer /\ queue' = Append(queue, j)
    BY <1>3 DEF Enqueue, SendReady
  <2> QED BY <2>2, <2>3, <2>4 DEF Promise!Accept
<1>4. ASSUME NEW j \in Jobs, SubmitCheck(j) \/ SubmitSend(j), ~Enqueue(j)
      PROVE  Same \/ Promise!Refuse(j)
  <2>1. PICK f \in {"checked", "ignored", "dropped", "panicked"} : fate' = [fate EXCEPT ![j] = f]
    BY <1>4 DEF SubmitCheck, SubmitSend, SeeClosed, SendOnClosed, Drop
  <2>2. fate[j] \in {"new", "checked"} /\ queue' = queue /\ phase' = phase
    BY <1>4 DEF SubmitCheck, SubmitSend, SeeClosed, SendOnClosed, Drop
  <2>3. AbstractStatus[j] = "new"
    BY <1>2, <2>2, Outcomes
  <2>4. AbstractStatus' = [AbstractStatus EXCEPT ![j] = Outcome(f)]
    <3>1. f \in Fates
      BY DEF Fates
    <3> QED BY <1>2, <2>1, <3>1, StatusStep
  <2>5. CASE f = "checked"
    <3>1. AbstractStatus' = AbstractStatus
      BY <2>3, <2>4, <2>5, Outcomes
    <3> QED BY <2>2, <3>1
  <2>6. CASE f # "checked"
    <3>1. Outcome(f) = "refused"
      BY <2>6, Outcomes
    <3> QED BY <2>2, <2>3, <2>4, <3>1 DEF Promise!Refuse
  <2> QED BY <2>5, <2>6
<1>5. ASSUME NEW w \in Workers, Take(w)
      PROVE  /\ Head(queue) \in Jobs /\ Promise!Start(Head(queue))
  <2> DEFINE h == Head(queue)
  <2>1. h \in Jobs /\ queue # <<>> /\ queue' = Tail(queue) /\ phase' = phase /\ worker[w] = NoJob
    BY <1>2, <1>5 DEF Take
  <2>2. fate' = [fate EXCEPT ![h] = "running"] /\ "running" \in Fates
    BY <1>5 DEF Take, Fates
  <2>3. AbstractStatus' = [AbstractStatus EXCEPT ![h] = "running"]
    BY <1>2, <2>1, <2>2, StatusStep, Outcomes
  <2>4. Cardinality(Promise!With("running")) < Cardinality(Workers)
    BY <2>1, RoomToRun DEF Promise!With
  <2>5. over' = over
    BY <2>1
  <2>6. Promise!Start(h)
    <3>1. Head(queue) = h
      OBVIOUS
    <3> HIDE DEF h
    <3>2. UNCHANGED over
      BY <2>5
    <3> HIDE DEF over
    <3>3. queue # <<>> /\ h = Head(queue) /\ queue' = Tail(queue)
      BY <2>1, <3>1
    <3>4. Promise!Cardinality(Promise!With("running")) < Cardinality(Workers)
      BY <2>4 DEF Promise!Cardinality, Cardinality
    <3> QED BY <2>3, <3>2, <3>3, <3>4, Zenon DEF Promise!Start, over
  <2> QED BY <2>1, <2>6
<1>6. ASSUME NEW w \in Workers, NEW f \in {"finished", "recovered"}, Return(w, f)
      PROVE  worker[w] \in Jobs /\ Promise!End(worker[w])
  <2>1. worker[w] \in Jobs /\ queue' = queue /\ phase' = phase
    BY <1>6 DEF Return
  <2>2. fate' = [fate EXCEPT ![worker[w]] = f] /\ f \in Fates
    BY <1>6 DEF Return, Fates
  <2>3. AbstractStatus[worker[w]] = "running"
    BY <1>2, <2>1, Outcomes DEF InPlace
  <2>4. AbstractStatus' = [AbstractStatus EXCEPT ![worker[w]] = "ended"]
    BY <1>2, <2>1, <2>2, StatusStep, Outcomes
  <2> QED BY <2>1, <2>3, <2>4 DEF Promise!End
<1>7. ASSUME NEW w \in Workers, Exit(w)
      PROVE  Same
  BY <1>7 DEF Exit, AbstractStatus
<1>8. CASE Stopping /\ ~WorkersDone
  <2>1. fate' = fate /\ queue' = queue /\ (phase = "done" <=> phase' = "done")
    BY <1>8 DEF Stopping, CallShutdown, ShutdownReturns, CloseJobs, GraceExpires
  <2>2. Same
    BY <2>1 DEF AbstractStatus
  <2> QED BY <1>1, <2>2
<1>9. CASE WorkersDone
  <2>1. /\ fate' = fate /\ queue' = queue /\ ~over /\ over' = TRUE
        /\ \A w \in Workers : worker[w] = Exited
    BY <1>9 DEF WorkersDone, AllExited
  <2>2. queue = <<>>
    BY <2>1, PoolSize DEF DispatcherIInv, WorkersSurvive
  <2>3. \A j \in Jobs : fate[j] # "running"
    BY <2>1, Sentinels DEF DispatcherIInv, Located
  <2>4. \A g \in Fates : Outcome(g) = "running" <=> g = "running"
    BY DEF Outcome, Fates
  <2>5. \A j \in Jobs : AbstractStatus[j] # "running"
    BY <1>2, <2>3, <2>4
  <2>6. AbstractStatus' = AbstractStatus
    BY <2>1 DEF AbstractStatus
  <2>7. Promise!Stop
    BY <2>1, <2>2, <2>5, <2>6 DEF Promise!Stop, Promise!With
  <2> QED BY <2>7 DEF Promise!Next
<1>10. CASE UNCHANGED dispatcherVars
  <2>1. Same
    BY <1>10 DEF dispatcherVars, AbstractStatus
  <2> QED BY <1>1, <2>1
<1> HIDE DEF Same, over
<1>11. CASE Submitting
  BY <1>1, <1>3, <1>4, <1>11 DEF Submitting, Promise!Next
<1>12. CASE Working
  BY <1>1, <1>5, <1>6, <1>7, <1>12 DEF Working, Finish, Recover, Promise!Next
<1> QED BY <1>8, <1>9, <1>10, <1>11, <1>12 DEF DispatcherNext

\* The pool of channels, goroutines and one Shutdown keeps the promise its callers build on,
\* step by step: jobs run at most once and in order, within the bounds, and never after the
\* stop (dispatcher.go:72-108 to the words of its comments).
THEOREM ImplementsFireAndForget == DispatcherSpec => KeepsPromise
<1>1. DispatcherInit => InPlace /\ Promise!Init
  <2> SUFFICES ASSUME DispatcherInit PROVE InPlace /\ Promise!Init
    OBVIOUS
  <2>1. InPlace
    BY Sentinels DEF DispatcherInit, InPlace
  <2>2. AbstractStatus = [j \in Jobs |-> "new"]
    BY Outcomes DEF DispatcherInit
  <2>3. Promise!Init
    BY <2>2 DEF DispatcherInit, Promise!Init
  <2> QED BY <2>1, <2>3
<1>2. DispatcherIInv /\ InPlace /\ [DispatcherNext]_dispatcherVars => InPlace'
  BY StepKeepsInPlace
<1>3. DispatcherIInv /\ InPlace /\ [DispatcherNext]_dispatcherVars => [Promise!Next]_Promise!vars
  BY StepKeepsPromise
<1> QED
  BY <1>1, <1>2, <1>3, DispatcherInvariance, PTL DEF DispatcherSpec, KeepsPromise, Promise!Spec

-----------------------------------------------------------------------------
(***************************************************************************)
(* The deliveries, for any number of PATCHes, fields, webhooks, visits and *)
(* places in the runner: the history adds up, requests are seen in their   *)
(* order, events reach the subscribed hooks and the latest visits are kept. *)
(***************************************************************************)

-----------------------------------------------------------------------------
(* The inductive invariant, in named parts.                                *)

Typed == TypeOK /\ patch = [p \in Patches |-> patch[p]]

\* The queue of the runner holds the jobs that wait, each once.
QueueOK == /\ \A n \in DOMAIN waiting : status[waiting[n]] = "pending"
           /\ \A m, n \in DOMAIN waiting : waiting[m] = waiting[n] => m = n
           /\ \A j \in DeliveryJobs : status[j] = "pending" => \E n \in DOMAIN waiting : waiting[n] = j

Altered(p, f) == patch[p].wrote[f] # patch[p].read[f]
\* A PATCH hands over one job for each field it has changed, one for the event, and
\* nothing before it has written the issue.
SubmitsOnce(p) ==
  /\ ~Written(p) => \A x \in Entries : status[<<p, x>>] = "new"
  /\ Written(p) => /\ \A x \in patch[p].todo : status[<<p, x>>] = "new"
                   /\ \A f \in Fields : Altered(p, f) <=> \/ f \in patch[p].todo
                                                          \/ status[<<p, f>>] # "new"
  /\ patch[p].at = "answered" => patch[p].todo = {}

\* What was answered when q began stays so, and none of its jobs comes behind one of q.
AfterOK(q) == patch[q].at # "new" => \A p \in patch[q].after : patch[p].at = "answered"
Behind(q, p, x, y) ==
  /\ status[<<q, y>>] \in {"running", "ended"} => status[<<p, x>>] # "pending"
  /\ \A m, n \in DOMAIN waiting : waiting[m] = <<q, y>> /\ waiting[n] = <<p, x>> => n < m
OrderOK(q) ==
  patch[q].at # "new" => \A p \in patch[q].after : \A x, y \in Entries : Behind(q, p, x, y)

\* A row says what its PATCH has read and written, and comes with the end of its job.
LogOK == \A r \in log : r = Row(r.by, r.field) /\ status[<<r.by, r.field>>] = "ended"

\* Each write of a field takes the place of the value that was there: however the writes
\* overlap, the values put in and those taken out balance.
Writers == {p \in Patches : Written(p)}
Puts(f, v) == {p \in Writers : patch[p].wrote[f] = v}
Takes(f, v) == {p \in Writers : patch[p].over[f] = v}
Balanced(f, v) == Cardinality(Puts(f, v)) + (IF first[f] = v THEN 1 ELSE 0)
                    = Cardinality(Takes(f, v)) + (IF issue[f] = v THEN 1 ELSE 0)
LedgerOK == IsFiniteSet(Writers) /\ \A f \in Fields, v \in Values : Balanced(f, v)

\* The job of an event has sent it, or is going to send it, to the hooks of its query.
EventOK(p) ==
  /\ event[p].step = "query" => /\ posted[p] = {} /\ window[p].always \subseteq hooks
                                /\ Written(p) => hooks \subseteq window[p].ever
  /\ event[p].step # "query" => /\ Written(p)
                                /\ posted[p] \cup event[p].left \subseteq window[p].ever
                                /\ window[p].always \subseteq posted[p] \cup event[p].left
  /\ event[p].step = "over" => event[p].left = {}
  /\ posted[p] # {} => status[<<p, "webhook">>] \in {"running", "ended"}

Trimming == {v \in Visits : visit[v].at = "trim"}
VisitsOK == /\ LatestVisitsKept
            /\ IsFiniteSet(Trimming) /\ Len(recent) <= Len(mru)
            /\ \A m, n \in DOMAIN mru : mru[m] = mru[n] => m = n

IInv == /\ Typed /\ QueueOK
        /\ \A p \in Patches : SubmitsOnce(p) /\ AfterOK(p) /\ OrderOK(p) /\ EventOK(p)
        /\ LogOK /\ LedgerOK /\ VisitsOK

-----------------------------------------------------------------------------
(* The runner.                                                             *)

RunnerTyped == status \in [DeliveryJobs -> Pool!Status] /\ waiting \in Seq(DeliveryJobs) /\ stopped \in BOOLEAN

LEMMA AcceptKeeps ==
  ASSUME RunnerTyped, QueueOK, NEW j \in DeliveryJobs, Pool!Accept(j)
  PROVE  /\ RunnerTyped' /\ QueueOK'
         /\ status[j] = "new" /\ status' = [status EXCEPT ![j] = "pending"]
         /\ Len(waiting) \in Nat /\ DOMAIN waiting = 1..Len(waiting)
         /\ DOMAIN waiting' = 1..(Len(waiting) + 1) /\ waiting'[Len(waiting) + 1] = j
         /\ \A n \in DOMAIN waiting : waiting'[n] = waiting[n]
<1>1. /\ status[j] = "new" /\ status' = [status EXCEPT ![j] = "pending"]
      /\ waiting' = Append(waiting, j) /\ stopped' = stopped
  BY DEF Pool!Accept
<1>2. /\ waiting' \in Seq(DeliveryJobs) /\ Len(waiting') = Len(waiting) + 1
      /\ \A n \in 1..Len(waiting) : waiting'[n] = waiting[n] /\ waiting'[Len(waiting) + 1] = j
      /\ Len(waiting) \in Nat /\ DOMAIN waiting = 1..Len(waiting)
      /\ DOMAIN waiting' = 1..(Len(waiting) + 1) /\ waiting'[Len(waiting) + 1] = j
  BY <1>1, AppendProperties DEF RunnerTyped
<1>3. RunnerTyped'
  BY <1>1, <1>2 DEF RunnerTyped, Pool!Status
<1>4. \A n \in DOMAIN waiting : waiting[n] \in DeliveryJobs /\ waiting[n] # j
  BY <1>1 DEF RunnerTyped, QueueOK
<1>5. QueueOK'
  <2>1. \A n \in DOMAIN waiting' : n \in DOMAIN waiting \/ n = Len(waiting) + 1
    BY <1>2
  <2>2. \A n \in DOMAIN waiting' : status'[waiting'[n]] = "pending"
    BY <1>1, <1>2, <1>4, <2>1 DEF RunnerTyped, QueueOK
  <2>3. \A m, n \in DOMAIN waiting' : waiting'[m] = waiting'[n] => m = n
    BY <1>2, <1>4, <2>1 DEF QueueOK
  <2>4. ASSUME NEW k \in DeliveryJobs, status'[k] = "pending"
        PROVE  \E n \in DOMAIN waiting' : waiting'[n] = k
    <3>1. CASE k = j
      BY <1>2, <3>1
    <3>2. CASE k # j
      <4>1. status[k] = "pending"
        BY <1>1, <2>4, <3>2 DEF RunnerTyped
      <4>2. PICK n \in DOMAIN waiting : waiting[n] = k
        BY <4>1 DEF QueueOK
      <4>3. n \in DOMAIN waiting' /\ waiting'[n] = k
        BY <1>2, <4>2
      <4> QED BY <4>3
    <3> QED BY <3>1, <3>2
  <2> QED BY <2>2, <2>3, <2>4 DEF QueueOK
<1> QED BY <1>1, <1>2, <1>3, <1>5

LEMMA RefuseKeeps ==
  ASSUME RunnerTyped, QueueOK, NEW j \in DeliveryJobs, Pool!Refuse(j)
  PROVE  /\ RunnerTyped' /\ QueueOK'
         /\ status[j] = "new" /\ status' = [status EXCEPT ![j] = "refused"] /\ waiting' = waiting
<1>1. /\ status[j] = "new" /\ status' = [status EXCEPT ![j] = "refused"]
      /\ waiting' = waiting /\ stopped' = stopped
  BY DEF Pool!Refuse
<1>2. RunnerTyped'
  BY <1>1 DEF RunnerTyped, Pool!Status
<1>3. \A n \in DOMAIN waiting : waiting[n] \in DeliveryJobs /\ waiting[n] # j
  BY <1>1 DEF RunnerTyped, QueueOK
<1>4. \A k \in DeliveryJobs : status'[k] = "pending" => status[k] = "pending"
  BY <1>1 DEF RunnerTyped
<1>5. QueueOK'
  BY <1>1, <1>3, <1>4 DEF QueueOK, RunnerTyped
<1> QED BY <1>1, <1>2, <1>5

LEMMA StartKeeps ==
  ASSUME RunnerTyped, QueueOK, NEW j \in DeliveryJobs, Pool!Start(j)
  PROVE  /\ RunnerTyped' /\ QueueOK'
         /\ status[j] = "pending" /\ status' = [status EXCEPT ![j] = "running"]
         /\ 1 \in DOMAIN waiting /\ waiting[1] = j
         /\ \A n \in DOMAIN waiting' : /\ n \in Nat /\ n + 1 \in DOMAIN waiting
                                       /\ waiting'[n] = waiting[n + 1]
<1>1. /\ waiting # <<>> /\ j = Head(waiting) /\ status' = [status EXCEPT ![j] = "running"]
      /\ waiting' = Tail(waiting) /\ stopped' = stopped
  BY DEF Pool!Start
<1>2. /\ Len(waiting) \in Nat /\ DOMAIN waiting = 1..Len(waiting) /\ Len(waiting) # 0
      /\ waiting[1] = j
  BY <1>1 DEF RunnerTyped
<1>3. /\ waiting' \in Seq(DeliveryJobs) /\ Len(waiting') = Len(waiting) - 1
      /\ DOMAIN waiting' = 1..(Len(waiting) - 1)
      /\ \A n \in 1..(Len(waiting) - 1) : waiting'[n] = waiting[n + 1]
  BY <1>1, <1>2, HeadTailProperties DEF RunnerTyped
<1>4. 1 \in DOMAIN waiting /\ \A n \in DOMAIN waiting' : /\ n \in Nat /\ n + 1 \in DOMAIN waiting /\ n + 1 # 1
                                                         /\ waiting'[n] = waiting[n + 1]
  BY <1>2, <1>3
<1>5. RunnerTyped'
  BY <1>1, <1>3 DEF RunnerTyped, Pool!Status
<1>6. QueueOK'
  <2>1. \A n \in DOMAIN waiting' : status'[waiting'[n]] = "pending"
    BY <1>1, <1>2, <1>4 DEF QueueOK, RunnerTyped
  <2>2. \A m, n \in DOMAIN waiting' : waiting'[m] = waiting'[n] => m = n
    BY <1>4 DEF QueueOK
  <2>3. ASSUME NEW k \in DeliveryJobs, status'[k] = "pending"
        PROVE  \E n \in DOMAIN waiting' : waiting'[n] = k
    <3>1. k # j /\ status[k] = "pending"
      BY <1>1, <2>3 DEF RunnerTyped
    <3>2. PICK n \in DOMAIN waiting : waiting[n] = k
      BY <3>1 DEF QueueOK
    <3>3. n - 1 \in DOMAIN waiting' /\ waiting'[n - 1] = k
      BY <1>2, <1>3, <3>1, <3>2
    <3> QED BY <3>3
  <2> QED BY <2>1, <2>2, <2>3 DEF QueueOK
<1>7. status[j] = "pending"
  BY <1>2, <1>4 DEF QueueOK
<1> QED BY <1>1, <1>2, <1>4, <1>5, <1>6, <1>7

LEMMA EndKeeps ==
  ASSUME RunnerTyped, QueueOK, NEW j \in DeliveryJobs, Pool!End(j)
  PROVE  /\ RunnerTyped' /\ QueueOK'
         /\ status[j] = "running" /\ status' = [status EXCEPT ![j] = "ended"] /\ waiting' = waiting
<1>1. /\ status[j] = "running" /\ status' = [status EXCEPT ![j] = "ended"]
      /\ waiting' = waiting /\ stopped' = stopped
  BY DEF Pool!End
<1>2. RunnerTyped'
  BY <1>1 DEF RunnerTyped, Pool!Status
<1>3. \A n \in DOMAIN waiting : waiting[n] \in DeliveryJobs /\ waiting[n] # j
  BY <1>1 DEF RunnerTyped, QueueOK
<1>4. \A k \in DeliveryJobs : status'[k] = "pending" => status[k] = "pending"
  BY <1>1 DEF RunnerTyped
<1>5. QueueOK'
  BY <1>1, <1>3, <1>4 DEF QueueOK, RunnerTyped
<1> QED BY <1>1, <1>2, <1>5

\* A step of the runner that hands over nothing of a PATCH.
Runs == \/ UNCHANGED runner \/ Pool!Stop
        \/ \E j \in DeliveryJobs : Pool!Start(j) \/ Pool!End(j)
        \/ \E v \in Visits : Submit(<<v, "visit">>)

LEMMA EntryJobs ==
  /\ \A p \in Patches, x \in Entries : <<p, x>> \in DeliveryJobs
  /\ \A v \in Visits : <<v, "visit">> \in DeliveryJobs
  /\ \A v \in Visits, p \in Patches, x \in Entries : <<v, "visit">> # <<p, x>>
BY JobsApart DEF DeliveryJobs, Entries

LEMMA RunsKeep ==
  ASSUME RunnerTyped, QueueOK, Runs
  PROVE  /\ RunnerTyped' /\ QueueOK'
         /\ \A j \in DeliveryJobs : /\ status[j] = "ended" => status'[j] = "ended"
                                    /\ status[j] = "running" => status'[j] \in {"running", "ended"}
         /\ \A p \in Patches, x \in Entries : status[<<p, x>>] = "new" <=> status'[<<p, x>>] = "new"
<1>1. CASE UNCHANGED runner \/ Pool!Stop
  <2>1. status' = status /\ waiting' = waiting /\ stopped' \in {stopped, TRUE}
    BY <1>1 DEF runner, Pool!Stop
  <2>2. RunnerTyped' /\ QueueOK'
    BY <2>1 DEF RunnerTyped, QueueOK
  <2> QED BY <2>1, <2>2
<1>2. ASSUME NEW j \in DeliveryJobs, Pool!Start(j) \/ Pool!End(j)
      PROVE  /\ RunnerTyped' /\ QueueOK' /\ status[j] # "new" /\ status[j] # "ended"
             /\ status' = [status EXCEPT ![j] = "running"] \/ status' = [status EXCEPT ![j] = "ended"]
  BY <1>2, StartKeeps, EndKeeps
<1>3. ASSUME NEW v \in Visits, Submit(<<v, "visit">>)
      PROVE  /\ RunnerTyped' /\ QueueOK' /\ status[<<v, "visit">>] = "new"
             /\ \E to \in {"pending", "refused"} : status' = [status EXCEPT ![<<v, "visit">>] = to]
  <2>1. <<v, "visit">> \in DeliveryJobs
    BY EntryJobs
  <2> QED BY <1>3, <2>1, AcceptKeeps, RefuseKeeps DEF Submit
<1>4. CASE \E j \in DeliveryJobs : Pool!Start(j) \/ Pool!End(j)
  <2>1. PICK j \in DeliveryJobs : Pool!Start(j) \/ Pool!End(j)
    BY <1>4
  <2>2. /\ RunnerTyped' /\ QueueOK' /\ status[j] # "new" /\ status[j] # "ended"
        /\ status' = [status EXCEPT ![j] = "running"] \/ status' = [status EXCEPT ![j] = "ended"]
    BY <1>2, <2>1
  <2>3. status[j] = "running" => status' = [status EXCEPT ![j] = "ended"]
    BY <2>1, <2>2, StartKeeps, EndKeeps
  <2> QED BY <2>2, <2>3, EntryJobs DEF RunnerTyped
<1>5. CASE \E v \in Visits : Submit(<<v, "visit">>)
  <2>1. PICK v \in Visits : Submit(<<v, "visit">>)
    BY <1>5
  <2>2. /\ RunnerTyped' /\ QueueOK' /\ status[<<v, "visit">>] = "new"
        /\ \E to \in {"pending", "refused"} : status' = [status EXCEPT ![<<v, "visit">>] = to]
    BY <1>3, <2>1
  <2>3. \A j \in DeliveryJobs : j # <<v, "visit">> => status'[j] = status[j]
    BY <2>2 DEF RunnerTyped
  <2> QED BY <2>2, <2>3, EntryJobs
<1> QED BY <1>1, <1>4, <1>5 DEF Runs
-----------------------------------------------------------------------------
(* The order of the jobs.                                                  *)

\* A step of the runner for a job j keeps the jobs of p ahead of those of q, unless the
\* job of p is only now handed over.
LEMMA BehindKept ==
  ASSUME RunnerTyped, QueueOK, NEW q \in Patches, NEW p \in Patches, NEW x \in Entries, NEW y \in Entries,
         Behind(q, p, x, y), NEW j \in DeliveryJobs,
         \/ Submit(j) /\ j # <<p, x>>
         \/ Pool!Start(j) \/ Pool!End(j)
  PROVE  Behind(q, p, x, y)'
<1>1. <<q, y>> \in DeliveryJobs /\ <<p, x>> \in DeliveryJobs
  BY EntryJobs
<1>2. CASE Pool!Accept(j) /\ j # <<p, x>>
  <2>1. /\ status' = [status EXCEPT ![j] = "pending"]
        /\ Len(waiting) \in Nat /\ DOMAIN waiting = 1..Len(waiting)
        /\ DOMAIN waiting' = 1..(Len(waiting) + 1) /\ waiting'[Len(waiting) + 1] = j
        /\ \A n \in DOMAIN waiting : waiting'[n] = waiting[n]
    BY <1>2, AcceptKeeps
  <2>2. status'[<<q, y>>] \in {"running", "ended"} => status'[<<p, x>>] # "pending"
    BY <1>1, <1>2, <2>1 DEF Behind, RunnerTyped
  <2>3. ASSUME NEW m \in DOMAIN waiting', NEW n \in DOMAIN waiting',
               waiting'[m] = <<q, y>>, waiting'[n] = <<p, x>>
        PROVE  n < m
    <3>1. n \in DOMAIN waiting /\ waiting[n] = <<p, x>>
      <4>1. n # Len(waiting) + 1
        BY <1>2, <2>1, <2>3
      <4>2. n \in 1..(Len(waiting) + 1)
        BY <2>1
      <4>3. n \in DOMAIN waiting
        BY <2>1, <4>1, <4>2
      <4> QED BY <2>1, <2>3, <4>3
    <3>2. CASE m \in DOMAIN waiting
      BY <2>1, <2>3, <3>1, <3>2 DEF Behind
    <3>3. CASE m = Len(waiting) + 1
      BY <2>1, <3>1, <3>3
    <3> QED BY <2>1, <3>2, <3>3
  <2> QED BY <2>2, <2>3 DEF Behind
<1>3. CASE Pool!Refuse(j)
  BY <1>1, <1>3, RefuseKeeps DEF Behind, RunnerTyped
<1>4. CASE Pool!End(j)
  BY <1>1, <1>4, EndKeeps DEF Behind, RunnerTyped
<1>5. CASE Pool!Start(j)
  <2>1. /\ status[j] = "pending" /\ status' = [status EXCEPT ![j] = "running"]
        /\ 1 \in DOMAIN waiting /\ waiting[1] = j
        /\ \A n \in DOMAIN waiting' : /\ n \in Nat /\ n + 1 \in DOMAIN waiting
                                      /\ waiting'[n] = waiting[n + 1]
    BY <1>5, StartKeeps
  <2>2. status'[<<q, y>>] \in {"running", "ended"} => status'[<<p, x>>] # "pending"
    <3>1. SUFFICES ASSUME j = <<q, y>>, status'[<<p, x>>] = "pending" PROVE FALSE
      BY <1>1, <2>1 DEF Behind, RunnerTyped
    <3>2. status[<<p, x>>] = "pending"
      BY <1>1, <2>1, <3>1 DEF RunnerTyped
    <3>3. PICK n \in DOMAIN waiting : waiting[n] = <<p, x>>
      BY <1>1, <3>2 DEF QueueOK
    <3>4. n < 1 /\ n \in 1..Len(waiting)
      BY <2>1, <3>1, <3>3 DEF Behind, RunnerTyped
    <3> QED BY <3>4
  <2>3. ASSUME NEW m \in DOMAIN waiting', NEW n \in DOMAIN waiting',
               waiting'[m] = <<q, y>>, waiting'[n] = <<p, x>>
        PROVE  n < m
    BY <2>1, <2>3 DEF Behind
  <2> QED BY <2>2, <2>3 DEF Behind
<1> QED BY <1>2, <1>3, <1>4, <1>5 DEF Submit

LEMMA RunsKeepOrder ==
  ASSUME RunnerTyped, QueueOK, NEW q \in Patches, NEW p \in Patches, NEW x \in Entries, NEW y \in Entries,
         Behind(q, p, x, y), Runs
  PROVE  Behind(q, p, x, y)'
<1>1. CASE UNCHANGED runner \/ Pool!Stop
  BY <1>1 DEF Behind, runner, Pool!Stop
<1>2. CASE \E j \in DeliveryJobs : Pool!Start(j) \/ Pool!End(j)
  BY <1>2, BehindKept
<1>3. CASE \E v \in Visits : Submit(<<v, "visit">>)
  BY <1>3, BehindKept, EntryJobs
<1> QED BY <1>1, <1>2, <1>3 DEF Runs

-----------------------------------------------------------------------------
(* The invariant of the runner, the PATCHes and the history.               *)

Handing == /\ \A p \in Patches : SubmitsOnce(p) /\ AfterOK(p) /\ OrderOK(p)
           /\ Typed /\ QueueOK

LEMMA TypedFields ==
  ASSUME Typed
  PROVE  /\ RunnerTyped
         /\ \A p \in Patches : \/ patch[p] \in Patching
                               \/ patch[p] = [at |-> "new"] /\ patch[p].at = "new"
         /\ DOMAIN patch = Patches
BY DEF Typed, TypeOK, RunnerTyped

\* Steps that leave the handlers alone.
LEMMA RunsKeepHanding ==
  ASSUME Handing, Runs, patch' = patch
  PROVE  /\ RunnerTyped' /\ QueueOK'
         /\ \A p \in Patches : SubmitsOnce(p)' /\ AfterOK(p)' /\ OrderOK(p)'
<1>1. RunnerTyped /\ QueueOK
  BY TypedFields DEF Handing
<1>2. /\ RunnerTyped' /\ QueueOK'
      /\ \A p \in Patches, x \in Entries : status[<<p, x>>] = "new" <=> status'[<<p, x>>] = "new"
  BY <1>1, RunsKeep
<1>3. ASSUME NEW p \in Patches PROVE SubmitsOnce(p)' /\ AfterOK(p)' /\ OrderOK(p)'
  <2>1. SubmitsOnce(p) /\ AfterOK(p) /\ OrderOK(p)
    BY DEF Handing
  <2>2. Written(p)' = Written(p) /\ \A f : Altered(p, f)' = Altered(p, f)
    BY DEF Written, Altered
  <2>3. patch[p].at = "new" \/ patch[p].after \subseteq Patches
    BY TypedFields DEF Handing, Patching
  <2>4. Written(p) => patch[p].todo \subseteq Entries
    BY TypedFields DEF Handing, Patching, Written
  <2>5. SubmitsOnce(p)'
    BY <1>2, <2>1, <2>2, <2>4 DEF SubmitsOnce, Entries
  <2>6. OrderOK(p)'
    BY <1>1, <2>1, <2>3, RunsKeepOrder DEF OrderOK
  <2> QED BY <2>1, <2>5, <2>6 DEF AfterOK
<1> QED BY <1>2, <1>3

\* A PATCH begins after those that have been answered, and has handed over nothing.
LEMMA BeginPatchKeepsHanding ==
  ASSUME Handing, NEW p \in Patches, NEW body \in Bodies, BeginPatch(p, body)
  PROVE  \A q \in Patches : SubmitsOnce(q)' /\ AfterOK(q)' /\ OrderOK(q)'
<1> DEFINE Now == {q \in Patches : patch[q].at = "answered"}
<1>1. /\ patch[p].at = "new" /\ UNCHANGED runner
      /\ patch'[p] = [at |-> "read", body |-> body, read |-> issue, wrote |-> issue, over |-> issue,
                      after |-> Now, todo |-> {}]
      /\ \A q \in Patches \ {p} : patch'[q] = patch[q]
  BY TypedFields DEF Handing, BeginPatch
<1>2. status' = status /\ waiting' = waiting
  BY <1>1 DEF runner
<1>3. patch'[p].at = "read" /\ patch'[p].after = Now /\ patch'[p].todo = {}
  BY <1>1
<1> HIDE DEF Now
<1>4. \A x \in Entries : status[<<p, x>>] = "new"
  BY <1>1 DEF Handing, SubmitsOnce, Written
<1>5. SubmitsOnce(p)'
  BY <1>2, <1>3, <1>4 DEF SubmitsOnce, Written
<1>6. AfterOK(p)'
  BY <1>1, <1>3 DEF AfterOK, Now
<1>7. OrderOK(p)'
  <2>1. ASSUME NEW q \in Now, NEW x \in Entries, NEW y \in Entries PROVE Behind(p, q, x, y)'
    <3>1. status'[<<p, y>>] = "new" /\ \A m \in DOMAIN waiting : waiting[m] # <<p, y>>
      BY <1>2, <1>4 DEF Handing, QueueOK
    <3> QED BY <1>2, <3>1 DEF Behind
  <2> QED BY <1>3, <2>1 DEF OrderOK
<1>8. ASSUME NEW q \in Patches, q # p PROVE SubmitsOnce(q)' /\ AfterOK(q)' /\ OrderOK(q)'
  <2>1. SubmitsOnce(q) /\ AfterOK(q) /\ OrderOK(q) /\ patch'[q] = patch[q]
    BY <1>1, <1>8 DEF Handing
  <2>2. SubmitsOnce(q)'
    BY <1>2, <2>1 DEF SubmitsOnce, Written, Altered
  <2>3. OrderOK(q)'
    <3>1. \A o, x, y : Behind(q, o, x, y) => Behind(q, o, x, y)'
      BY <1>2 DEF Behind
    <3> QED BY <2>1, <3>1 DEF OrderOK
  <2>4. patch[q].at = "new" \/ patch[q].after \subseteq Patches
    BY TypedFields DEF Handing, Patching
  <2>5. AfterOK(q)'
    BY <1>1, <2>1, <2>4 DEF AfterOK
  <2> QED BY <2>2, <2>3, <2>5
<1> QED BY <1>5, <1>6, <1>7, <1>8

LEMMA MergedTyped ==
  ASSUME Typed, NEW p \in Patches, patch[p] \in Patching
  PROVE  /\ Merged(p) \in Issue
         /\ \A f \in Fields : Changed(p, f) <=> Merged(p)[f] # patch[p].read[f]
<1>1. patch[p].body \in Bodies /\ patch[p].read \in Issue
  BY DEF Patching
<1>2. PICK S \in SUBSET Fields : patch[p].body \in [S -> Values]
  BY <1>1 DEF Bodies
<1>3. \A f \in DOMAIN patch[p].body : patch[p].body[f] \in Values
  BY <1>2
<1>4. \A f \in Fields : patch[p].read[f] \in Values
  BY <1>1 DEF Issue
<1>5. \A f \in Fields : (IF f \in DOMAIN patch[p].body THEN patch[p].body[f]
                         ELSE patch[p].read[f]) \in Values
  BY <1>3, <1>4
<1>6. Merged(p) \in Issue
  BY <1>5 DEF Merged, Issue
<1>7. \A f \in Fields : f \notin DOMAIN patch[p].body => Merged(p)[f] = patch[p].read[f]
  BY DEF Merged
<1> QED BY <1>6, <1>7 DEF Changed

LEMMA WriteIssueFields ==
  ASSUME Typed, NEW p \in Patches, WriteIssue(p)
  PROVE  /\ patch[p].at = "read" /\ patch[p] \in Patching
         /\ patch'[p] \in Patching /\ DOMAIN patch' = Patches
         /\ patch'[p].at = "submitting" /\ patch'[p].read = patch[p].read
         /\ patch'[p].wrote = Merged(p) /\ patch'[p].over = issue
         /\ patch'[p].after = patch[p].after /\ patch'[p].todo = ToSubmit(p)
         /\ \A q \in Patches \ {p} : patch'[q] = patch[q]
<1> DEFINE to == ToSubmit(p)
           new == Merged(p)
<1>1. patch[p].at = "read" /\ patch[p] \in Patching
  BY TypedFields DEF WriteIssue
<1>2. new \in Issue /\ issue \in Issue /\ to \in SUBSET Entries
  BY <1>1, MergedTyped DEF Typed, TypeOK, ToSubmit, Entries
<1>3. patch' = [patch EXCEPT ![p].at = "submitting", ![p].wrote = new, ![p].over = issue,
                             ![p].todo = to]
  BY DEF WriteIssue
<1> HIDE DEF to, new
<1>4. patch' = [patch EXCEPT ![p] = [patch[p] EXCEPT !.at = "submitting", !.wrote = new,
                                                     !.over = issue, !.todo = to]]
  BY <1>3, TypedFields
<1>5. patch'[p] = [patch[p] EXCEPT !.at = "submitting", !.wrote = new, !.over = issue, !.todo = to]
  BY <1>4, TypedFields
<1>6. /\ patch'[p] \in Patching
      /\ patch'[p].at = "submitting" /\ patch'[p].read = patch[p].read
      /\ patch'[p].wrote = new /\ patch'[p].over = issue
      /\ patch'[p].after = patch[p].after /\ patch'[p].todo = to
  BY <1>1, <1>2, <1>5 DEF Patching
<1>7. DOMAIN patch' = Patches /\ \A q \in Patches \ {p} : patch'[q] = patch[q]
  BY <1>4, TypedFields
<1> QED BY <1>1, <1>6, <1>7 DEF to, new

\* A handler that hands over nothing leaves the order as it is.
LEMMA HandlerMoves ==
  ASSUME Handing, NEW p \in Patches, status' = status, waiting' = waiting,
         patch[p].at = "read", patch[p] \in Patching, patch'[p].after = patch[p].after,
         \A q \in Patches \ {p} : patch'[q] = patch[q]
  PROVE  \A q \in Patches : AfterOK(q)' /\ OrderOK(q)' /\ (q # p => SubmitsOnce(q)')
<1>1. \A q, o, x, y : Behind(q, o, x, y) => Behind(q, o, x, y)'
  BY DEF Behind
<1>2. ASSUME NEW q \in Patches PROVE AfterOK(q)' /\ OrderOK(q)' /\ (q # p => SubmitsOnce(q)')
  <2>1. SubmitsOnce(q) /\ AfterOK(q) /\ OrderOK(q)
    BY DEF Handing
  <2>2. /\ patch'[q].at # "new" => patch[q].at # "new"
        /\ patch[q].at # "new" => /\ patch'[q].after = patch[q].after
                                  /\ patch[q].after \subseteq Patches
    BY TypedFields DEF Handing, Patching
  <2>3. OrderOK(q)'
    BY <1>1, <2>1, <2>2 DEF OrderOK
  <2>4. AfterOK(q)'
    BY <2>1, <2>2 DEF AfterOK
  <2>5. q # p => SubmitsOnce(q)'
    BY <2>1 DEF SubmitsOnce, Written, Altered
  <2> QED BY <2>3, <2>4, <2>5
<1> QED BY <1>2

LEMMA WriteIssueKeepsHanding ==
  ASSUME Handing, NEW p \in Patches, WriteIssue(p)
  PROVE  \A q \in Patches : SubmitsOnce(q)' /\ AfterOK(q)' /\ OrderOK(q)'
<1>1. Typed /\ QueueOK /\ SubmitsOnce(p) /\ AfterOK(p) /\ OrderOK(p)
  BY DEF Handing
<1>2. /\ patch[p].at = "read" /\ patch[p] \in Patching
      /\ patch'[p].at = "submitting" /\ patch'[p].read = patch[p].read
      /\ patch'[p].wrote = Merged(p) /\ patch'[p].over = issue
      /\ patch'[p].after = patch[p].after /\ patch'[p].todo = ToSubmit(p)
      /\ \A q \in Patches \ {p} : patch'[q] = patch[q]
  BY <1>1, WriteIssueFields
<1>3. status' = status /\ waiting' = waiting
  BY DEF WriteIssue, runner
<1>4. \A x \in Entries : status[<<p, x>>] = "new"
  BY <1>1, <1>2 DEF SubmitsOnce, Written
<1>5. SubmitsOnce(p)'
  <2>1. patch'[p].todo \subseteq Entries
    BY <1>2 DEF ToSubmit, Entries
  <2>2. \A f \in Fields : Altered(p, f)' <=> f \in patch'[p].todo
    BY <1>1, <1>2, MergedTyped, JobsApart DEF Altered, ToSubmit
  <2> QED BY <1>2, <1>3, <1>4, <2>1, <2>2 DEF SubmitsOnce, Written, Entries
<1> QED BY <1>2, <1>3, <1>5, HandlerMoves

LEMMA WriteFailsKeepsHanding ==
  ASSUME Handing, NEW p \in Patches, WriteFails(p)
  PROVE  /\ \A q \in Patches : SubmitsOnce(q)' /\ AfterOK(q)' /\ OrderOK(q)'
         /\ patch'[p] \in Patching /\ DOMAIN patch' = Patches
         /\ patch[p].at = "read" /\ patch'[p].at = "failed"
         /\ \A q \in Patches \ {p} : patch'[q] = patch[q]
<1>1. Typed /\ QueueOK /\ SubmitsOnce(p) /\ AfterOK(p) /\ OrderOK(p)
  BY DEF Handing
<1>2. /\ patch[p].at = "read" /\ patch[p] \in Patching
      /\ patch' = [patch EXCEPT ![p] = [patch[p] EXCEPT !.at = "failed"]]
  BY <1>1, TypedFields DEF WriteFails
<1>3. /\ patch'[p] \in Patching /\ patch'[p].at = "failed" /\ patch'[p].after = patch[p].after
      /\ DOMAIN patch' = Patches /\ \A q \in Patches \ {p} : patch'[q] = patch[q]
  BY <1>1, <1>2, TypedFields DEF Patching
<1>4. status' = status /\ waiting' = waiting
  BY DEF WriteFails, runner
<1>5. SubmitsOnce(p)'
  BY <1>1, <1>2, <1>3, <1>4 DEF SubmitsOnce, Written
<1> QED BY <1>1, <1>2, <1>3, <1>4, <1>5, HandlerMoves

LEMMA SubmitNextFields ==
  ASSUME Handing, NEW p \in Patches, SubmitNext(p)
  PROVE  /\ \E x \in patch[p].todo : Submit(<<p, x>>) /\ patch'[p].todo = patch[p].todo \ {x}
         /\ patch[p].at = "submitting" /\ patch[p] \in Patching
         /\ patch'[p] \in Patching /\ DOMAIN patch' = Patches
         /\ patch'[p].at \in {"submitting", "answered"}
         /\ patch'[p].at = "answered" => patch'[p].todo = {}
         /\ patch'[p].read = patch[p].read /\ patch'[p].wrote = patch[p].wrote
         /\ patch'[p].over = patch[p].over /\ patch'[p].after = patch[p].after
         /\ \A q \in Patches \ {p} : patch'[q] = patch[q]
<1>1. PICK x \in Entries :
        /\ x \in patch[p].todo /\ Submit(<<p, x>>)
        /\ patch' = [patch EXCEPT ![p].todo = @ \ {x},
                                  ![p].at = IF patch[p].todo = {x} THEN "answered" ELSE @]
  BY DEF SubmitNext, Turn
<1>2. patch[p] \in Patching /\ patch[p].at = "submitting"
  BY <1>1, TypedFields DEF Handing, SubmitsOnce, SubmitNext, Written
<1> DEFINE left == patch[p].todo \ {x}
           then == IF patch[p].todo = {x} THEN "answered" ELSE "submitting"
<1>3. patch' = [patch EXCEPT ![p] = [patch[p] EXCEPT !.todo = left, !.at = then]]
  BY <1>1, <1>2, TypedFields DEF Handing
<1>4. /\ left \in SUBSET Entries /\ then \in {"submitting", "answered"}
      /\ then = "answered" => left = {}
  BY <1>2 DEF Patching
<1>5. left = patch[p].todo \ {x}
  OBVIOUS
<1> HIDE DEF left, then
<1>6. patch'[p] = [patch[p] EXCEPT !.todo = left, !.at = then]
  BY <1>3, TypedFields DEF Handing
<1>7. /\ patch'[p] \in Patching /\ patch'[p].todo = left /\ patch'[p].at = then
      /\ patch'[p].read = patch[p].read /\ patch'[p].wrote = patch[p].wrote
      /\ patch'[p].over = patch[p].over /\ patch'[p].after = patch[p].after
  BY <1>2, <1>4, <1>6 DEF Patching
<1>8. DOMAIN patch' = Patches /\ \A q \in Patches \ {p} : patch'[q] = patch[q]
  BY <1>3, TypedFields DEF Handing
<1> QED BY <1>1, <1>2, <1>4, <1>5, <1>7, <1>8

LEMMA SubmitNextKeepsHanding ==
  ASSUME Handing, NEW p \in Patches, SubmitNext(p)
  PROVE  /\ RunnerTyped' /\ QueueOK'
         /\ \A q \in Patches : SubmitsOnce(q)' /\ AfterOK(q)' /\ OrderOK(q)'
         /\ \E x \in Entries, to \in {"pending", "refused"} : /\ status[<<p, x>>] = "new"
                                              /\ status' = [status EXCEPT ![<<p, x>>] = to]
<1>1. RunnerTyped /\ QueueOK /\ SubmitsOnce(p) /\ AfterOK(p) /\ OrderOK(p)
  BY TypedFields DEF Handing
<1>2. PICK x \in patch[p].todo : Submit(<<p, x>>) /\ patch'[p].todo = patch[p].todo \ {x}
  BY SubmitNextFields
<1>3. /\ patch[p].at = "submitting" /\ patch[p] \in Patching
      /\ patch'[p].at \in {"submitting", "answered"}
      /\ patch'[p].at = "answered" => patch'[p].todo = {}
      /\ patch'[p].read = patch[p].read /\ patch'[p].wrote = patch[p].wrote
      /\ patch'[p].after = patch[p].after
      /\ \A q \in Patches \ {p} : patch'[q] = patch[q]
  BY SubmitNextFields
<1>4. x \in Entries /\ <<p, x>> \in DeliveryJobs
  BY <1>3, EntryJobs DEF Patching
<1>5. /\ RunnerTyped' /\ QueueOK' /\ status[<<p, x>>] = "new"
      /\ \E to \in {"pending", "refused"} : status' = [status EXCEPT ![<<p, x>>] = to]
  BY <1>1, <1>2, <1>4, AcceptKeeps, RefuseKeeps DEF Submit
<1>6. PICK to \in {"pending", "refused"} : status' = [status EXCEPT ![<<p, x>>] = to]
  BY <1>5
<1>7. /\ status'[<<p, x>>] # "new"
      /\ \A j \in DeliveryJobs : j # <<p, x>> => status'[j] = status[j]
  BY <1>1, <1>4, <1>6 DEF RunnerTyped
<1>8. \A q \in Patches, y \in Entries : <<q, y>> = <<p, x>> <=> q = p /\ y = x
  OBVIOUS
<1>9. patch[p].todo \subseteq Entries
  BY <1>3 DEF Patching
<1>10. SubmitsOnce(p)'
  <2>1. \A y \in patch'[p].todo : status'[<<p, y>>] = "new"
    BY <1>1, <1>2, <1>3, <1>7, <1>8, <1>9, EntryJobs DEF SubmitsOnce, Written
  <2>2. \A f \in Fields : Altered(p, f)' <=> f \in patch'[p].todo \/ status'[<<p, f>>] # "new"
    BY <1>1, <1>2, <1>3, <1>7, <1>8, EntryJobs DEF SubmitsOnce, Written, Altered, Entries
  <2> QED BY <1>3, <2>1, <2>2 DEF SubmitsOnce, Written
<1>11. ASSUME NEW q \in Patches PROVE AfterOK(q)' /\ OrderOK(q)' /\ (q # p => SubmitsOnce(q)')
  <2>1. SubmitsOnce(q) /\ AfterOK(q) /\ OrderOK(q)
    BY DEF Handing
  <2>2. /\ patch'[q].at # "new" => patch[q].at # "new"
        /\ patch[q].at # "new" => /\ patch'[q].after = patch[q].after
                                  /\ patch[q].after \subseteq Patches
    BY <1>3, TypedFields DEF Handing, Patching
  <2>3. OrderOK(q)'
    <3>1. ASSUME NEW o \in patch[q].after, NEW y \in Entries, NEW z \in Entries, patch[q].at # "new"
          PROVE  Behind(q, o, z, y)'
      <4>1. o \in Patches /\ o # p
        BY <1>3, <2>1, <2>2, <3>1 DEF AfterOK
      <4>2. Behind(q, o, z, y) /\ <<p, x>> # <<o, z>>
        BY <2>1, <3>1, <4>1 DEF OrderOK
      <4> QED BY <1>1, <1>2, <1>4, <4>1, <4>2, BehindKept
    <3> QED BY <2>2, <3>1 DEF OrderOK
  <2>4. AfterOK(q)'
    BY <1>3, <2>1, <2>2 DEF AfterOK
  <2>5. ASSUME q # p PROVE SubmitsOnce(q)'
    <3>1. patch'[q] = patch[q] /\ \A y \in Entries : status'[<<q, y>>] = status[<<q, y>>]
      BY <1>3, <1>7, <1>8, <2>5, EntryJobs
    <3>2. Written(q) => patch[q].todo \subseteq Entries
      BY TypedFields DEF Handing, Patching, Written
    <3> QED BY <2>1, <3>1, <3>2 DEF SubmitsOnce, Written, Altered, Entries
  <2> QED BY <2>3, <2>4, <2>5
<1> QED BY <1>4, <1>5, <1>6, <1>10, <1>11

\* What a PATCH has read and written stays, whatever the step.
PatchesStay ==
  \A p \in Patches : Written(p) => /\ Written(p)' /\ patch'[p].read = patch[p].read
                                   /\ patch'[p].wrote = patch[p].wrote
                                   /\ patch'[p].over = patch[p].over

-----------------------------------------------------------------------------
(* The history.                                                            *)

LEMMA LogKept ==
  ASSUME Handing, LogOK, log' = log, PatchesStay,
         \A j \in DeliveryJobs : status[j] = "ended" => status'[j] = "ended"
  PROVE  LogOK'
<1>1. ASSUME NEW r \in log
      PROVE  r = Row(r.by, r.field)' /\ status'[<<r.by, r.field>>] = "ended"
  <2>1. r = Row(r.by, r.field) /\ status[<<r.by, r.field>>] = "ended"
    BY DEF LogOK
  <2>2. r.by \in Patches /\ r.field \in Fields
    BY DEF Handing, Typed, TypeOK, Rows
  <2>3. Written(r.by)
    BY <2>1, <2>2 DEF Handing, SubmitsOnce, Entries
  <2>4. Row(r.by, r.field)' = Row(r.by, r.field)
    BY <2>2, <2>3 DEF PatchesStay, Row
  <2> QED BY <2>1, <2>2, <2>4, EntryJobs DEF Entries
<1> QED BY <1>1 DEF LogOK

LEMMA LedgerKept ==
  ASSUME LedgerOK, Writers' = Writers, PatchesStay, issue' = issue, first' = first
  PROVE  LedgerOK'
<1>1. \A f, v : Puts(f, v)' = Puts(f, v) /\ Takes(f, v)' = Takes(f, v)
  BY DEF Puts, Takes, PatchesStay, Writers
<1> QED BY <1>1 DEF LedgerOK, Balanced

LEMMA CountOneMore ==
  ASSUME NEW S, NEW T, NEW p, IsFiniteSet(S), p \notin S, NEW c \in BOOLEAN,
         T = S \cup (IF c THEN {p} ELSE {})
  PROVE  Cardinality(S) \in Nat /\ Cardinality(T) = Cardinality(S) + (IF c THEN 1 ELSE 0)
<1>1. Cardinality(S) \in Nat
  BY FS_CardinalityType
<1>2. Cardinality(S \cup {p}) = Cardinality(S) + 1
  BY FS_AddElement
<1>3. CASE c
  BY <1>1, <1>2, <1>3
<1>4. CASE ~c
  <2>1. T = S
    BY <1>4
  <2> QED BY <1>1, <1>4, <2>1
<1> QED BY <1>3, <1>4

LEMMA LedgerWritten ==
  ASSUME LedgerOK, Typed, NEW p \in Patches, WriteIssue(p)
  PROVE  LedgerOK' /\ PatchesStay
<1>1. /\ patch[p].at = "read" /\ patch[p] \in Patching
      /\ patch'[p].at = "submitting" /\ patch'[p].wrote = Merged(p) /\ patch'[p].over = issue
      /\ \A q \in Patches \ {p} : patch'[q] = patch[q]
  BY WriteIssueFields
<1>2. issue' = Merged(p) /\ first' = first
  BY DEF WriteIssue
<1>3. Writers' = Writers \cup {p} /\ p \notin Writers
  BY <1>1 DEF Writers, Written
<1>4. PatchesStay
  BY <1>1 DEF PatchesStay, Written
<1>5. IsFiniteSet(Writers) /\ IsFiniteSet(Writers')
  BY <1>3, FS_AddElement DEF LedgerOK
<1>6. ASSUME NEW f \in Fields, NEW v \in Values PROVE Balanced(f, v)'
  <2>1. /\ Puts(f, v)' = Puts(f, v) \cup (IF Merged(p)[f] = v THEN {p} ELSE {})
        /\ Takes(f, v)' = Takes(f, v) \cup (IF issue[f] = v THEN {p} ELSE {})
        /\ p \notin Puts(f, v) /\ p \notin Takes(f, v)
    BY <1>1, <1>3 DEF Puts, Takes, Writers
  <2>2. IsFiniteSet(Puts(f, v)) /\ IsFiniteSet(Takes(f, v))
    BY <1>5, FS_Subset DEF Puts, Takes
  <2>3. /\ Cardinality(Puts(f, v)) \in Nat
        /\ Cardinality(Puts(f, v)') = Cardinality(Puts(f, v)) + (IF Merged(p)[f] = v THEN 1 ELSE 0)
    BY <2>1, <2>2, CountOneMore
  <2>4. /\ Cardinality(Takes(f, v)) \in Nat
        /\ Cardinality(Takes(f, v)') = Cardinality(Takes(f, v)) + (IF issue[f] = v THEN 1 ELSE 0)
    BY <2>1, <2>2, CountOneMore
  <2>5. Balanced(f, v)
    BY DEF LedgerOK
  <2> QED BY <1>2, <2>3, <2>4, <2>5 DEF Balanced
<1> QED BY <1>4, <1>5, <1>6 DEF LedgerOK

\* Each row is the one of a PATCH that has changed the field, and each such PATCH has one,
\* when the history is accounted for.
LEMMA RowsOfWriters ==
  ASSUME Handing, LogOK, NEW f \in Fields, Accounted(f), NEW S, NEW R,
         S \subseteq {p \in Writers : Altered(p, f)}, IsFiniteSet(S),
         R = {r \in log : r.field = f /\ r.by \in S}
  PROVE  Cardinality(R) = Cardinality(S)
<1> DEFINE g == [p \in S |-> Row(p, f)]
<1>1. ASSUME NEW p \in S PROVE Row(p, f) \in R
  <2>1. p \in Patches /\ Written(p) /\ Altered(p, f)
    BY DEF Writers
  <2>2. f \in patch[p].todo \/ status[<<p, f>>] # "new"
    BY <2>1 DEF Handing, SubmitsOnce
  <2>3. Logged(p, f)
    BY <2>1, <2>2 DEF Accounted, Waits
  <2>4. PICK r \in log : r.by = p /\ r.field = f
    BY <2>3 DEF Logged
  <2>5. r = Row(p, f)
    BY <2>4 DEF LogOK
  <2> QED BY <2>4, <2>5
<1>2. \A p, q \in S : Row(p, f) = Row(q, f) => p = q
  BY DEF Row
<1>3. ASSUME NEW r \in R PROVE r.by \in S /\ r = Row(r.by, f)
  BY DEF LogOK
<1>4. g \in [S -> R] /\ \A p \in S : g[p] = Row(p, f)
  BY <1>1
<1> HIDE DEF g
<1>5. g \in Injection(S, R)
  BY <1>2, <1>4 DEF Injection, IsInjective
<1>6. g \in Surjection(S, R)
  BY <1>3, <1>4 DEF Surjection
<1>7. ExistsBijection(S, R)
  BY <1>5, <1>6 DEF ExistsBijection, Bijection
<1> QED BY <1>7, FS_Bijection

\* The balance of the writes is that of the rows: those left out put in what they take out.
LEMMA HistoryAddsUp ==
  ASSUME Handing, LogOK, LedgerOK
  PROVE  HistoryExplainsIssue
<1>1. ASSUME NEW f \in Fields, Accounted(f), NEW v \in Values
      PROVE  Cardinality({r \in log : r.field = f /\ r.new = v}) + (IF first[f] = v THEN 1 ELSE 0)
               = Cardinality({r \in log : r.field = f /\ r.old = v}) + (IF issue[f] = v THEN 1 ELSE 0)
  <2> DEFINE A == {p \in Writers : Altered(p, f) /\ patch[p].wrote[f] = v}
             B == {p \in Writers : Altered(p, f) /\ patch[p].read[f] = v}
             C == {p \in Writers : ~Altered(p, f) /\ patch[p].wrote[f] = v}
             news == {r \in log : r.field = f /\ r.new = v}
             olds == {r \in log : r.field = f /\ r.old = v}
  <2>1. \A p \in Writers : patch[p].over[f] = patch[p].read[f]
    BY <1>1 DEF Accounted, Writers
  <2>2. Puts(f, v) = A \cup C /\ A \cap C = {}
    BY DEF Puts
  <2>3. Takes(f, v) = B \cup C /\ B \cap C = {}
    BY <2>1 DEF Takes, Altered
  <2>4. IsFiniteSet(A) /\ IsFiniteSet(B) /\ IsFiniteSet(C)
    BY FS_Subset DEF LedgerOK
  <2>5. ASSUME NEW r \in log, r.field = f
        PROVE  /\ r.by \in Writers /\ Altered(r.by, f)
               /\ r.new = patch[r.by].wrote[f] /\ r.old = patch[r.by].read[f]
    <3>1. r = Row(r.by, f) /\ status[<<r.by, f>>] = "ended" /\ r.by \in Patches
      BY <2>5 DEF LogOK, Handing, Typed, TypeOK, Rows
    <3>2. Written(r.by) /\ Altered(r.by, f)
      BY <3>1 DEF Handing, SubmitsOnce, Entries
    <3>3. r.new = patch[r.by].wrote[f] /\ r.old = patch[r.by].read[f]
      BY <3>1 DEF Row
    <3> QED BY <3>1, <3>2, <3>3 DEF Writers
  <2>6. /\ news = {r \in log : r.field = f /\ r.by \in A}
        /\ olds = {r \in log : r.field = f /\ r.by \in B}
    BY <2>5
  <2>7. /\ A \subseteq {p \in Writers : Altered(p, f)}
        /\ B \subseteq {p \in Writers : Altered(p, f)}
    OBVIOUS
  <2>8. Balanced(f, v)
    BY DEF LedgerOK
  <2> HIDE DEF A, B, C, news, olds
  <2>9. Cardinality(news) = Cardinality(A) /\ Cardinality(olds) = Cardinality(B)
    BY <1>1, <2>4, <2>6, <2>7, RowsOfWriters
  <2>10. /\ Cardinality(Puts(f, v)) = Cardinality(A) + Cardinality(C)
         /\ Cardinality(Takes(f, v)) = Cardinality(B) + Cardinality(C)
         /\ Cardinality(A) \in Nat /\ Cardinality(B) \in Nat /\ Cardinality(C) \in Nat
    <3>1. /\ Cardinality(A) \in Nat /\ Cardinality(B) \in Nat /\ Cardinality(C) \in Nat
          /\ Cardinality({}) = 0
      BY <2>4, FS_CardinalityType, FS_EmptySet
    <3>2. Cardinality(A \cup C) = Cardinality(A) + Cardinality(C) - Cardinality(A \cap C)
      BY <2>4, FS_Union
    <3>3. Cardinality(B \cup C) = Cardinality(B) + Cardinality(C) - Cardinality(B \cap C)
      BY <2>4, FS_Union
    <3>4. Cardinality(A \cap C) = 0 /\ Cardinality(B \cap C) = 0
      BY <2>2, <2>3, <3>1
    <3>5. Cardinality(Puts(f, v)) = Cardinality(A \cup C) /\ Cardinality(Takes(f, v)) = Cardinality(B \cup C)
      BY <2>2, <2>3
    <3> QED BY <3>1, <3>2, <3>3, <3>4, <3>5
  <2>11. Cardinality(news) + (IF first[f] = v THEN 1 ELSE 0)
           = Cardinality(olds) + (IF issue[f] = v THEN 1 ELSE 0)
    BY <2>8, <2>9, <2>10 DEF Balanced
  <2> QED BY <2>11 DEF news, olds
<1> QED BY <1>1 DEF HistoryExplainsIssue

LEMMA RequestsInOrder == ASSUME IInv PROVE InOrder
<1>1. ASSUME NEW q \in Patches, patch[q].at # "new", NEW p \in patch[q].after
      PROVE  /\ \A f \in Fields : Logged(q, f) => ~Waits(p, f)
             /\ posted[q] # {} => ~Waits(p, "webhook")
  <2>1. p \in Patches
    BY <1>1, TypedFields DEF IInv, Patching
  <2>2. patch[p].todo = {}
    BY <1>1, <2>1 DEF IInv, AfterOK, SubmitsOnce
  <2>3. \A x, y \in Entries : status[<<q, y>>] \in {"running", "ended"} => status[<<p, x>>] # "pending"
    BY <1>1 DEF IInv, OrderOK, Behind
  <2>4. \A f \in Fields : Logged(q, f) => status[<<q, f>>] = "ended"
    BY DEF IInv, LogOK, Logged
  <2>5. posted[q] # {} => status[<<q, "webhook">>] \in {"running", "ended"}
    BY DEF IInv, EventOK
  <2> QED BY <2>2, <2>3, <2>4, <2>5 DEF Waits, Entries
<1> QED BY <1>1 DEF InOrder

-----------------------------------------------------------------------------
(* The events.                                                             *)

\* How an event goes on, for its PATCH and for the others.
LEMMA EventsKept ==
  ASSUME NEW P \in SUBSET Patches,
         \A p \in Patches \ P : /\ EventOK(p) /\ event'[p] = event[p] /\ posted'[p] = posted[p]
                                /\ window'[p] = window[p]
                                /\ Written(p) => Written(p)'
                                /\ event[p].step = "query" /\ Written(p)' => Written(p)
                                /\ status[<<p, "webhook">>] \in {"running", "ended"}
                                     => status'[<<p, "webhook">>] \in {"running", "ended"},
         hooks' = hooks
  PROVE  \A p \in Patches \ P : EventOK(p)'
<1> SUFFICES ASSUME NEW p \in Patches \ P PROVE EventOK(p)'
  OBVIOUS
<1>1. /\ EventOK(p) /\ event'[p] = event[p] /\ posted'[p] = posted[p] /\ window'[p] = window[p]
      /\ Written(p) => Written(p)'
      /\ event[p].step = "query" /\ Written(p)' => Written(p)
      /\ status[<<p, "webhook">>] \in {"running", "ended"} => status'[<<p, "webhook">>] \in {"running", "ended"}
  OBVIOUS
<1> QED BY <1>1 DEF EventOK

-----------------------------------------------------------------------------
(* The visits.                                                             *)

Distinct(list) == \A m, n \in DOMAIN list : list[m] = list[n] => m = n
Prefix(s, t) == Len(s) <= Len(t) /\ \A n \in 1..Len(s) : s[n] = t[n]

LEMMA PrefixIsSubSeq ==
  ASSUME NEW S, NEW s \in Seq(S), NEW t \in Seq(S), Len(s) <= Len(t)
  PROVE  s = SubSeq(t, 1, Len(s)) <=> Prefix(s, t)
<1>1. Len(s) \in Nat /\ Len(t) \in Nat /\ \A n \in 1..Len(s) : t[n] \in S
  OBVIOUS
<1>2. /\ SubSeq(t, 1, Len(s)) \in Seq(S) /\ Len(SubSeq(t, 1, Len(s))) = Len(s)
      /\ \A n \in 1..Len(s) : SubSeq(t, 1, Len(s))[n] = t[n]
  BY <1>1, SubSeqProperties
<1> QED BY <1>2, SeqEqual DEF Prefix

\* b, of length m, is the list of length l with e, at place k until now, put in front.
Bumped(list, l, e, k, b, m) ==
  /\ k >= 1 /\ k <= l + 1
  /\ k <= l => list[k] = e /\ m = l
  /\ k > l => m = l + 1 /\ \A n \in 1..l : list[n] # e
  /\ \A n \in 1..m : b[n] = IF n = 1 THEN e ELSE IF n <= k THEN list[n - 1] ELSE list[n]

LEMMA BumpFacts ==
  ASSUME NEW S, NEW list \in Seq(S), NEW e \in S
  PROVE  /\ Place(list, e) \in Int
         /\ Bump(list, e) \in Seq(S)
         /\ Bumped(list, Len(list), e, Place(list, e), Bump(list, e), Len(Bump(list, e)))
<1>1. PICK l \in Nat : l = Len(list) /\ DOMAIN list = 1..l /\ \A n \in 1..l : list[n] \in S
  OBVIOUS
<1>2. PICK k \in Int : /\ k = Place(list, e) /\ k >= 1 /\ k <= l + 1
                       /\ k <= l => list[k] = e
                       /\ k > l => \A n \in 1..l : list[n] # e
  <2>1. CASE \E n \in DOMAIN list : list[n] = e
    <3>1. Place(list, e) \in DOMAIN list /\ list[Place(list, e)] = e
      BY <2>1 DEF Place
    <3> QED BY <1>1, <3>1
  <2>2. CASE ~\E n \in DOMAIN list : list[n] = e
    <3>1. Place(list, e) = l + 1
      BY <1>1, <2>2 DEF Place
    <3> QED BY <1>1, <2>2, <3>1
  <2> QED BY <2>1, <2>2
<1>3. PICK m \in Nat : m = (IF k > l THEN k ELSE l) /\ (k <= l => m = l) /\ (k > l => m = l + 1)
  BY <1>2
<1> DEFINE b == [n \in 1..m |-> IF n = 1 THEN e ELSE IF n <= k THEN list[n - 1] ELSE list[n]]
<1>4. Bump(list, e) = b
  BY <1>1, <1>2, <1>3 DEF Bump
<1>5. ASSUME NEW n \in 1..m
      PROVE (IF n = 1 THEN e ELSE IF n <= k THEN list[n - 1] ELSE list[n]) \in S
  <2>1. n # 1 /\ n <= k => n - 1 \in 1..l
    BY <1>2, <1>3
  <2>2. n > k => n \in 1..l
    BY <1>2, <1>3
  <2> QED BY <1>1, <1>2, <2>1, <2>2
<1>6. b \in Seq(S) /\ Len(b) = m
  BY <1>5, IsASeq
<1>7. \A n \in 1..m : b[n] = IF n = 1 THEN e ELSE IF n <= k THEN list[n - 1] ELSE list[n]
  OBVIOUS
<1> HIDE DEF b
<1>8. Bumped(list, l, e, k, b, m)
  BY <1>2, <1>3, <1>7 DEF Bumped
<1> QED BY <1>1, <1>2, <1>4, <1>6, <1>8

LEMMA BumpedDistinct ==
  ASSUME NEW list, NEW b, NEW e, NEW l \in Nat, NEW m \in Nat, NEW k \in Int, Bumped(list, l, e, k, b, m),
         \A i, j \in 1..l : list[i] = list[j] => i = j
  PROVE  \A i, j \in 1..m : b[i] = b[j] => i = j
<1>1. ASSUME NEW n \in 1..m, n # 1
      PROVE  \E i \in 1..l : b[n] = list[i] /\ i # k /\ i = IF n <= k THEN n - 1 ELSE n
  <2>1. CASE n <= k
    <3>1. n - 1 \in 1..l /\ b[n] = list[n - 1]
      BY <1>1, <2>1 DEF Bumped
    <3> QED BY <2>1, <3>1
  <2>2. CASE n > k
    <3>1. n \in 1..l /\ b[n] = list[n]
      BY <1>1, <2>2 DEF Bumped
    <3> QED BY <2>2, <3>1
  <2> QED BY <2>1, <2>2
<1>2. ASSUME NEW n \in 1..m, n # 1 PROVE b[n] # e
  <2>1. PICK i \in 1..l : b[n] = list[i] /\ i # k
    BY <1>1, <1>2
  <2>2. CASE k > l
    BY <2>1, <2>2 DEF Bumped
  <2>3. CASE k <= l
    <3>1. k \in 1..l /\ list[k] = e
      BY <2>3 DEF Bumped
    <3> QED BY <2>1, <3>1
  <2> QED BY <2>2, <2>3
<1>3. ASSUME NEW i \in 1..m, NEW j \in 1..m, b[i] = b[j] PROVE i = j
  <2>1. 1 \in 1..m => b[1] = e
    BY DEF Bumped
  <2>2. CASE i = 1 \/ j = 1
    BY <1>2, <1>3, <2>1, <2>2
  <2>3. CASE i # 1 /\ j # 1
    <3>1. PICK g \in 1..l : b[i] = list[g] /\ g # k /\ g = IF i <= k THEN i - 1 ELSE i
      BY <1>1, <2>3
    <3>2. PICK h \in 1..l : b[j] = list[h] /\ h # k /\ h = IF j <= k THEN j - 1 ELSE j
      BY <1>1, <2>3
    <3>3. g = h
      BY <1>3, <3>1, <3>2
    <3> QED BY <3>1, <3>2, <3>3
  <2> QED BY <2>2, <2>3
<1> QED BY <1>3

Agree(s, t, l) == \A n \in 1..l : s[n] = t[n]
Once(t, o) == \A g, h \in 1..o : t[g] = t[h] => g = h

LEMMA BumpedPrefix ==
  ASSUME NEW s, NEW t, NEW b, NEW c, NEW e,
         NEW l \in Nat, NEW m \in Nat, NEW j \in Int, Bumped(s, l, e, j, b, m),
         NEW o \in Nat, NEW q \in Nat, NEW k \in Int, Bumped(t, o, e, k, c, q),
         l <= o, Agree(s, t, l), Once(t, o)
  PROVE  m <= q /\ Agree(b, c, m)
<1> USE DEF Agree, Once
<1>1. CASE j <= l
  <2>1. j \in 1..l /\ j \in 1..o /\ t[j] = e /\ m = l
    BY <1>1 DEF Bumped
  <2>2. k \in 1..o /\ t[k] = e /\ q = o
    BY <2>1 DEF Bumped
  <2>3. k = j
    BY <2>1, <2>2
  <2>4. ASSUME NEW n \in 1..m PROVE b[n] = c[n]
    <3>1. n \in 1..q /\ n \in 1..l
      BY <2>1, <2>2
    <3>2. n # 1 => n - 1 \in 1..l
      BY <3>1
    <3>3. b[n] = IF n = 1 THEN e ELSE IF n <= j THEN s[n - 1] ELSE s[n]
      BY DEF Bumped
    <3>4. c[n] = IF n = 1 THEN e ELSE IF n <= j THEN t[n - 1] ELSE t[n]
      BY <2>3, <3>1 DEF Bumped
    <3> QED BY <3>1, <3>2, <3>3, <3>4
  <2> QED BY <2>1, <2>2, <2>4
<1>2. CASE j > l
  <2>1. j = l + 1 /\ m = l + 1 /\ \A n \in 1..l : s[n] # e
    BY <1>2 DEF Bumped
  <2>2. k > l
    <3>1. SUFFICES ASSUME k <= l PROVE FALSE
      OBVIOUS
    <3>2. k \in 1..l /\ t[k] = e
      BY <3>1 DEF Bumped
    <3> QED BY <2>1, <3>2
  <2>3. q >= l + 1
    BY <2>2 DEF Bumped
  <2>4. ASSUME NEW n \in 1..m PROVE b[n] = c[n]
    <3>1. n \in 1..q /\ n <= j /\ n <= k
      BY <2>1, <2>2, <2>3
    <3>2. n # 1 => n - 1 \in 1..l
      BY <2>1
    <3>3. b[n] = IF n = 1 THEN e ELSE s[n - 1]
      BY <3>1 DEF Bumped
    <3>4. c[n] = IF n = 1 THEN e ELSE t[n - 1]
      BY <3>1 DEF Bumped
    <3> QED BY <3>2, <3>3, <3>4
  <2> QED BY <2>1, <2>3, <2>4
<1> QED BY <1>1, <1>2

LEMMA BumpDistinct ==
  ASSUME NEW S, NEW list \in Seq(S), NEW e \in S, Distinct(list)
  PROVE  Bump(list, e) \in Seq(S) /\ Distinct(Bump(list, e))
<1> DEFINE b == Bump(list, e)
<1>1. /\ Place(list, e) \in Int /\ b \in Seq(S)
      /\ Bumped(list, Len(list), e, Place(list, e), b, Len(b))
  BY BumpFacts
<1> HIDE DEF b
<1>2. Len(list) \in Nat /\ Len(b) \in Nat /\ DOMAIN list = 1..Len(list) /\ DOMAIN b = 1..Len(b)
  BY <1>1
<1>3. \A i, j \in 1..Len(list) : list[i] = list[j] => i = j
  BY <1>2 DEF Distinct
<1>4. \A i, j \in 1..Len(b) : b[i] = b[j] => i = j
  BY <1>1, <1>2, <1>3, BumpedDistinct
<1> QED BY <1>1, <1>2, <1>4 DEF Distinct, b

LEMMA BumpPrefix ==
  ASSUME NEW S, NEW s \in Seq(S), NEW t \in Seq(S), NEW e \in S, Prefix(s, t), Distinct(t)
  PROVE  /\ Prefix(Bump(s, e), Bump(t, e)) /\ Bump(s, e) \in Seq(S)
         /\ Len(Bump(s, e)) >= Len(s) /\ Len(Bump(s, e)) <= Len(s) + 1
<1> DEFINE b == Bump(s, e)
           c == Bump(t, e)
<1>1. /\ Place(s, e) \in Int /\ b \in Seq(S)
      /\ Bumped(s, Len(s), e, Place(s, e), b, Len(b))
      /\ Place(t, e) \in Int /\ c \in Seq(S)
      /\ Bumped(t, Len(t), e, Place(t, e), c, Len(c))
  BY BumpFacts
<1> HIDE DEF b, c
<1>2. /\ Len(s) \in Nat /\ Len(b) \in Nat /\ Len(t) \in Nat /\ Len(c) \in Nat /\ DOMAIN t = 1..Len(t)
  BY <1>1
<1>3. Len(s) <= Len(t) /\ \A n \in 1..Len(s) : s[n] = t[n]
  BY DEF Prefix
<1>4. \A i, j \in 1..Len(t) : t[i] = t[j] => i = j
  BY <1>2 DEF Distinct
<1>5. Len(b) <= Len(c) /\ \A n \in 1..Len(b) : b[n] = c[n]
  <2>1. PICK l \in Nat, o \in Nat, m \in Nat, q \in Nat, j \in Int, k \in Int :
          /\ l = Len(s) /\ o = Len(t) /\ m = Len(b) /\ q = Len(c)
          /\ j = Place(s, e) /\ k = Place(t, e)
    BY <1>1, <1>2
  <2>2. Bumped(s, l, e, j, b, m) /\ Bumped(t, o, e, k, c, q)
    BY <1>1, <2>1
  <2>3. l <= o /\ Agree(s, t, l) /\ Once(t, o)
    BY <1>3, <1>4, <2>1 DEF Agree, Once
  <2>4. m <= q /\ Agree(b, c, m)
    BY <2>2, <2>3, BumpedPrefix
  <2> QED BY <2>1, <2>4 DEF Agree
<1>6. Len(b) = Len(s) \/ Len(b) = Len(s) + 1
  BY <1>1, <1>2 DEF Bumped
<1> QED BY <1>1, <1>2, <1>5, <1>6 DEF Prefix, b, c

VisitsTyped == /\ recent \in Seq(Projects) /\ mru \in Seq(Projects)
               /\ visit \in [Visits -> [at : {"new", "asked", "trim", "over"}, of : Projects]
                                         \cup {[at |-> "new"]}]
               /\ untrimmed \in BOOLEAN
Visited == VisitsTyped /\ VisitsOK

LEMMA VisitsFacts ==
  ASSUME Visited
  PROVE  /\ Len(recent) \in Nat /\ Len(mru) \in Nat /\ Len(recent) <= Len(mru)
         /\ Prefix(recent, mru) /\ Distinct(mru)
         /\ IsFiniteSet(Trimming) /\ Cardinality(Trimming) \in Nat
         /\ Len(recent) >= KeepN \/ recent = mru
         /\ untrimmed \/ Len(recent) <= KeepN + Cardinality(Trimming)
<1>1. Len(recent) \in Nat /\ Len(mru) \in Nat /\ Len(recent) <= Len(mru)
  BY DEF Visited, VisitsTyped, VisitsOK
<1>2. recent = SubSeq(mru, 1, Len(recent))
  BY DEF Visited, VisitsOK, LatestVisitsKept
<1>3. Prefix(recent, mru)
  BY <1>1, <1>2, PrefixIsSubSeq DEF Visited, VisitsTyped
<1>4. IsFiniteSet(Trimming) /\ Cardinality(Trimming) \in Nat
  BY FS_CardinalityType DEF Visited, VisitsOK
<1> QED BY <1>1, <1>3, <1>4 DEF Visited, VisitsOK, LatestVisitsKept, Distinct, Trimming

LEMMA VisitsBack ==
  ASSUME VisitsTyped', Len(recent') <= Len(mru'), Prefix(recent', mru'), Distinct(mru'),
         IsFiniteSet(Trimming'), Len(recent') >= KeepN \/ recent' = mru',
         untrimmed' \/ Len(recent') <= KeepN + Cardinality(Trimming')
  PROVE  Visited'
<1>1. recent' = SubSeq(mru', 1, Len(recent'))
  BY PrefixIsSubSeq DEF VisitsTyped
<1> QED BY <1>1 DEF Visited, VisitsOK, LatestVisitsKept, Distinct, Trimming

\* A visit that is asked for, whose upsert fails, or that nobody answers.
LEMMA VisitAsked ==
  ASSUME Visited, NEW v \in Visits, visit'[v].at \notin {"trim"}, visit[v].at # "trim",
         \A u \in Visits \ {v} : visit'[u] = visit[u], VisitsTyped',
         recent' = recent, mru' = mru, untrimmed' = untrimmed
  PROVE  Visited'
<1>1. Trimming' = Trimming
  BY DEF Trimming
<1> QED BY <1>1 DEF Visited, VisitsOK, LatestVisitsKept, Trimming

LEMMA UpsertKeeps ==
  ASSUME Visited, NEW v \in Visits, Upsert(v)
  PROVE  Visited'
<1>1. /\ visit[v].at = "asked" /\ untrimmed' = untrimmed
      /\ recent' = Bump(recent, visit[v].of) /\ mru' = Bump(mru, visit[v].of)
      /\ visit' = [visit EXCEPT ![v].at = "trim"]
  BY DEF Upsert
<1>2. visit[v] \in [at : {"new", "asked", "trim", "over"}, of : Projects]
  BY <1>1 DEF Visited, VisitsTyped
<1>3. visit[v].of \in Projects
  BY <1>2
<1>4. /\ visit'[v] = [visit[v] EXCEPT !.at = "trim"]
      /\ \A u \in Visits \ {v} : visit'[u] = visit[u] /\ DOMAIN visit' = Visits
  BY <1>1 DEF Visited, VisitsTyped
<1>5. visit'[v] \in [at : {"new", "asked", "trim", "over"}, of : Projects] /\ visit'[v].at = "trim"
  BY <1>2, <1>4
<1>6. visit' \in [Visits -> [at : {"new", "asked", "trim", "over"}, of : Projects]
                              \cup {[at |-> "new"]}]
  BY <1>1, <1>5 DEF Visited, VisitsTyped
<1>7. Trimming' = Trimming \cup {v} /\ v \notin Trimming
  BY <1>1, <1>4, <1>5 DEF Trimming
<1>8. /\ IsFiniteSet(Trimming') /\ Cardinality(Trimming) \in Nat
      /\ Cardinality(Trimming') = Cardinality(Trimming) + 1
  BY <1>7, VisitsFacts, FS_AddElement
<1>9. /\ Prefix(recent', mru') /\ recent' \in Seq(Projects)
      /\ Len(recent') >= Len(recent) /\ Len(recent') <= Len(recent) + 1
      /\ mru' \in Seq(Projects) /\ Distinct(mru')
  BY <1>1, <1>3, VisitsFacts, BumpPrefix, BumpDistinct DEF Visited, VisitsTyped
<1>10. Len(recent') \in Nat /\ Len(recent') <= Len(mru')
  BY <1>9 DEF Prefix
<1>11. Len(recent') >= KeepN \/ recent' = mru'
  BY <1>1, <1>9, <1>10, VisitsFacts, KeepsSome
<1>12. untrimmed' \/ Len(recent') <= KeepN + Cardinality(Trimming')
  BY <1>1, <1>8, <1>9, <1>10, VisitsFacts, KeepsSome
<1>13. VisitsTyped'
  BY <1>1, <1>6, <1>9 DEF Visited, VisitsTyped
<1> QED BY <1>8, <1>9, <1>10, <1>11, <1>12, <1>13, VisitsBack

\* The end of a trim, whether it has been done or has failed.
LEMMA TrimmedKeeps ==
  ASSUME Visited, NEW v \in Visits, visit[v].at = "trim", visit' = [visit EXCEPT ![v].at = "over"]
  PROVE  /\ visit' \in [Visits -> [at : {"new", "asked", "trim", "over"}, of : Projects]
                                    \cup {[at |-> "new"]}]
         /\ IsFiniteSet(Trimming') /\ Cardinality(Trimming') \in Nat
<1>1. visit[v] \in [at : {"new", "asked", "trim", "over"}, of : Projects]
  BY DEF Visited, VisitsTyped
<1>2. visit'[v] = [visit[v] EXCEPT !.at = "over"] /\ \A u \in Visits \ {v} : visit'[u] = visit[u]
  BY DEF Visited, VisitsTyped
<1>3. visit'[v] \in [at : {"new", "asked", "trim", "over"}, of : Projects] /\ visit'[v].at = "over"
  BY <1>1, <1>2
<1>4. visit' \in [Visits -> [at : {"new", "asked", "trim", "over"}, of : Projects]
                              \cup {[at |-> "new"]}]
  BY <1>3 DEF Visited, VisitsTyped
<1>5. Trimming' \subseteq Trimming
  BY <1>2, <1>3 DEF Trimming
<1> QED BY <1>4, <1>5, VisitsFacts, FS_Subset, FS_CardinalityType

LEMMA TrimKeeps ==
  ASSUME Visited, NEW v \in Visits, Trim(v)
  PROVE  Visited'
<1> DEFINE kept == IF Len(recent) < KeepN THEN Len(recent) ELSE KeepN
<1>1. /\ visit[v].at = "trim" /\ visit' = [visit EXCEPT ![v].at = "over"]
      /\ recent' = SubSeq(recent, 1, kept) /\ untrimmed' = FALSE /\ mru' = mru
  BY DEF Trim
<1>2. /\ kept \in Nat /\ kept <= Len(recent) /\ kept <= KeepN /\ KeepN \in Nat
      /\ kept >= KeepN \/ kept = Len(recent)
  BY VisitsFacts, KeepsSome
<1> HIDE DEF kept
<1>3. recent \in Seq(Projects) /\ mru \in Seq(Projects) /\ Len(recent) \in Nat
  BY VisitsFacts DEF Visited, VisitsTyped
<1>4. \A i \in 1..kept : recent[i] \in Projects
  BY <1>2, <1>3
<1>5. /\ recent' \in Seq(Projects) /\ Len(recent') = kept
      /\ \A i \in 1..kept : recent'[i] = recent[i]
  BY <1>1, <1>2, <1>4, SubSeqProperties
<1>6. Prefix(recent', mru') /\ Len(recent') <= Len(mru')
  BY <1>1, <1>2, <1>5, VisitsFacts DEF Prefix
<1>7. Len(recent') >= KeepN \/ recent' = mru'
  <2>1. CASE kept >= KeepN
    BY <1>5, <2>1
  <2>2. CASE kept = Len(recent) /\ ~(kept >= KeepN)
    <3>1. recent = mru
      BY <2>2, VisitsFacts
    <3>2. recent' = recent
      BY <1>3, <1>5, <2>2, SeqEqual
    <3> QED BY <1>1, <3>1, <3>2
  <2> QED BY <1>2, <2>1, <2>2
<1>8. /\ visit' \in [Visits -> [at : {"new", "asked", "trim", "over"}, of : Projects]
                                 \cup {[at |-> "new"]}]
      /\ IsFiniteSet(Trimming') /\ Cardinality(Trimming') \in Nat
  BY <1>1, TrimmedKeeps
<1>9. Len(recent') <= KeepN + Cardinality(Trimming')
  BY <1>2, <1>5, <1>8
<1>10. VisitsTyped'
  BY <1>1, <1>3, <1>5, <1>8 DEF VisitsTyped
<1>11. Distinct(mru')
  BY <1>1, VisitsFacts
<1> QED BY <1>6, <1>7, <1>8, <1>9, <1>10, <1>11, VisitsBack

LEMMA TrimFailsKeeps ==
  ASSUME Visited, NEW v \in Visits, TrimFails(v)
  PROVE  Visited'
<1>1. /\ visit[v].at = "trim" /\ visit' = [visit EXCEPT ![v].at = "over"]
      /\ recent' = recent /\ untrimmed' = TRUE /\ mru' = mru
  BY DEF TrimFails
<1>2. /\ visit' \in [Visits -> [at : {"new", "asked", "trim", "over"}, of : Projects]
                                 \cup {[at |-> "new"]}]
      /\ IsFiniteSet(Trimming')
  BY <1>1, TrimmedKeeps
<1>3. VisitsTyped'
  BY <1>1, <1>2 DEF Visited, VisitsTyped
<1> QED BY <1>1, <1>2, <1>3, VisitsFacts, VisitsBack

LEMMA UpsertFailsKeeps ==
  ASSUME Visited, NEW v \in Visits, UpsertFails(v)
  PROVE  Visited'
<1>1. /\ visit[v].at = "asked" /\ visit' = [visit EXCEPT ![v].at = "over"]
      /\ recent' = recent /\ mru' = mru /\ untrimmed' = untrimmed
  BY DEF UpsertFails
<1>2. visit[v] \in [at : {"new", "asked", "trim", "over"}, of : Projects]
  BY <1>1 DEF Visited, VisitsTyped
<1>3. visit'[v] = [visit[v] EXCEPT !.at = "over"] /\ \A u \in Visits \ {v} : visit'[u] = visit[u]
  BY <1>1 DEF Visited, VisitsTyped
<1>4. visit'[v] \in [at : {"new", "asked", "trim", "over"}, of : Projects] /\ visit'[v].at = "over"
  BY <1>2, <1>3
<1>5. visit' \in [Visits -> [at : {"new", "asked", "trim", "over"}, of : Projects]
                              \cup {[at |-> "new"]}]
  BY <1>1, <1>4 DEF Visited, VisitsTyped
<1>6. VisitsTyped'
  BY <1>1, <1>5 DEF Visited, VisitsTyped
<1> QED BY <1>1, <1>3, <1>4, <1>6, VisitAsked

LEMMA RetrieveKeeps ==
  ASSUME Visited, NEW v \in Visits, NEW e \in Projects, Retrieve(v, e)
  PROVE  Visited'
<1>1. /\ visit[v].at = "new" /\ visit' = [visit EXCEPT ![v] = [at |-> "asked", of |-> e]]
      /\ recent' = recent /\ mru' = mru /\ untrimmed' = untrimmed
  BY DEF Retrieve
<1>2. /\ visit'[v] = [at |-> "asked", of |-> e] /\ visit'[v].at = "asked"
      /\ \A u \in Visits \ {v} : visit'[u] = visit[u]
  BY <1>1 DEF Visited, VisitsTyped
<1>3. visit' \in [Visits -> [at : {"new", "asked", "trim", "over"}, of : Projects]
                              \cup {[at |-> "new"]}]
  BY <1>1 DEF Visited, VisitsTyped
<1>4. VisitsTyped'
  BY <1>1, <1>3 DEF Visited, VisitsTyped
<1> QED BY <1>1, <1>2, <1>4, VisitAsked

LEMMA VisitsUnchanged ==
  ASSUME Visited, UNCHANGED visiting
  PROVE  Visited'
<1>1. recent' = recent /\ visit' = visit /\ mru' = mru /\ untrimmed' = untrimmed
  BY DEF visiting
<1>2. Trimming' = Trimming
  BY <1>1 DEF Trimming
<1> QED BY <1>1, <1>2 DEF Visited, VisitsTyped, VisitsOK, LatestVisitsKept, Trimming

\* A step of one of the visits, which a request asks for and a job writes.
VisitStep(v) == \/ \E e \in Projects : Retrieve(v, e)
                \/ Upsert(v) \/ UpsertFails(v) \/ Trim(v) \/ TrimFails(v)

LEMMA VisitStepKeeps ==
  ASSUME Visited, NEW v \in Visits, VisitStep(v)
  PROVE  Visited' /\ Runs /\ UNCHANGED <<patching, log, hooking>>
<1>1. Visited'
  BY RetrieveKeeps, UpsertKeeps, UpsertFailsKeeps, TrimKeeps, TrimFailsKeeps DEF VisitStep
<1>2. UNCHANGED <<patching, log, hooking>>
  BY DEF VisitStep, Retrieve, Upsert, UpsertFails, Trim, TrimFails
<1>3. Runs
  BY EntryJobs DEF VisitStep, Retrieve, Upsert, UpsertFails, Trim, TrimFails, Runs
<1> QED BY <1>1, <1>2, <1>3

-----------------------------------------------------------------------------
(* The steps.                                                              *)

PatchesTyped == /\ issue \in Issue /\ first \in Issue
                /\ \A p \in Patches : patch[p] \in Patching \cup {[at |-> "new"]}
                /\ patch = [p \in Patches |-> patch[p]]
HooksTyped == /\ hooks \subseteq Hooks
              /\ event \in [Patches -> Events]
              /\ posted \in [Patches -> SUBSET Hooks]
              /\ window \in [Patches -> [ever : SUBSET Hooks, always : SUBSET Hooks]]
Hooked == HooksTyped /\ \A p \in Patches : EventOK(p)

LEMMA InvParts ==
  IInv => /\ RunnerTyped /\ PatchesTyped /\ log \subseteq Rows /\ QueueOK /\ Handing
          /\ \A p \in Patches : SubmitsOnce(p) /\ AfterOK(p) /\ OrderOK(p)
          /\ LogOK /\ LedgerOK /\ Hooked /\ Visited
<1>1. Typed <=> RunnerTyped /\ PatchesTyped /\ log \subseteq Rows /\ HooksTyped /\ VisitsTyped
  BY DEF Typed, TypeOK, RunnerTyped, PatchesTyped, HooksTyped, VisitsTyped
<1> QED BY <1>1 DEF IInv, Handing, Hooked, Visited

LEMMA InvFromParts ==
  ASSUME RunnerTyped', PatchesTyped', (log \subseteq Rows)', QueueOK',
         \A p \in Patches : SubmitsOnce(p)' /\ AfterOK(p)' /\ OrderOK(p)',
         LogOK', LedgerOK', Hooked', Visited'
  PROVE  IInv'
<1>1. Typed'
  BY DEF Typed, TypeOK, RunnerTyped, PatchesTyped, Hooked, HooksTyped, Visited, VisitsTyped
<1> QED BY <1>1 DEF IInv, Hooked, Visited

\* Where the job of an event has got to, and whether its PATCH has written, stays.
EventsForward ==
  \A p \in Patches : /\ Written(p) => Written(p)'
                     /\ event[p].step = "query" /\ Written(p)' => Written(p)
                     /\ status[<<p, "webhook">>] \in {"running", "ended"}
                          => status'[<<p, "webhook">>] \in {"running", "ended"}

LEMMA HookingUnchanged ==
  ASSUME Hooked, UNCHANGED hooking, EventsForward
  PROVE  Hooked'
<1>1. hooks' = hooks /\ event' = event /\ posted' = posted /\ window' = window
  BY DEF hooking
<1>2. \A p \in Patches \ {} : EventOK(p)'
  BY <1>1, EventsKept DEF Hooked, EventsForward
<1> QED BY <1>1, <1>2 DEF Hooked, HooksTyped

\* What a step of the runner keeps, whatever its job does to the log, the events, the visits.
LEMMA RunsKeepInv ==
  ASSUME IInv, Runs, UNCHANGED patching
  PROVE  /\ log' \subseteq Rows /\ LogOK' /\ Hooked' /\ Visited' => IInv'
         /\ log' = log => log' \subseteq Rows /\ LogOK'
         /\ UNCHANGED hooking => Hooked'
         /\ EventsForward /\ PatchesStay
         /\ \A j \in DeliveryJobs : status[j] = "ended" => status'[j] = "ended"
<1>1. /\ Handing /\ RunnerTyped /\ PatchesTyped /\ log \subseteq Rows /\ QueueOK
      /\ LogOK /\ LedgerOK /\ Hooked
  BY InvParts
<1>2. issue' = issue /\ first' = first /\ patch' = patch
  BY DEF patching
<1>3. /\ RunnerTyped' /\ QueueOK'
      /\ \A p \in Patches : SubmitsOnce(p)' /\ AfterOK(p)' /\ OrderOK(p)'
  BY <1>1, <1>2, RunsKeepHanding
<1>4. PatchesTyped'
  BY <1>1, <1>2 DEF PatchesTyped
<1>5. PatchesStay /\ Writers' = Writers /\ \A p : Written(p)' <=> Written(p)
  BY <1>2 DEF PatchesStay, Writers, Written
<1>6. LedgerOK'
  BY <1>1, <1>2, <1>5, LedgerKept
<1>7. \A j \in DeliveryJobs : /\ status[j] = "ended" => status'[j] = "ended"
                              /\ status[j] = "running" => status'[j] \in {"running", "ended"}
  BY <1>1, RunsKeep
<1>8. EventsForward
  BY <1>5, <1>7, EntryJobs DEF EventsForward, Entries
<1>9. UNCHANGED hooking => Hooked'
  BY <1>1, <1>8, HookingUnchanged
<1>10. log' = log => log' \subseteq Rows /\ LogOK'
  BY <1>1, <1>5, <1>7, LogKept
<1>11. log' \subseteq Rows /\ LogOK' /\ Hooked' /\ Visited' => IInv'
  BY <1>3, <1>4, <1>6, InvFromParts
<1> QED BY <1>5, <1>7, <1>8, <1>9, <1>10, <1>11

LEMMA RunnerStep ==
  ASSUME IInv, \/ Shutdown
               \/ \E j \in DeliveryJobs : StartJob(j)
               \/ \E v \in Visits : VisitStep(v)
  PROVE  IInv'
<1>1. Visited
  BY InvParts
<1>2. CASE \E v \in Visits : VisitStep(v)
  <2>1. Visited' /\ Runs /\ UNCHANGED patching /\ log' = log /\ UNCHANGED hooking
    BY <1>1, <1>2, VisitStepKeeps
  <2> QED BY <2>1, RunsKeepInv
<1>3. CASE Shutdown \/ \E j \in DeliveryJobs : StartJob(j)
  <2>1. Runs /\ UNCHANGED patching /\ log' = log /\ UNCHANGED hooking /\ UNCHANGED visiting
    BY <1>3 DEF Shutdown, StartJob, Runs
  <2>2. Visited'
    BY <1>1, <2>1, VisitsUnchanged
  <2> QED BY <2>1, <2>2, RunsKeepInv
<1> QED BY <1>2, <1>3

\* The row of a job is that of a PATCH that has written, and comes as the job ends.
LEMMA RecordKeeps ==
  ASSUME IInv, NEW p \in Patches, NEW f \in Fields, Record(p, f)
  PROVE  IInv'
<1>1. /\ RunnerTyped /\ QueueOK /\ Handing /\ Hooked /\ Visited /\ log \subseteq Rows /\ LogOK
      /\ SubmitsOnce(p)
  BY InvParts
<1>2. /\ Pool!End(<<p, f>>) /\ <<p, f>> \in DeliveryJobs /\ f \in Entries
      /\ log' = log \cup {Row(p, f)} \/ log' = log
      /\ UNCHANGED patching /\ UNCHANGED hooking /\ UNCHANGED visiting
  BY EntryJobs DEF Record, Entries
<1>3. Runs
  BY <1>2 DEF Runs
<1>4. status[<<p, f>>] = "running" /\ status' = [status EXCEPT ![<<p, f>>] = "ended"]
  BY <1>1, <1>2, EndKeeps
<1>5. Written(p) /\ patch[p] \in Patching
  BY <1>1, <1>2, <1>4, TypedFields DEF SubmitsOnce, Written, Handing
<1>6. Row(p, f) \in Rows
  BY <1>5 DEF Row, Rows, Patching, Issue
<1>7. log' \subseteq Rows
  BY <1>1, <1>2, <1>6
<1>8. \A r \in log' : r = Row(r.by, r.field)' /\ status'[<<r.by, r.field>>] = "ended"
  <2>1. patch' = patch
    BY <1>2 DEF patching
  <2>2. \A j \in DeliveryJobs : status[j] = "ended" => status'[j] = "ended"
    BY <1>2, <1>3, RunsKeepInv
  <2>3. ASSUME NEW r \in log PROVE r = Row(r.by, r.field)' /\ status'[<<r.by, r.field>>] = "ended"
    <3>1. r = Row(r.by, r.field) /\ status[<<r.by, r.field>>] = "ended"
      BY <1>1 DEF LogOK
    <3>2. <<r.by, r.field>> \in DeliveryJobs
      BY <1>1, EntryJobs DEF Rows, Entries
    <3> QED BY <2>1, <2>2, <3>1, <3>2 DEF Row
  <2>4. ASSUME NEW r, r = Row(p, f) PROVE r = Row(r.by, r.field)' /\ status'[<<r.by, r.field>>] = "ended"
    <3>1. r.by = p /\ r.field = f
      BY <2>4 DEF Row
    <3>2. status'[<<p, f>>] = "ended"
      BY <1>1, <1>2, <1>4 DEF RunnerTyped
    <3>3. Row(p, f)' = Row(p, f)
      BY <2>1 DEF Row
    <3> QED BY <2>4, <3>1, <3>2, <3>3
  <2> QED BY <1>2, <2>3, <2>4
<1>9. LogOK'
  BY <1>8 DEF LogOK
<1>10. Visited'
  BY <1>1, <1>2, VisitsUnchanged
<1> QED BY <1>2, <1>3, <1>7, <1>9, <1>10, RunsKeepInv

\* Whoever comes or goes before the query joins or leaves the window of the event.
LEMMA SubscribedKeeps ==
  ASSUME IInv, NEW now \in SUBSET Hooks, Subscribed(now)
  PROVE  IInv'
<1>1. Hooked /\ Visited
  BY InvParts
<1>2. /\ hooks' = now /\ event' = event /\ posted' = posted /\ log' = log
      /\ Runs /\ UNCHANGED patching /\ UNCHANGED visiting
      /\ status' = status /\ patch' = patch
  BY DEF Subscribed, Runs, patching, runner
<1>3. window' = [p \in Patches |->
        IF event[p].step = "query"
        THEN [ever |-> window[p].ever \cup now, always |-> window[p].always \cap now]
        ELSE window[p]]
  BY DEF Subscribed
<1>4. ASSUME NEW p \in Patches
      PROVE  EventOK(p)' /\ window'[p] \in [ever : SUBSET Hooks, always : SUBSET Hooks]
  <2>1. /\ EventOK(p) /\ window[p] \in [ever : SUBSET Hooks, always : SUBSET Hooks]
        /\ Written(p)' <=> Written(p)
    BY <1>1, <1>2 DEF Hooked, HooksTyped, Written
  <2>2. CASE event[p].step = "query"
    <3>1. window'[p] = [ever |-> window[p].ever \cup now, always |-> window[p].always \cap now]
      BY <1>3, <2>2
    <3>2. window'[p].ever = window[p].ever \cup now /\ window'[p].always = window[p].always \cap now
      BY <3>1
    <3>3. window'[p] \in [ever : SUBSET Hooks, always : SUBSET Hooks]
      BY <2>1, <3>1
    <3>4. now \subseteq window'[p].ever /\ window'[p].always \subseteq now
      BY <3>2
    <3> QED BY <1>2, <2>1, <2>2, <3>3, <3>4 DEF EventOK
  <2>3. CASE event[p].step # "query"
    <3>1. window'[p] = window[p]
      BY <1>3, <2>3
    <3> QED BY <1>2, <2>1, <2>3, <3>1 DEF EventOK
  <2> QED BY <2>2, <2>3
<1>5. Hooked'
  <2>1. HooksTyped'
    BY <1>1, <1>2, <1>3, <1>4 DEF Hooked, HooksTyped
  <2> QED BY <1>4, <2>1 DEF Hooked
<1>6. Visited'
  BY <1>1, <1>2, VisitsUnchanged
<1> QED BY <1>2, <1>5, <1>6, RunsKeepInv

\* A step of the webhook job of p, which runs.
LEMMA StepFields ==
  ASSUME IInv, NEW p \in Patches, Running(<<p, "webhook">>),
         NEW step \in {"query", "post", "log", "over"}, NEW left \in SUBSET Hooks, Step(p, step, left)
  PROVE  /\ Runs /\ event' \in [Patches -> Events]
         /\ event'[p].step = step /\ event'[p].left = left
         /\ \A q \in Patches \ {p} : event'[q] = event[q]
         /\ status'[<<p, "webhook">>] \in {"running", "ended"} /\ Written(p)
<1>1. /\ RunnerTyped /\ QueueOK /\ Hooked /\ SubmitsOnce(p) /\ <<p, "webhook">> \in DeliveryJobs
      /\ "webhook" \in Entries
  BY InvParts, EntryJobs DEF Entries
<1>2. event \in [Patches -> Events]
  BY <1>1 DEF Hooked, HooksTyped
<1>3. event' = [event EXCEPT ![p] = [step |-> step, left |-> left]]
  BY DEF Step
<1>4. [step |-> step, left |-> left] \in Events
  BY DEF Events
<1>5. /\ event' \in [Patches -> Events] /\ event'[p] = [step |-> step, left |-> left]
      /\ \A q \in Patches \ {p} : event'[q] = event[q]
  BY <1>2, <1>3, <1>4
<1>6. Runs
  BY <1>1 DEF Step, Runs
<1>7. status'[<<p, "webhook">>] \in {"running", "ended"}
  BY <1>1, <1>6, RunsKeep DEF Running
<1>8. Written(p)
  BY <1>1 DEF SubmitsOnce, Running
<1> QED BY <1>5, <1>6, <1>7, <1>8

\* What the step has to see to for the event of p.
LEMMA StepKeeps ==
  ASSUME IInv, NEW p \in Patches, Running(<<p, "webhook">>),
         NEW step \in {"post", "log", "over"}, NEW left \in SUBSET Hooks, Step(p, step, left),
         UNCHANGED <<patching, log, hooks, visiting>>,
         posted' \in [Patches -> SUBSET Hooks],
         window' \in [Patches -> [ever : SUBSET Hooks, always : SUBSET Hooks]],
         \A q \in Patches \ {p} : posted'[q] = posted[q] /\ window'[q] = window[q],
         posted'[p] \cup left \subseteq window'[p].ever,
         window'[p].always \subseteq posted'[p] \cup left,
         step = "over" => left = {}
  PROVE  IInv'
<1>1. Hooked /\ Visited
  BY InvParts
<1>2. /\ Runs /\ event' \in [Patches -> Events]
      /\ event'[p].step = step /\ event'[p].left = left
      /\ \A q \in Patches \ {p} : event'[q] = event[q]
      /\ status'[<<p, "webhook">>] \in {"running", "ended"} /\ Written(p)
  BY StepFields
<1>3. EventsForward /\ hooks' = hooks /\ Written(p)'
  <2>1. EventsForward
    BY <1>2, RunsKeepInv
  <2> QED BY <1>2, <2>1 DEF EventsForward
<1>4. EventOK(p)'
  BY <1>2, <1>3 DEF EventOK
<1>5. \A q \in Patches \ {p} : EventOK(q)'
  BY <1>1, <1>2, <1>3, EventsKept DEF Hooked, EventsForward
<1>6. Hooked'
  BY <1>1, <1>2, <1>3, <1>4, <1>5 DEF Hooked, HooksTyped
<1>7. Visited' /\ log' = log
  BY <1>1, VisitsUnchanged
<1> QED BY <1>2, <1>6, <1>7, RunsKeepInv

LEMMA FiringKeeps ==
  ASSUME IInv, NEW p \in Patches,
         \/ ReadTargets(p) \/ ReadTargetsFails(p) \/ LogPost(p)
         \/ \E h \in Hooks : Post(p, h)
  PROVE  IInv'
<1>1. /\ Hooked /\ SubmitsOnce(p) /\ EventOK(p)
      /\ hooks \in SUBSET Hooks /\ posted \in [Patches -> SUBSET Hooks]
      /\ window \in [Patches -> [ever : SUBSET Hooks, always : SUBSET Hooks]]
      /\ event[p] \in Events
  BY InvParts DEF Hooked, HooksTyped
<1>2. Running(<<p, "webhook">>) /\ UNCHANGED <<patching, log, hooks, visiting>>
  BY DEF ReadTargets, ReadTargetsFails, LogPost, Post
<1>3. Written(p)
  BY <1>1, <1>2 DEF SubmitsOnce, Running, Entries
<1>4. CASE ReadTargets(p)
  <2>1. /\ event[p].step = "query" /\ posted' = posted /\ window' = window
        /\ Step(p, IF hooks = {} THEN "over" ELSE "post", hooks)
    BY <1>4 DEF ReadTargets
  <2>2. /\ posted'[p] \cup hooks \subseteq window'[p].ever
        /\ window'[p].always \subseteq posted'[p] \cup hooks
    BY <1>1, <1>3, <2>1 DEF EventOK
  <2> QED BY <1>1, <1>2, <2>1, <2>2, StepKeeps
<1>5. CASE ReadTargetsFails(p)
  <2>1. /\ event[p].step = "query" /\ posted' = posted
        /\ window' = [window EXCEPT ![p] = [window[p] EXCEPT !.always = {}]]
    BY <1>5 DEF ReadTargetsFails
  <2>2. PICK some \in SUBSET hooks : Step(p, IF some = {} THEN "over" ELSE "post", some)
    BY <1>5 DEF ReadTargetsFails
  <2>3. /\ window'[p] = [window[p] EXCEPT !.always = {}]
        /\ \A q \in Patches \ {p} : window'[q] = window[q]
    BY <1>1, <2>1
  <2>4. /\ window'[p].ever = window[p].ever /\ window'[p].always = {}
        /\ window'[p] \in [ever : SUBSET Hooks, always : SUBSET Hooks]
    BY <1>1, <2>3
  <2>5. window' \in [Patches -> [ever : SUBSET Hooks, always : SUBSET Hooks]]
    BY <1>1, <2>1, <2>4
  <2>6. /\ posted'[p] \cup some \subseteq window'[p].ever
        /\ window'[p].always \subseteq posted'[p] \cup some
    BY <1>1, <1>3, <2>1, <2>4 DEF EventOK
  <2>7. some \in SUBSET Hooks
    BY <1>1
  <2> QED BY <1>1, <1>2, <2>1, <2>2, <2>3, <2>5, <2>6, <2>7, StepKeeps
<1>6. CASE LogPost(p)
  <2>1. /\ event[p].step = "log" /\ posted' = posted /\ window' = window
        /\ Step(p, IF event[p].left = {} THEN "over" ELSE "post", event[p].left)
    BY <1>6 DEF LogPost
  <2>2. /\ posted'[p] \cup event[p].left \subseteq window'[p].ever
        /\ window'[p].always \subseteq posted'[p] \cup event[p].left
        /\ event[p].left \in SUBSET Hooks
    BY <1>1, <2>1 DEF EventOK, Events
  <2> QED BY <1>1, <1>2, <2>1, <2>2, StepKeeps
<1>7. CASE \E h \in Hooks : Post(p, h)
  <2>1. PICK h \in Hooks : /\ event[p].step = "post" /\ h \in event[p].left /\ window' = window
                           /\ posted' = [posted EXCEPT ![p] = @ \cup {h}]
                           /\ Step(p, "log", event[p].left \ {h})
    BY <1>7 DEF Post
  <2>2. /\ posted'[p] = posted[p] \cup {h} /\ posted' \in [Patches -> SUBSET Hooks]
        /\ \A q \in Patches \ {p} : posted'[q] = posted[q]
    BY <1>1, <2>1
  <2>3. /\ posted'[p] \cup (event[p].left \ {h}) \subseteq window'[p].ever
        /\ window'[p].always \subseteq posted'[p] \cup (event[p].left \ {h})
        /\ event[p].left \ {h} \in SUBSET Hooks
    BY <1>1, <2>1, <2>2 DEF EventOK, Events
  <2> QED BY <1>1, <1>2, <2>1, <2>2, <2>3, StepKeeps
<1> QED BY <1>4, <1>5, <1>6, <1>7

LEMMA BeginPatchKeeps ==
  ASSUME IInv, NEW p \in Patches, NEW body \in Bodies, BeginPatch(p, body)
  PROVE  IInv'
<1>1. /\ RunnerTyped /\ PatchesTyped /\ log \subseteq Rows /\ QueueOK /\ Handing
      /\ LogOK /\ LedgerOK /\ Hooked /\ Visited
  BY InvParts
<1> DEFINE now == {q \in Patches : patch[q].at = "answered"}
           new == [at |-> "read", body |-> body, read |-> issue, wrote |-> issue, over |-> issue,
                   after |-> now, todo |-> {}]
<1>2. /\ patch[p].at = "new" /\ patch' = [patch EXCEPT ![p] = new]
      /\ issue' = issue /\ first' = first /\ log' = log
      /\ UNCHANGED runner /\ UNCHANGED hooking /\ UNCHANGED visiting
  BY DEF BeginPatch
<1>3. new \in Patching /\ new.at = "read"
  BY <1>1 DEF PatchesTyped, Patching
<1> HIDE DEF new
<1>4. /\ patch'[p] = new /\ DOMAIN patch' = Patches
      /\ \A q \in Patches \ {p} : patch'[q] = patch[q]
  BY <1>1, <1>2, TypedFields DEF Handing
<1>5. PatchesTyped'
  BY <1>1, <1>2, <1>3, <1>4 DEF PatchesTyped
<1>6. status' = status /\ RunnerTyped' /\ QueueOK'
  BY <1>1, <1>2 DEF runner, RunnerTyped, QueueOK
<1>7. \A q \in Patches : Written(q)' <=> Written(q)
  BY <1>2, <1>3, <1>4 DEF Written
<1>8. PatchesStay /\ Writers' = Writers
  BY <1>2, <1>4, <1>7 DEF PatchesStay, Writers, Written
<1>9. LogOK' /\ log' \subseteq Rows
  BY <1>1, <1>2, <1>6, <1>8, LogKept
<1>10. LedgerOK'
  BY <1>1, <1>2, <1>8, LedgerKept
<1>11. Hooked'
  BY <1>1, <1>2, <1>6, <1>7, HookingUnchanged DEF EventsForward
<1>12. Visited'
  BY <1>1, <1>2, VisitsUnchanged
<1>13. \A q \in Patches : SubmitsOnce(q)' /\ AfterOK(q)' /\ OrderOK(q)'
  BY <1>1, BeginPatchKeepsHanding
<1> QED BY <1>5, <1>6, <1>9, <1>10, <1>11, <1>12, <1>13, InvFromParts

LEMMA WriteFailsKeeps ==
  ASSUME IInv, NEW p \in Patches, WriteFails(p)
  PROVE  IInv'
<1>1. /\ RunnerTyped /\ PatchesTyped /\ log \subseteq Rows /\ QueueOK /\ Handing
      /\ LogOK /\ LedgerOK /\ Hooked /\ Visited
  BY InvParts
<1>2. /\ patch' = [patch EXCEPT ![p].at = "failed"]
      /\ issue' = issue /\ first' = first /\ log' = log
      /\ UNCHANGED runner /\ UNCHANGED hooking /\ UNCHANGED visiting
  BY DEF WriteFails
<1>3. /\ \A q \in Patches : SubmitsOnce(q)' /\ AfterOK(q)' /\ OrderOK(q)'
      /\ patch'[p] \in Patching /\ DOMAIN patch' = Patches
      /\ patch[p].at = "read" /\ patch'[p].at = "failed"
      /\ \A q \in Patches \ {p} : patch'[q] = patch[q]
  BY <1>1, WriteFailsKeepsHanding
<1>4. PatchesTyped'
  BY <1>1, <1>2, <1>3 DEF PatchesTyped
<1>5. status' = status /\ RunnerTyped' /\ QueueOK'
  BY <1>1, <1>2 DEF runner, RunnerTyped, QueueOK
<1>6. \A q \in Patches : Written(q)' <=> Written(q)
  BY <1>3 DEF Written
<1>7. PatchesStay /\ Writers' = Writers
  BY <1>3, <1>6 DEF PatchesStay, Writers, Written
<1>8. LogOK' /\ log' \subseteq Rows
  BY <1>1, <1>2, <1>5, <1>7, LogKept
<1>9. LedgerOK'
  BY <1>1, <1>2, <1>7, LedgerKept
<1>10. Hooked'
  BY <1>1, <1>2, <1>5, <1>6, HookingUnchanged DEF EventsForward
<1>11. Visited'
  BY <1>1, <1>2, VisitsUnchanged
<1> QED BY <1>3, <1>4, <1>5, <1>8, <1>9, <1>10, <1>11, InvFromParts

LEMMA SubmitNextKeeps ==
  ASSUME IInv, NEW p \in Patches, SubmitNext(p)
  PROVE  IInv'
<1>1. /\ RunnerTyped /\ PatchesTyped /\ log \subseteq Rows /\ QueueOK /\ Handing
      /\ LogOK /\ LedgerOK /\ Hooked /\ Visited
  BY InvParts
<1>2. /\ issue' = issue /\ first' = first /\ log' = log
      /\ UNCHANGED hooking /\ UNCHANGED visiting
  BY DEF SubmitNext
<1>3. /\ patch[p].at = "submitting" /\ patch'[p] \in Patching /\ DOMAIN patch' = Patches
      /\ patch'[p].at \in {"submitting", "answered"}
      /\ patch'[p].read = patch[p].read /\ patch'[p].wrote = patch[p].wrote
      /\ patch'[p].over = patch[p].over
      /\ \A q \in Patches \ {p} : patch'[q] = patch[q]
  BY <1>1, SubmitNextFields
<1>4. /\ RunnerTyped' /\ QueueOK'
      /\ \A q \in Patches : SubmitsOnce(q)' /\ AfterOK(q)' /\ OrderOK(q)'
      /\ \E x \in Entries, to \in {"pending", "refused"} : /\ status[<<p, x>>] = "new"
                                           /\ status' = [status EXCEPT ![<<p, x>>] = to]
  BY <1>1, SubmitNextKeepsHanding
<1>5. \A j \in DeliveryJobs : status[j] \in {"running", "ended"} => status'[j] = status[j]
  BY <1>1, <1>4, EntryJobs DEF RunnerTyped
<1>6. PatchesTyped'
  <2>1. patch' = [q \in Patches |-> patch'[q]]
    <3>1. PICK x : patch' = [patch EXCEPT ![p].todo = @ \ {x},
                                 ![p].at = IF patch[p].todo = {x} THEN "answered" ELSE @]
      BY DEF SubmitNext
    <3> QED BY <1>1, <3>1 DEF PatchesTyped
  <2> QED BY <1>1, <1>2, <1>3, <2>1 DEF PatchesTyped
<1>7. \A q \in Patches : Written(q)' <=> Written(q)
  BY <1>3 DEF Written
<1>8. PatchesStay /\ Writers' = Writers
  BY <1>3, <1>7 DEF PatchesStay, Writers
<1>9. LogOK' /\ log' \subseteq Rows
  BY <1>1, <1>2, <1>5, <1>8, LogKept
<1>10. LedgerOK'
  BY <1>1, <1>2, <1>8, LedgerKept
<1>11. EventsForward
  BY <1>5, <1>7, EntryJobs DEF EventsForward, Entries
<1>12. Hooked' /\ Visited'
  BY <1>1, <1>2, <1>11, HookingUnchanged, VisitsUnchanged
<1> QED BY <1>4, <1>6, <1>9, <1>10, <1>12, InvFromParts

\* The window of the event opens with the write.
LEMMA WriteIssueKeeps ==
  ASSUME IInv, NEW p \in Patches, WriteIssue(p)
  PROVE  IInv'
<1>1. /\ RunnerTyped /\ PatchesTyped /\ log \subseteq Rows /\ QueueOK /\ Handing /\ Typed
      /\ LogOK /\ LedgerOK /\ Hooked /\ Visited
  BY InvParts DEF Handing
<1>2. /\ issue' = Merged(p) /\ first' = first /\ log' = log /\ hooks' = hooks
      /\ window' = [window EXCEPT ![p] = [ever |-> hooks, always |-> hooks]]
      /\ UNCHANGED runner /\ event' = event /\ posted' = posted /\ UNCHANGED visiting
  BY DEF WriteIssue
<1>3. /\ patch[p].at = "read" /\ patch[p] \in Patching
      /\ patch'[p] \in Patching /\ DOMAIN patch' = Patches /\ patch'[p].at = "submitting"
      /\ \A q \in Patches \ {p} : patch'[q] = patch[q]
  BY <1>1, WriteIssueFields
<1>4. \A q \in Patches : SubmitsOnce(q)' /\ AfterOK(q)' /\ OrderOK(q)'
  BY <1>1, WriteIssueKeepsHanding
<1>5. PatchesTyped'
  <2>1. Merged(p) \in Issue
    BY <1>1, <1>3, MergedTyped
  <2>2. patch' = [q \in Patches |-> patch'[q]]
    BY <1>1 DEF PatchesTyped, WriteIssue
  <2> QED BY <1>1, <1>2, <1>3, <2>1, <2>2 DEF PatchesTyped
<1>6. status' = status /\ RunnerTyped' /\ QueueOK'
  BY <1>1, <1>2 DEF runner, RunnerTyped, QueueOK
<1>7. LedgerOK' /\ PatchesStay
  BY <1>1, LedgerWritten
<1>8. LogOK' /\ log' \subseteq Rows
  BY <1>1, <1>2, <1>6, <1>7, LogKept
<1>9. /\ window'[p] = [ever |-> hooks, always |-> hooks] /\ hooks \subseteq Hooks
      /\ window' \in [Patches -> [ever : SUBSET Hooks, always : SUBSET Hooks]]
      /\ \A q \in Patches \ {p} : window'[q] = window[q]
  BY <1>1, <1>2 DEF Hooked, HooksTyped
<1>10. window'[p].ever = hooks /\ window'[p].always = hooks
  BY <1>9
<1>11. EventOK(p)'
  <2>1. event[p].step = "query" /\ posted[p] = {}
    BY <1>1, <1>3 DEF Hooked, EventOK, Written
  <2> QED BY <1>2, <1>10, <2>1 DEF EventOK
<1>12. ASSUME NEW q \in Patches \ {p} PROVE EventOK(q)'
  <2>1. EventOK(q) /\ patch'[q] = patch[q] /\ window'[q] = window[q]
    BY <1>1, <1>3, <1>9 DEF Hooked
  <2> QED BY <1>2, <1>6, <2>1 DEF EventOK, Written
<1>13. Hooked'
  BY <1>1, <1>2, <1>9, <1>11, <1>12 DEF Hooked, HooksTyped
<1>14. Visited'
  BY <1>1, <1>2, VisitsUnchanged
<1> QED BY <1>4, <1>5, <1>6, <1>7, <1>8, <1>13, <1>14, InvFromParts

-----------------------------------------------------------------------------
(* The theorems.                                                           *)

LEMMA InitInv == ASSUME Init PROVE IInv
<1>1. /\ status = [j \in DeliveryJobs |-> "new"] /\ waiting = <<>> /\ stopped = FALSE
      /\ issue \in Issue /\ first = issue
      /\ patch = [p \in Patches |-> [at |-> "new"]]
      /\ log = {} /\ hooks \in SUBSET Hooks
      /\ event = [p \in Patches |-> [step |-> "query", left |-> {}]]
      /\ posted = [p \in Patches |-> {}]
      /\ window = [p \in Patches |-> [ever |-> {}, always |-> {}]]
      /\ recent = <<>> /\ mru = <<>>
      /\ visit = [v \in Visits |-> [at |-> "new"]] /\ untrimmed = FALSE
  BY DEF Init, Pool!Init
<1>2. \A v \in Visits : visit[v].at = "new"
  BY <1>1
<1>3. \A p \in Patches : patch[p].at = "new"
  BY <1>1
<1>4. TypeOK
  <2>1. status \in [DeliveryJobs -> Pool!Status] /\ waiting \in Seq(DeliveryJobs) /\ stopped \in BOOLEAN
    <3>1. waiting = <<>> /\ <<>> \in Seq(DeliveryJobs)
      BY <1>1
    <3>2. "new" \in Pool!Status
      BY DEF Pool!Status
    <3> QED BY <1>1, <3>1, <3>2
  <2>2. event \in [Patches -> Events]
    BY <1>1 DEF Events
  <2>3. /\ visit \in [Visits -> [at : {"new", "asked", "trim", "over"}, of : Projects]
                                  \cup {[at |-> "new"]}]
        /\ recent \in Seq(Projects) /\ mru \in Seq(Projects)
    BY <1>1
  <2> QED BY <1>1, <2>1, <2>2, <2>3 DEF TypeOK
<1>5. Typed
  BY <1>1, <1>4 DEF Typed
<1>6. QueueOK
  BY <1>1 DEF QueueOK
<1>7. ASSUME NEW p \in Patches PROVE SubmitsOnce(p) /\ AfterOK(p) /\ OrderOK(p) /\ EventOK(p)
  <2>1. \A x \in Entries : status[<<p, x>>] = "new"
    BY <1>1, EntryJobs
  <2>2. event[p].step = "query" /\ posted[p] = {} /\ window[p].always = {}
    BY <1>1
  <2> QED BY <1>3, <2>1, <2>2 DEF SubmitsOnce, AfterOK, OrderOK, EventOK, Written
<1>8. LogOK
  BY <1>1 DEF LogOK
<1>9. LedgerOK
  <2>1. Writers = {}
    BY <1>3 DEF Writers, Written
  <2>2. IsFiniteSet({}) /\ Cardinality({}) = 0
    BY FS_EmptySet
  <2>3. \A f, v : Puts(f, v) = {} /\ Takes(f, v) = {}
    BY <2>1 DEF Puts, Takes
  <2> QED BY <1>1, <2>1, <2>2, <2>3 DEF LedgerOK, Balanced
<1>10. VisitsOK
  <2>1. Trimming = {}
    BY <1>2 DEF Trimming
  <2>2. IsFiniteSet({}) /\ Cardinality({}) = 0
    BY FS_EmptySet
  <2>3. Len(recent) = 0 /\ Len(mru) = 0 /\ recent = mru /\ DOMAIN mru = {}
    BY <1>1
  <2>4. recent = SubSeq(mru, 1, Len(recent))
    BY <1>1, <2>3
  <2>5. Len(recent) <= KeepN + Cardinality(Trimming)
    BY <2>1, <2>2, <2>3, KeepsSome
  <2>6. \A m, n \in DOMAIN mru : mru[m] = mru[n] => m = n
    BY <2>3
  <2>7. LatestVisitsKept
    BY <2>3, <2>4, <2>5 DEF LatestVisitsKept, Trimming
  <2>8. IsFiniteSet(Trimming) /\ Len(recent) <= Len(mru)
    BY <2>1, <2>2, <2>3
  <2> QED BY <2>6, <2>7, <2>8 DEF VisitsOK
<1> QED BY <1>5, <1>6, <1>7, <1>8, <1>9, <1>10 DEF IInv

LEMMA NextInv == ASSUME IInv, [Next]_vars PROVE IInv'
<1>1. CASE Handling
  BY <1>1, BeginPatchKeeps, WriteIssueKeeps, WriteFailsKeeps, SubmitNextKeeps DEF Handling
<1>2. CASE Firing
  BY <1>2, FiringKeeps DEF Firing
<1>3. CASE Visiting
  BY <1>3, RunnerStep DEF Visiting, VisitStep
<1>4. CASE Shutdown \/ \E j \in DeliveryJobs : StartJob(j)
  BY <1>4, RunnerStep
<1>5. CASE \E p \in Patches, f \in Fields : Record(p, f)
  BY <1>5, RecordKeeps
<1>6. CASE \E h \in Hooks : Subscribe(h) \/ Unsubscribe(h)
  <2>1. PICK h \in Hooks : Subscribed(hooks \cup {h}) \/ Subscribed(hooks \ {h})
    BY <1>6 DEF Subscribe, Unsubscribe
  <2>2. hooks \cup {h} \in SUBSET Hooks /\ hooks \ {h} \in SUBSET Hooks
    BY InvParts DEF Hooked, HooksTyped
  <2> QED BY <2>1, <2>2, SubscribedKeeps
<1>7. CASE UNCHANGED vars
  <2>1. /\ UNCHANGED runner /\ UNCHANGED patching /\ log' = log /\ UNCHANGED hooking
        /\ UNCHANGED visiting /\ Runs
    BY <1>7 DEF vars, Runs
  <2>2. Visited'
    BY <2>1, InvParts, VisitsUnchanged
  <2> QED BY <2>1, <2>2, RunsKeepInv
<1> QED BY <1>1, <1>2, <1>3, <1>4, <1>5, <1>6, <1>7 DEF Next

\* The inductive invariant holds of every behaviour: handlers, the queue, the log, the events
\* and the visits keep in step however their requests and jobs interleave.
THEOREM Invariant == Spec => []IInv
<1>1. Init => IInv
  BY InitInv
<1>2. IInv /\ [Next]_vars => IInv'
  BY NextInv
<1> QED BY <1>1, <1>2, PTL DEF Spec

\* The types, and the list of recent visits: Record's upserts and trims of any number of
\* workers leave the projects visited last, newest first, and no more rows than are kept and
\* trims are to come, unless the last trim has failed.
THEOREM VisitsAreKept == Spec => []DeliveriesInv
<1>1. IInv => DeliveriesInv
  BY DEF IInv, Typed, VisitsOK, DeliveriesInv
<1> QED BY <1>1, Invariant, PTL

\* The rows of activity.Record account for the value of a field of the issue, however PATCHes
\* and their jobs overlap, whenever none is missing and none has undone another.
THEOREM HistoryIsExplained == Spec => []HistoryExplainsIssue
<1>1. IInv => HistoryExplainsIssue
  BY InvParts, HistoryAddsUp
<1> QED BY <1>1, Invariant, PTL

\* The queue of the dispatcher keeps requests that did not overlap in their order: neither a
\* row nor an event of the later one comes while the job of the earlier one still waits.
THEOREM ArrivesInOrder == Spec => []InOrder
<1>1. IInv => InOrder
  BY RequestsInOrder
<1> QED BY <1>1, Invariant, PTL

\* webhookdelivery.Fire sends an event to the hooks subscribed from the write to its query,
\* and to none that was subscribed at no time in between.
THEOREM EventsArrive == Spec => []EventsReachSubscribers
<1>1. ASSUME IInv PROVE EventsReachSubscribers
  <2>1. \A p \in Patches : EventOK(p) /\ event[p] \in Events
    BY <1>1, InvParts DEF Hooked, HooksTyped
  <2>2. \A p \in Patches : posted[p] \subseteq window[p].ever
    BY <2>1 DEF EventOK
  <2>3. \A p \in Patches : event[p].step = "over" => window[p].always \subseteq posted[p]
    BY <2>1 DEF EventOK
  <2> QED BY <2>2, <2>3 DEF EventsReachSubscribers
<1>2. IInv => EventsReachSubscribers
  BY <1>1
<1> QED BY <1>2, Invariant, PTL
=============================================================================
