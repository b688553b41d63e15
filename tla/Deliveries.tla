----------------------------- MODULE Deliveries ------------------------------
(***************************************************************************)
(* The work that requests leave behind on the background runner: a PATCH   *)
(* of an issue submits one activity row per changed field and one webhook  *)
(* event, a GET of a project submits a visit.  The runner itself is the    *)
(* abstract one, FireAndForget, which Dispatcher implements.               *)
(***************************************************************************)
EXTENDS Naturals, Sequences, FiniteSets

CONSTANTS Patches,     \* PATCH requests on one issue
          FieldOrder,  \* its fields, in the order the handler looks at them
          Values,      \* what a field may hold
          Hooks,       \* webhooks of the workspace
          Visits,      \* GETs of a project by one user in one workspace
          Projects,    \* what they look at
          KeepN,       \* rows the list of recent visits keeps
          Capacity,    \* workers of the runner
          Backlog      \* places in its queue

ASSUME KeepsSome == KeepN \in Nat \ {0}

Fields == {FieldOrder[n] : n \in DOMAIN FieldOrder}
Entries == Fields \cup {"webhook"} \* what a PATCH submits, at most
DeliveryJobs == (Patches \X Entries) \cup (Visits \X {"visit"})

ASSUME JobsApart == Fields \cap {"webhook", "visit"} = {}

VARIABLES status, waiting, stopped, \* the runner
          issue,     \* issue[f]: the stored value of a field
          first,     \* history: the issue as it was at the start
          patch,     \* patch[p]: the handler of p and the entries it submits
          log,       \* rows of issue_activities
          hooks,     \* webhooks that are active and subscribed to issue events
          event,     \* event[p]: how far the webhook job of p has got
          posted,    \* posted[p]: the hooks the event of p was sent to
          window,    \* history: hooks subscribed sometime, and throughout, until the job read them
          recent,    \* rows of user_recent_visits, latest visited_at first
          visit,     \* visit[v]: how far the visit v has got
          mru,       \* history: what recent would be without trimming
          untrimmed  \* history: has the last trim failed?

runner == <<status, waiting, stopped>>
patching == <<issue, first, patch>>
hooking == <<hooks, event, posted, window>>
visiting == <<recent, visit, mru, untrimmed>>
vars == <<runner, patching, log, hooking, visiting>>

Pool == INSTANCE FireAndForget WITH Jobs <- DeliveryJobs

Issue == [Fields -> Values]
Bodies == UNION {[S -> Values] : S \in SUBSET Fields}

\* read, wrote: what the handler read and wrote; over: what was there when it
\* wrote; after: the requests answered before it began; todo: what is left to submit.
Patching == [at : {"read", "failed", "submitting", "answered"}, body : Bodies,
             read : Issue, wrote : Issue, over : Issue,
             after : SUBSET Patches, todo : SUBSET Entries]
Events == [step : {"query", "post", "log", "over"}, left : SUBSET Hooks]
Rows == [by : Patches, field : Fields, old : Values, new : Values]

TypeOK == /\ status \in [DeliveryJobs -> Pool!Status] /\ waiting \in Seq(DeliveryJobs) /\ stopped \in BOOLEAN
          /\ issue \in Issue /\ first \in Issue
          /\ \A p \in Patches : patch[p] \in Patching \cup {[at |-> "new"]}
          /\ log \subseteq Rows
          /\ hooks \subseteq Hooks
          /\ event \in [Patches -> Events]
          /\ posted \in [Patches -> SUBSET Hooks]
          /\ window \in [Patches -> [ever : SUBSET Hooks, always : SUBSET Hooks]]
          /\ recent \in Seq(Projects) /\ mru \in Seq(Projects)
          /\ visit \in [Visits -> [at : {"new", "asked", "trim", "over"}, of : Projects]
                                    \cup {[at |-> "new"]}]
          /\ untrimmed \in BOOLEAN

Init == /\ Pool!Init
        /\ issue \in Issue /\ first = issue
        /\ patch = [p \in Patches |-> [at |-> "new"]]
        /\ log = {}
        /\ hooks \in SUBSET Hooks
        /\ event = [p \in Patches |-> [step |-> "query", left |-> {}]]
        /\ posted = [p \in Patches |-> {}]
        /\ window = [p \in Patches |-> [ever |-> {}, always |-> {}]]
        /\ recent = <<>> /\ mru = <<>>
        /\ visit = [v \in Visits |-> [at |-> "new"]]
        /\ untrimmed = FALSE

Running(j) == status[j] = "running"
\* Submit takes the job on or drops it; the handler cannot tell.
Submit(j) == Pool!Accept(j) \/ Pool!Refuse(j)

-----------------------------------------------------------------------------
(* The PATCH handler.                                                      *)

BeginPatch(p, body) ==
  /\ patch[p].at = "new"
  /\ patch' = [patch EXCEPT ![p] =
       [at |-> "read", body |-> body, read |-> issue, wrote |-> issue, over |-> issue,
        after |-> {q \in Patches : patch[q].at = "answered"}, todo |-> {}]]
  /\ UNCHANGED <<runner, issue, first, log, hooking, visiting>>

\* Fields the body leaves out are written back as they were read.
Merged(p) == [f \in Fields |-> IF f \in DOMAIN patch[p].body THEN patch[p].body[f]
                               ELSE patch[p].read[f]]

Changed(p, f) == f \in DOMAIN patch[p].body /\ Merged(p)[f] # patch[p].read[f]

\* The fields that changed, in their order, and at last the event.
Turn(todo, x) ==
  /\ x \in todo
  /\ IF x = "webhook" THEN todo = {x}
     ELSE \E n \in DOMAIN FieldOrder : /\ FieldOrder[n] = x
                                       /\ \A m \in 1..(n - 1) : FieldOrder[m] \notin todo

ToSubmitElseIf(p) ==
  {f \in Fields : Turn({g \in Fields : Changed(p, g)}, f)} \cup {"webhook"}
ToSubmit(p) == {f \in Fields : Changed(p, f)} \cup {"webhook"}

WriteIssueAnswersFirst(p) ==
  /\ patch[p].at = "read"
  /\ issue' = Merged(p)
  /\ patch' = [patch EXCEPT ![p].at = "answered", ![p].wrote = Merged(p),
                            ![p].over = issue, ![p].todo = ToSubmit(p)]
  /\ window' = [window EXCEPT ![p] = [ever |-> hooks, always |-> hooks]]
  /\ UNCHANGED <<runner, first, log, hooks, event, posted, visiting>>
WriteIssue(p) ==
  /\ patch[p].at = "read"
  /\ issue' = Merged(p)
  /\ patch' = [patch EXCEPT ![p].at = "submitting", ![p].wrote = Merged(p),
                            ![p].over = issue, ![p].todo = ToSubmit(p)]
  /\ window' = [window EXCEPT ![p] = [ever |-> hooks, always |-> hooks]]
  /\ UNCHANGED <<runner, first, log, hooks, event, posted, visiting>>

\* The update fails: 500, and nothing is submitted.
WriteFails(p) ==
  /\ patch[p].at = "read"
  /\ patch' = [patch EXCEPT ![p].at = "failed"]
  /\ UNCHANGED <<runner, issue, first, log, hooking, visiting>>

Written(p) == patch[p].at \in {"submitting", "answered"}

\* recordActivity and fireWebhook; 204 after the last of them.
SubmitNext(p) ==
  /\ Written(p)
  /\ \E x \in Entries :
       /\ Turn(patch[p].todo, x)
       /\ Submit(<<p, x>>)
       /\ patch' = [patch EXCEPT ![p].todo = @ \ {x},
                                 ![p].at = IF patch[p].todo = {x} THEN "answered" ELSE @]
  /\ UNCHANGED <<issue, first, log, hooking, visiting>>

-----------------------------------------------------------------------------
(* The jobs.                                                               *)

StartJob(j) == Pool!Start(j) /\ UNCHANGED <<patching, log, hooking, visiting>>

\* The drain is over: what is submitted from now on is refused.
Shutdown == Pool!Stop /\ UNCHANGED <<patching, log, hooking, visiting>>

Row(p, f) == [by |-> p, field |-> f, old |-> patch[p].read[f], new |-> patch[p].wrote[f]]

\* activity.Record: one insert; if it fails the error is only logged.
Record(p, f) ==
  /\ Running(<<p, f>>)
  /\ log' = log \cup {Row(p, f)} \/ UNCHANGED log
  /\ Pool!End(<<p, f>>)
  /\ UNCHANGED <<patching, hooking, visiting>>

\* webhookdelivery.Fire: the query, then a post and a log row for each target.
\* The job is over with its last target.
Step(p, step, left) ==
  /\ event' = [event EXCEPT ![p] = [step |-> step, left |-> left]]
  /\ IF step = "over" THEN Pool!End(<<p, "webhook">>) ELSE UNCHANGED runner

ReadTargetsFirstOnly(p) ==
  /\ Running(<<p, "webhook">>) /\ event[p].step = "query"
  /\ IF hooks = {} THEN Step(p, "over", {}) ELSE \E h \in hooks : Step(p, "post", {h})
  /\ UNCHANGED <<patching, log, hooks, posted, window, visiting>>
ReadTargets(p) ==
  /\ Running(<<p, "webhook">>) /\ event[p].step = "query"
  /\ Step(p, IF hooks = {} THEN "over" ELSE "post", hooks)
  /\ UNCHANGED <<patching, log, hooks, posted, window, visiting>>

\* The query fails at once or in mid-result (rows.Err is not looked at): the
\* job goes on with the targets it has, and no hook is promised the event.
ReadTargetsFails(p) ==
  /\ Running(<<p, "webhook">>) /\ event[p].step = "query"
  /\ \E some \in SUBSET hooks : Step(p, IF some = {} THEN "over" ELSE "post", some)
  /\ window' = [window EXCEPT ![p].always = {}]
  /\ UNCHANGED <<patching, log, hooks, posted, visiting>>

\* Sent once, whatever the receiver answers and whether or not it is reached.
Post(p, h) ==
  /\ Running(<<p, "webhook">>) /\ event[p].step = "post" /\ h \in event[p].left
  /\ posted' = [posted EXCEPT ![p] = @ \cup {h}]
  /\ Step(p, "log", event[p].left \ {h})
  /\ UNCHANGED <<patching, log, hooks, window, visiting>>

\* The row of webhook_logs; its error is dropped.
LogPost(p) ==
  /\ Running(<<p, "webhook">>) /\ event[p].step = "log"
  /\ Step(p, IF event[p].left = {} THEN "over" ELSE "post", event[p].left)
  /\ UNCHANGED <<patching, log, hooks, posted, window, visiting>>

\* A webhook is created, deleted, switched on or off, or (un)subscribed.
Subscribed(now) ==
  /\ hooks' = now
  /\ window' = [p \in Patches |->
       IF event[p].step = "query"
       THEN [ever |-> window[p].ever \cup now, always |-> window[p].always \cap now]
       ELSE window[p]]
  /\ UNCHANGED <<runner, patching, log, event, posted, visiting>>
Subscribe(h) == h \notin hooks /\ Subscribed(hooks \cup {h})
Unsubscribe(h) == h \in hooks /\ Subscribed(hooks \ {h})

-----------------------------------------------------------------------------
(* Recent visits.                                                          *)

Retrieve(v, e) ==
  /\ visit[v].at = "new"
  /\ visit' = [visit EXCEPT ![v] = [at |-> "asked", of |-> e]]
  /\ Submit(<<v, "visit">>)
  /\ UNCHANGED <<patching, log, hooking, recent, mru, untrimmed>>

\* The row of e with visited_at = now(), new or moved to the front: those before
\* its place move one down.
Place(list, e) == IF \E n \in DOMAIN list : list[n] = e
                  THEN CHOOSE n \in DOMAIN list : list[n] = e ELSE Len(list) + 1
Bump(list, e) ==
  LET k == Place(list, e) IN
  [n \in 1..(IF k > Len(list) THEN k ELSE Len(list)) |->
     IF n = 1 THEN e ELSE IF n <= k THEN list[n - 1] ELSE list[n]]

Upsert(v) ==
  /\ Running(<<v, "visit">>) /\ visit[v].at = "asked"
  /\ recent' = Bump(recent, visit[v].of)
  /\ mru' = Bump(mru, visit[v].of)
  /\ visit' = [visit EXCEPT ![v].at = "trim"]
  /\ UNCHANGED <<runner, patching, log, hooking, untrimmed>>

UpsertFails(v) ==
  /\ Running(<<v, "visit">>) /\ visit[v].at = "asked"
  /\ visit' = [visit EXCEPT ![v].at = "over"]
  /\ Pool!End(<<v, "visit">>)
  /\ UNCHANGED <<patching, log, hooking, recent, mru, untrimmed>>

TrimOneMore(v) ==
  /\ Running(<<v, "visit">>) /\ visit[v].at = "trim"
  /\ recent' = SubSeq(recent, 1, IF Len(recent) <= KeepN THEN Len(recent) ELSE KeepN + 1)
  /\ untrimmed' = FALSE
  /\ visit' = [visit EXCEPT ![v].at = "over"]
  /\ Pool!End(<<v, "visit">>)
  /\ UNCHANGED <<patching, log, hooking, mru>>
Trim(v) ==
  /\ Running(<<v, "visit">>) /\ visit[v].at = "trim"
  /\ recent' = SubSeq(recent, 1, IF Len(recent) < KeepN THEN Len(recent) ELSE KeepN)
  /\ untrimmed' = FALSE
  /\ visit' = [visit EXCEPT ![v].at = "over"]
  /\ Pool!End(<<v, "visit">>)
  /\ UNCHANGED <<patching, log, hooking, mru>>

TrimFails(v) ==
  /\ Running(<<v, "visit">>) /\ visit[v].at = "trim"
  /\ untrimmed' = TRUE
  /\ visit' = [visit EXCEPT ![v].at = "over"]
  /\ Pool!End(<<v, "visit">>)
  /\ UNCHANGED <<patching, log, hooking, recent, mru>>

-----------------------------------------------------------------------------
Handling == \E p \in Patches : \/ \E body \in Bodies : BeginPatch(p, body)
                               \/ WriteIssue(p) \/ WriteFails(p) \/ SubmitNext(p)
Firing == \E p \in Patches : \/ ReadTargets(p) \/ ReadTargetsFails(p) \/ LogPost(p)
                             \/ \E h \in Hooks : Post(p, h)
Visiting == \E v \in Visits : \/ \E e \in Projects : Retrieve(v, e)
                              \/ Upsert(v) \/ UpsertFails(v) \/ Trim(v) \/ TrimFails(v)

Next == \/ Handling \/ Firing \/ Visiting \/ Shutdown
        \/ \E j \in DeliveryJobs : StartJob(j)
        \/ \E p \in Patches, f \in Fields : Record(p, f)
        \/ \E h \in Hooks : Subscribe(h) \/ Unsubscribe(h)

Spec == Init /\ [][Next]_vars

-----------------------------------------------------------------------------
(* Properties.                                                             *)

Logged(p, f) == \E r \in log : r.by = p /\ r.field = f
\* Job x of p is still to be submitted, or in the queue.
Waits(p, x) == status[<<p, x>>] = "pending" \/ x \in patch[p].todo

\* The history of a field accounts for its value: its rows lead from the value
\* it had at first to the one it has now, whatever the order of the PATCHes
\* and of their jobs.  Not while a row is missing - its job still to run,
\* dropped, or failed - and not once a PATCH wrote the field over a value that
\* it had not read: update() writes back every field, those it was not asked
\* to change too, and records no row for what it so undoes.
Accounted(f) ==
  \A p \in {q \in Patches : Written(q)} :
     /\ patch[p].over[f] = patch[p].read[f]
     /\ status[<<p, f>>] # "new" \/ Waits(p, f) => Logged(p, f)
HistoryExplainsIssue ==
  \A f \in Fields : Accounted(f) =>
    \A v \in Values :
      Cardinality({r \in log : r.field = f /\ r.new = v}) + (IF first[f] = v THEN 1 ELSE 0)
        = Cardinality({r \in log : r.field = f /\ r.old = v}) + (IF issue[f] = v THEN 1 ELSE 0)

\* The history and the receivers see requests that did not overlap in their
\* order: when a PATCH began after another was answered, none of its rows or
\* events comes first while that of the other has not even been started (the
\* two may still cross once both jobs run, each on its own worker).
InOrder ==
  \A q \in Patches : patch[q].at # "new" =>
    \A p \in patch[q].after :
      /\ \A f \in Fields : Logged(q, f) => ~Waits(p, f)
      /\ posted[q] # {} => ~Waits(p, "webhook")

\* An event goes to every hook subscribed all the while from the write to the
\* job's query, unless that query fails, and to none that was subscribed at no
\* time in between; hooks that come or go in between may or may not get it.
EventsReachSubscribers ==
  \A p \in Patches : /\ posted[p] \subseteq window[p].ever
                     /\ event[p].step = "over" => window[p].always \subseteq posted[p]

\* The list of visits is, newest first, the projects visited last, at least
\* KeepN if there were as many, and longer only by the visits whose trim is
\* still to come, however upserts and trims of two workers alternate; only a
\* failing trim leaves more, until the next one.
LatestVisitsKept ==
  /\ recent = SubSeq(mru, 1, Len(recent))
  /\ Len(recent) >= KeepN \/ recent = mru
  /\ untrimmed \/ Len(recent) <= KeepN + Cardinality({v \in Visits : visit[v].at = "trim"})

\* The types, with the bound and the order of recent visits.
DeliveriesInv == TypeOK /\ LatestVisitsKept
=============================================================================
