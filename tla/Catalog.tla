------------------------------- MODULE Catalog -------------------------------
(***************************************************************************)
(* The tables whose handlers do little more than create, PATCH and delete  *)
(* rows: labels, states (as far as Workflow leaves them out), views,       *)
(* webhooks, API tokens, exports, themes, saved analytics, estimates,      *)
(* names and profiles, view settings, drafts and issue dates, favorites,   *)
(* comments, links, reactions and subscribers.  They share the statements  *)
(* of Records and differ in what they look up first, which columns a       *)
(* PATCH writes back and whether it minds that the row is gone.            *)
(* Permissions are left out: the key of a row holds whom it belongs to.    *)
(***************************************************************************)
EXTENDS Records

\* What the code sets by itself.
Default == CHOOSE v \in Values : TRUE

\* ---- labels and states: key is the name, one the color -----------------------
NameExists(kind, key) == \E j \in Live(kind) : Folded[row[j].key] = Folded[key]
\* Mutant: the lookup minds the case.
LabelNameExistsAsSpelled(key) == \E j \in Live("label") : row[j].key = key
LabelNameExists(key) == NameExists("label", key)
StateNameExists(key) == NameExists("state", key)

\* The name is looked up without regard to case; a failing lookup counts as a free name.
BeginNamed(r, kind, taken) ==
  \E key \in Keys, one \in Values, failed \in BOOLEAN :
    /\ req[r] = Idle
    /\ failed \/ key \notin taken
    /\ req' = [req EXCEPT ![r] = [Idle EXCEPT !.at = "insert",
                                              !.new = New(kind, key, one, None),
                                              !.old = IF failed THEN {"key"} ELSE {}]]
    /\ UNCHANGED <<row, asked, doubtful, slipped>>
\* A new name is not looked up: only the index, which minds the case, may refuse it.
Rename(r, kind) ==
  /\ Serving(r, kind, "write") /\ IsLive(r)
  /\ Slip(req[r].id, "key" \in req[r].fields \cup req[r].old)
  /\ Store(r, {"key", "one"}, Idle)

BeginCreateLabel(r) == BeginNamed(r, "label", {k \in Keys : LabelNameExists(k)})
CreateLabel(r) ==
  Serving(r, "label", "insert") /\ \E i \in Rows : Insert(r, i, req[r].new, Idle)
BeginUpdateLabel(r) == Patch(r, "label", {"key", "one"})
UpdateLabel(r) == Rename(r, "label")
DeleteLabel == Remove("label", "gone")

BeginCreateState(r) == BeginNamed(r, "state", {k \in Keys : StateNameExists(k)})
CreateState(r) ==
  Serving(r, "state", "insert") /\ \E i \in Rows : Insert(r, i, req[r].new, Idle)
BeginUpdateState(r) == Patch(r, "state", {"key", "one"})
UpdateState(r) == Rename(r, "state")
DeleteState == Remove("state", "gone") \* when Workflow lets it

\* ---- views: one and two are any two of their blocks ------------------------
CreateView(one, two) == Create(New("view", None, one, two))
DoCreate == \E one, two \in Values : CreateView(one, two) \* of a workspace or a project
BeginUpdateView(r) == Patch(r, "view", {"one", "two"})
UpdateView(r) == /\ Serving(r, "view", "write") /\ IsLive(r) /\ UNCHANGED slipped
                 /\ Store(r, {"one", "two"}, Idle)
SoftDeleteView == Remove("view", "deleted")

\* ---- webhooks: key is the url, one the flags, two the secret ---------------
CreateWebhook ==
  \E key \in Keys, one, two \in Values : Create(New("webhook", key, one, two))
BeginUpdateWebhook(r) == Patch(r, "webhook", {"key", "one"})
\* Mutant: the secret is written back with the rest.
UpdateWebhookInFull(r) == /\ Serving(r, "webhook", "write") /\ IsLive(r) /\ UNCHANGED slipped
                          /\ Store(r, {"key", "one", "two"}, Idle)
UpdateWebhook(r) == /\ Serving(r, "webhook", "write") /\ IsLive(r) /\ UNCHANGED slipped
                    /\ Store(r, {"key", "one"}, Idle)
DeleteWebhook == Remove("webhook", "gone")
RegenerateSecret ==
  \E i \in Live("webhook"), two \in Values : Merge(i, [row[i] EXCEPT !.two = two], {"two"})

\* ---- API tokens: one is the label, two the description ---------------------
CreateToken == \E one, two \in Values : Create(New("token", None, one, two))
BeginUpdateToken(r) == Patch(r, "token", {"one", "two"})
UpdateToken(r) == /\ Serving(r, "token", "write") /\ IsLive(r) /\ UNCHANGED slipped
                  /\ Store(r, {"one", "two"}, Idle)
DeleteToken == Remove("token", "gone")

\* ---- exports: one is what they are of; nothing ever reads or changes them ---
CreateExport == \E one \in Values : Create(New("export", None, one, None))

\* ---- themes: key is the name, one the colors; deleted_at is a field --------
CreateTheme == \E key \in Keys, one \in Values, status \in {"live", "deleted"} :
                 Create([New("theme", key, one, None) EXCEPT !.status = status])
BeginUpdateTheme(r) ==
  \/ Patch(r, "theme", {"key", "one"})
  \/ \E i \in Live("theme") :
       Begin(r, "write", i, {"status"}, [row[i] EXCEPT !.status = "deleted"])
\* deleted_at is written back too, and the row need no longer be live.
UpdateTheme(r) == /\ Serving(r, "theme", "write") /\ UNCHANGED slipped
                  /\ Store(r, {"key", "one", "status"}, Idle)
DeleteTheme == Remove("theme", "deleted")

\* ---- saved analytics: one is the name, two the query_dict, key the query ---
CreateSavedAnalytic ==
  \E key \in Keys, one, two \in Values : Create(New("saved analytic", key, one, two))
\* Whatever the body holds, the query is reset.
BeginUpdateSavedAnalytic(r) ==
  \E i \in Live("saved analytic"), f \in {"one", "two"}, v \in Values :
    Begin(r, "write", i, {f, "key"}, [row[i] EXCEPT ![f] = v, !.key = None])
UpdateSavedAnalytic(r) == /\ Serving(r, "saved analytic", "write") /\ IsLive(r)
                          /\ UNCHANGED slipped
                          /\ Store(r, {"key", "one", "two"}, Idle)
DeleteSavedAnalytic == Remove("saved analytic", "gone")

\* ---- estimates: one is the name, two the type; a point's one is its value --
CreateEstimate(r, one, two) ==
  LET new == New("estimate", None, one, two) IN
  \E i \in Rows : Insert(r, i, new, [Idle EXCEPT !.at = "points", !.new = new])
BeginCreateEstimate(r) == req[r] = Idle /\ \E one, two \in Values : CreateEstimate(r, one, two)
\* Points follow one by one; one that fails is left out of the answer, no more.
CreateEstimatePoint(r) ==
  \E one \in Values : /\ Serving(r, "estimate", "points")
                      /\ Create(New("point", None, one, None))
BeginUpdateEstimate(r) == Patch(r, "estimate", {"one", "two"})
\* deleted_at is not looked at again.
UpdateEstimate(r) == /\ Serving(r, "estimate", "write") /\ UNCHANGED slipped
                     /\ Store(r, {"one", "two"}, [req[r] EXCEPT !.at = "values", !.id = None])
\* Any point may be named, of this estimate or another.
UpdateEstimatePointValue(r) ==
  /\ Serving(r, "estimate", "values")
  /\ \E i \in Live("point"), one \in Values :
       MergeUnnoticed(i, [row[i] EXCEPT !.one = one], {"one"})
EndEstimate(r) == /\ req[r].at \in {"points", "values"}
                  /\ req' = [req EXCEPT ![r] = Idle]
                  /\ UNCHANGED <<row, asked, doubtful, slipped>>
DeleteEstimate == RemoveUnnoticed("estimate", "deleted")

\* ---- workspaces, names and profiles: rows that others create ---------------
BeginUpdateWorkspace(r) == Patch(r, "workspace", {"one", "two"})
UpdateWorkspace(r) == /\ Serving(r, "workspace", "write") /\ IsLive(r) /\ UNCHANGED slipped
                      /\ Store(r, {"one", "two"}, Idle)
\* The names written back are those of the user that Require has put into the context.
BeginUpdateMe(r) == Patch(r, "names", {"one", "two"})
UpdateUserNames(r) == /\ Serving(r, "names", "write") /\ UNCHANGED slipped
                      /\ Store(r, {"one", "two"}, Idle)
\* updateProfile answers whether the merge has worked, tourCompleted does not mind.
MergeUserProfile == \E i \in Live("profile"), f \in {"one", "two"}, v \in Values :
                      Merge(i, [row[i] EXCEPT ![f] = v], {f})
TourCompleted == \E i \in Live("profile") :
                   MergeUnnoticed(i, [row[i] EXCEPT !.one = Default], {"one"})

\* ---- view settings: key is whose they are and of what, a block per field ---
\* Both kinds are created on first sight.  fields is empty in a GET.
BeginSettings(r, kind, failed) ==
  \E key \in Keys, fields \in {{}, {"one"}, {"two"}}, v \in Values :
    LET set(old) == [old EXCEPT !.one = IF "one" \in fields THEN v ELSE @,
                                !.two = IF "two" \in fields THEN v ELSE @]
        there == {i \in Live(kind) : row[i].key = key}
    IN IF there = {} \/ failed
       THEN /\ req[r] = Idle
            /\ req' = [req EXCEPT ![r] = [Idle EXCEPT !.at = "insert", !.fields = fields,
                                           !.new = set(New(kind, key, Default, Default))]]
            /\ UNCHANGED <<row, asked, doubtful, slipped>>
       ELSE \E i \in there : fields # {} /\ Begin(r, "write", i, fields, set(row[i]))
\* The row as it is first stored, and how the request goes on with it.
Defaults(r) == New(req[r].new.kind, req[r].new.key, Default, Default)
Onwards(r, i, new) ==
  IF req[r].fields = {} THEN Idle
  ELSE [req[r] EXCEPT !.at = "write", !.id = i, !.old = {},
          !.new = [f \in DOMAIN Blank |-> IF f \in req[r].fields THEN @[f] ELSE new[f]]]

\* A failing lookup counts as none.
BeginUserProps(r) == \E failed \in BOOLEAN : BeginSettings(r, "user properties", failed)
\* A row that has come in between is taken instead.
CreateUserProps(r) ==
  /\ Serving(r, "user properties", "insert")
  /\ \E i \in Rows :
       \/ Insert(r, i, Defaults(r), Onwards(r, i, Defaults(r)))
       \/ /\ i \in Live("user properties") /\ row[i].key = req[r].new.key
          /\ req' = [req EXCEPT ![r] = Onwards(r, i, row[i])]
          /\ UNCHANGED <<row, asked, doubtful, slipped>>
UpdateUserProps(r) == /\ Serving(r, "user properties", "write") /\ UNCHANGED slipped
                      /\ Store(r, {"one", "two"}, Idle)
BeginEntityProps(r) == BeginSettings(r, "entity properties", FALSE)
CreateEntityProps(r) ==
  /\ Serving(r, "entity properties", "insert")
  /\ \E i \in Rows : Insert(r, i, Defaults(r), Onwards(r, i, Defaults(r)))
\* Each block is merged into what is stored.
MergeEntityProps(r) == /\ Serving(r, "entity properties", "write") /\ UNCHANGED slipped
                       /\ Store(r, req[r].fields, Idle)

\* ---- drafts and issue dates: one is the start date, two the target date ----
Dates == Values \cup {None}
DatesOK(new) == new.one # None /\ new.two # None => new.one <= new.two
DatesAsked(i, fields, start, target) ==
  [row[i] EXCEPT !.one = IF "one" \in fields THEN start ELSE @,
                 !.two = IF "two" \in fields THEN target ELSE @]
DateFields == {{"one"}, {"two"}, {"one", "two"}}

CreateDraft == \E one, two \in Dates : LET new == New("draft", None, one, two) IN
                 DatesOK(new) /\ Create(new)
\* What the dates are going to be is checked against the row as it has been read.
BeginUpdateDraft(r) ==
  \E i \in Live("draft"), fields \in DateFields, start, target \in Dates :
    LET new == DatesAsked(i, fields, start, target)
    IN DatesOK(new) /\ Begin(r, "write", i, fields, new)
UpdateDraft(r) ==
  /\ Serving(r, "draft", "write") /\ IsLive(r)
  /\ Slip(req[r].id, req[r].old \cap {"one", "two"} # {})
  /\ Store(r, req[r].fields, Idle)
DestroyDraft == Remove("draft", "gone")
BeginPromote(r) == \E i \in Live("draft") : Begin(r, "promote", i, {}, row[i])
\* The issue takes the dates as they were read.
PromoteDraft(r) ==
  LET new == New("issue", None, req[r].new.one, req[r].new.two) IN
  /\ Serving(r, "draft", "promote") /\ UNCHANGED doubtful
  /\ \E i \in Rows :
       /\ row[i] = Blank
       /\ row' = [row EXCEPT ![i] = new]
       /\ asked' = [asked EXCEPT ![i] = new]
       /\ Slip(i, req[r].id \in slipped)
       /\ req' = [Noticed(i, new) EXCEPT ![r].at = "consume"]
ConsumeDraft(r) ==
  /\ Serving(r, "draft", "consume")
  /\ UNCHANGED slipped
  /\ LET i == req[r].id
         new == [row[i] EXCEPT !.status = "gone"]
     IN /\ Ask(i, new, {"status"})
        /\ \/ /\ row' = [row EXCEPT ![i] = new]
              /\ doubtful' = doubtful \ {<<i, "status">>}
              /\ req' = [Noticed(i, new) EXCEPT ![r] = Idle]
           \/ /\ doubtful' = doubtful \cup {<<i, "status">>} \* the error is dropped
              /\ req' = [req EXCEPT ![r] = Idle]
              /\ UNCHANGED row

\* Both dates are checked together, then written by a statement each.
BeginBulkUpdateDates(r) ==
  \E i \in Live("issue"), fields \in DateFields, start, target \in Dates :
    LET new == DatesAsked(i, fields, start, target)
    IN DatesOK(new) /\ Begin(r, IF "one" \in fields THEN "start" ELSE "target", i, fields, new)
SetDate(r, f, then) ==
  LET i == req[r].id
      new == [row[i] EXCEPT ![f] = req[r].new[f]]
  IN /\ asked' = [asked EXCEPT ![i][f] = new[f]]
     /\ \/ /\ row' = [row EXCEPT ![i] = new]
           /\ doubtful' = doubtful \ {<<i, f>>}
           /\ Slip(i, req[r].old \cap {"one", "two"} # {})
           /\ req' = [Noticed(i, new) EXCEPT ![r] = then]
        \/ /\ doubtful' = doubtful \cup {<<i, f>>} \* the error is dropped
           /\ slipped' = slipped \cup {i}
           /\ req' = [req EXCEPT ![r] = then]
           /\ UNCHANGED row
SetStartDate(r) ==
  /\ Serving(r, "issue", "start")
  /\ SetDate(r, "one",
             IF "two" \in req[r].fields THEN [req[r] EXCEPT !.at = "target"] ELSE Idle)
SetTargetDate(r) == Serving(r, "issue", "target") /\ SetDate(r, "two", Idle)

\* ---- favorites: key is the entity and its user, None one without identifier -
CreateFavorite(key) == Create(New("favorite", key, None, None))
AddFavorite == \E key \in Keys \cup {None} : CreateFavorite(key)
DeleteFavorite == RemoveUnnoticed("favorite", "gone")
CreateFavoriteView == \E key \in Keys \cup {None} : Create(New("favorite", key, None, None))
DeleteFavoriteView == \E i \in Live("favorite") :
  row[i].key # None /\ Merge(i, [row[i] EXCEPT !.status = "gone"], {"status"})

\* ---- issues as the fields of a PATCH and their parent see them: one is the name, two the
\* state, key the parent ----
BeginUpdateIssue(r) == Patch(r, "sub-issue", {"one", "two"})
\* Name, priority and state are written back; the parent is none of its columns.
UpdateIssue(r) == /\ Serving(r, "sub-issue", "write") /\ UNCHANGED slipped
                  /\ IF IsLive(r) THEN Store(r, {"one", "two"}, Idle)
                     ELSE /\ req' = [req EXCEPT ![r] = Idle] \* 204 all the same
                          /\ UNCHANGED <<row, asked, doubtful>>
\* One statement for each issue of the list.
SetIssueParent ==
  \E i \in {j \in Rows : row[j].kind = "sub-issue"}, key \in Keys :
    MergeUnnoticed(i, [row[i] EXCEPT !.key = key], {"key"})
SoftDeleteIssue == Remove("sub-issue", "deleted")
\* One statement deletes all issues of the list; no property relates two of them.
BulkSoftDeleteIssues == RemoveUnnoticed("sub-issue", "deleted")

\* ---- what hangs on an issue: key is the user and the reaction --------------
CreateComment(one) == Create(New("comment", None, one, None))
AddComment == \E one \in Values : CreateComment(one)
DeleteComment == RemoveUnnoticed("comment", "gone")
CreateLink(one) == Create(New("link", None, one, None))
AddLink == \E one \in Values : CreateLink(one)
DeleteLink == RemoveUnnoticed("link", "gone")
CreateReaction(key) == Create(New("reaction", key, None, None))
AddReaction == \E key \in Keys : CreateReaction(key)
\* A failing lookup counts as not subscribed.
BeginSubscribe(r) ==
  \E key \in Keys, failed \in BOOLEAN :
    /\ req[r] = Idle
    /\ failed \/ \A i \in Live("subscriber") : row[i].key # key
    /\ req' = [req EXCEPT ![r] = [Idle EXCEPT !.at = "insert",
                                              !.new = New("subscriber", key, None, None)]]
    /\ UNCHANGED <<row, asked, doubtful, slipped>>
\* One that has come in between is kept, a failure is dropped: the answer is the same.
Subscribe(r) ==
  /\ Serving(r, "subscriber", "insert")
  /\ \/ \E i \in Rows : Insert(r, i, req[r].new, Idle)
     \/ /\ req' = [req EXCEPT ![r] = Idle]
        /\ UNCHANGED <<row, asked, doubtful, slipped>>
Unsubscribe == RemoveUnnoticed("subscriber", "gone")

\* ---- all of them, by what they work on ---------------------------------------------------
Labels(r) == BeginCreateLabel(r) \/ CreateLabel(r) \/ BeginUpdateLabel(r) \/ UpdateLabel(r)
             \/ DeleteLabel
States(r) == BeginCreateState(r) \/ CreateState(r) \/ BeginUpdateState(r) \/ UpdateState(r)
             \/ DeleteState
Views(r) == DoCreate \/ BeginUpdateView(r) \/ UpdateView(r) \/ SoftDeleteView
Webhooks(r) == CreateWebhook \/ BeginUpdateWebhook(r) \/ UpdateWebhook(r) \/ DeleteWebhook
               \/ RegenerateSecret
Tokens(r) == CreateToken \/ BeginUpdateToken(r) \/ UpdateToken(r) \/ DeleteToken
             \/ CreateExport
Themes(r) == CreateTheme \/ BeginUpdateTheme(r) \/ UpdateTheme(r) \/ DeleteTheme
SavedAnalytics(r) == CreateSavedAnalytic \/ BeginUpdateSavedAnalytic(r)
                     \/ UpdateSavedAnalytic(r) \/ DeleteSavedAnalytic
Estimates(r) == BeginCreateEstimate(r) \/ CreateEstimatePoint(r) \/ BeginUpdateEstimate(r)
                \/ UpdateEstimate(r) \/ UpdateEstimatePointValue(r) \/ EndEstimate(r)
                \/ DeleteEstimate
Names(r) == BeginUpdateWorkspace(r) \/ UpdateWorkspace(r) \/ BeginUpdateMe(r)
            \/ UpdateUserNames(r) \/ MergeUserProfile \/ TourCompleted
UserProps(r) == BeginUserProps(r) \/ CreateUserProps(r) \/ UpdateUserProps(r)
EntityProps(r) == BeginEntityProps(r) \/ CreateEntityProps(r) \/ MergeEntityProps(r)
DraftsAndDates(r) ==
  \/ CreateDraft \/ BeginUpdateDraft(r) \/ UpdateDraft(r) \/ DestroyDraft
  \/ BeginPromote(r) \/ PromoteDraft(r) \/ ConsumeDraft(r)
  \/ BeginBulkUpdateDates(r) \/ SetStartDate(r) \/ SetTargetDate(r)
SubIssues(r) == BeginUpdateIssue(r) \/ UpdateIssue(r) \/ SetIssueParent
                \/ SoftDeleteIssue \/ BulkSoftDeleteIssues
Favorites == AddFavorite \/ DeleteFavorite \/ CreateFavoriteView \/ DeleteFavoriteView
Details(r) == AddComment \/ DeleteComment \/ AddLink \/ DeleteLink \/ AddReaction
              \/ BeginSubscribe(r) \/ Subscribe(r) \/ Unsubscribe
CatalogNext ==
  \E r \in Requests :
    \/ Labels(r) \/ States(r) \/ Views(r) \/ Webhooks(r) \/ Tokens(r) \/ Themes(r)
    \/ SavedAnalytics(r) \/ Estimates(r) \/ Names(r) \/ UserProps(r) \/ EntityProps(r)
    \/ DraftsAndDates(r)
    \/ SubIssues(r) \/ Favorites \/ Details(r) \/ Refused(r)

\* The rows that other handlers create.
Elsewhere ==
  {new \in Record : /\ new.kind \in {"workspace", "names", "profile", "issue", "sub-issue"}
                    /\ new.status = "live"
                    /\ new.kind = "issue" => DatesOK(new)}

CatalogSpec == RecordsInit(Elsewhere) /\ [][CatalogNext]_recordVars

\* ---- properties ------------------------------------------------------------
\* No two labels, or states, of a project have names that differ in case only, unless one
\* of them was created on a lookup that was overtaken or failed, or renamed (a rename looks
\* up nothing).  No two rows share what a unique index covers.
KeysDistinct ==
  \A i, j \in Rows :
    i # j /\ row[i].kind = row[j].kind /\ row[i].status = "live" /\ row[j].status = "live"
    /\ row[i].kind \in Indexed /\ row[i].key # None /\ row[j].key # None
    => /\ row[i].key # row[j].key
       /\ row[i].kind \in {"label", "state"} /\ {i, j} \cap slipped = {}
          => Folded[row[i].key] # Folded[row[j].key]

\* A draft or an issue does not start after its target date, unless another request or a
\* failing statement came between the check and the write: drafts keep the order through
\* PATCHes of one date, an issue takes over dates in order, and a bulk update that is
\* neither disturbed nor half done leaves them in order.
DatesInOrder ==
  \A i \in Rows \ slipped :
    /\ row[i].kind \in {"draft", "issue"}
    /\ \A r \in Requests : req[r].at = "target" => req[r].id # i
    => DatesOK(row[i])

\* The types of the records, and the two above: names are told apart and dates in order,
\* whatever requests on the same rows overlap.
CatalogOK == RecordsOK /\ KeysDistinct /\ DatesInOrder

\* Each field of each row is as the last request that asked for it left it: a PATCH of some
\* fields leaves the others alone and reaches no other row.  What doubtful holds is the
\* exception: a field written back as it was read, over a newer one, or asked for by a
\* statement that failed without a word.
AsLastAsked == \A i \in Rows, f \in Fields : <<i, f>> \notin doubtful => row[i][f] = asked[i][f]

\* What no overlap can undo: a new secret of a webhook, blocks merged by the database, and
\* a deletion, except that of a theme, whose PATCH writes deleted_at back.  Such a field
\* changes to what was last asked for it and to nothing else; a PATCH that has read the row
\* before never puts an older value there.
SafeFields(kind) == CASE kind = "webhook" -> {"two", "status"}
                      [] kind \in {"profile", "entity properties"} -> Fields
                      [] kind = "theme" -> {}
                      [] OTHER -> {"status"}
OverlapsKeep ==
  [][\A i \in Rows : \A f \in SafeFields(row'[i].kind) :
       row'[i][f] # row[i][f] => row'[i][f] = asked'[i][f]]_recordVars
=============================================================================
