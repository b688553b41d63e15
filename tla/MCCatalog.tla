------------------------------ MODULE MCCatalog ------------------------------
EXTENDS Catalog, Assets, FiniteSets, TLC

CONSTANTS k1, k2, k3

\* k1 and k2 differ in case only.
MCFolded == [k \in Keys |-> IF k = k2 THEN k1 ELSE k]

VARIABLES spent, \* requests that have begun
          theme  \* which requests there are: a group of Catalog's, or those of Assets

Groups == {"labels", "states", "views", "webhooks", "tokens", "themes", "saved analytics",
           "estimates", "names", "user properties", "entity properties", "dates", "sub-issues",
           "favorites", "details", "assets"}

\* Rows that are there from the beginning: those created by other modules, or one to work on.
Given(t) == CASE t = "names" -> {New(k, None, 1, 1) : k \in {"workspace", "names", "profile"}}
              [] t = "labels" -> {New("label", k1, 1, None)}
              [] t = "states" -> {New("state", k1, 1, None)}
              [] t = "themes" -> {New("theme", k1, 1, None)}
              [] t = "webhooks" -> {New("webhook", k1, 1, 1)}
              [] t = "saved analytics" -> {New("saved analytic", k1, 1, 1)}
              [] t = "dates" -> {New("draft", None, 1, 2), New("issue", None, 1, 2)}
              [] t = "sub-issues" -> {New("sub-issue", None, 1, 1)}
              [] t = "estimates" -> {New("point", None, 1, None)}
              [] OTHER -> {}

MCInit ==
  /\ theme \in Groups /\ spent = 0
  /\ RecordsInit(Given(theme))
  /\ \A g \in Given(theme) : Cardinality({i \in Rows : row[i] = g}) = 1
  /\ AssetsInit

Budget == [t \in Groups |-> CASE t \in {"assets", "estimates"} -> 4 [] OTHER -> 3]

Of(r) == CASE theme = "labels" -> Labels(r)
           [] theme = "states" -> States(r)
           [] theme = "views" -> Views(r)
           [] theme = "webhooks" -> Webhooks(r)
           [] theme = "tokens" -> Tokens(r)
           [] theme = "themes" -> Themes(r)
           [] theme = "saved analytics" -> SavedAnalytics(r)
           [] theme = "estimates" -> Estimates(r)
           [] theme = "names" -> Names(r)
           [] theme = "user properties" -> UserProps(r)
           [] theme = "entity properties" -> EntityProps(r)
           [] theme = "dates" -> DraftsAndDates(r)
           [] theme = "sub-issues" -> SubIssues(r)
           [] theme = "favorites" -> Favorites
           [] theme = "details" -> Details(r)

\* A step counts when it begins a request or is one.
Continues == \/ \E r \in Requests : req[r].at # "idle" /\ req'[r].at # req[r].at
             \/ \E g \in Jobs : job[g] # NoJob /\ job'[g].at # job[g].at
MCNext ==
  /\ \/ /\ theme # "assets" /\ UNCHANGED assetVars
        /\ \E r \in Requests : Of(r) \/ Refused(r)
     \/ theme = "assets" /\ AssetsNext /\ UNCHANGED recordVars
  /\ theme' = theme
  /\ spent' = IF Continues THEN spent ELSE spent + 1
  /\ spent' <= Budget[theme]
MCSpec == MCInit /\ [][MCNext]_<<recordVars, assetVars, theme, spent>>

Symmetric == Permutations(Requests) \cup Permutations(Rows) \cup Permutations(Assets)
             \cup Permutations(Jobs)
=============================================================================
