----------------------------- MODULE Pages_proofs -----------------------------
(***************************************************************************)
(* Theorems about the tree of pages, for any number of pages, users and    *)
(* requests.                                                               *)
(***************************************************************************)
EXTENDS Pages, FiniteSetTheorems, WellFoundedInduction, TLAPS

-----------------------------------------------------------------------------
(* The inductive invariant.                                                 *)

\* The columns are functions, and a row that was never inserted is blank: nothing
\* is below it, and it is below nothing.
Columns == /\ row \in [Pages -> {"absent", "present", "deleted"}]
           /\ parent \in [Pages -> Pages \cup {None}]
           /\ owner \in [Pages -> Users \cup {None}]
           /\ archived \cup locked \cup private \cup linked \subseteq {p \in Pages : row[p] # "absent"}
           /\ favorites \subseteq Users \X Pages
           /\ doubtful \subseteq Pages /\ pinned \subseteq Pages
Blank == \A p \in Pages :
           /\ row[p] = "absent" => parent[p] = None
           /\ row[p] # "absent" => owner[p] \in Users
           /\ parent[p] # None => row[parent[p]] # "absent"

\* Requests name rows that exist, on behalf of somebody.
Named(r) == /\ req[r].at \notin {"idle", "create"} => req[r].page # None
            /\ req[r].at \in {"look", "detach"} => req[r].parent # None
            /\ req[r].at # "idle" => req[r].user \in Users
            /\ req[r].page # None => row[req[r].page] # "absent"
            /\ req[r].parent # None => row[req[r].parent] # "absent"
AllNamed == req \in [Requests -> Request] /\ \A r \in Requests : Named(r)

Sound == Columns /\ Blank /\ AllNamed

\* What a request that no other one has met knows of its page.
MayAccess(r) == (req[r].private # (req[r].page \in private)) => req[r].user = owner[req[r].page]
Fresh(r) ==
  LET p == req[r].page
      q == req[r].parent
  IN /\ req[r].at \in {"write", "access"} => MayAccess(r)
     /\ req[r].at = "look" => q = parent[p]
     /\ req[r].at = "unarchive" => parent[p] = None \/ (parent[p] = q /\ q \notin archived)
     /\ req[r].at = "delete" => Children({p}) = {}
     /\ req[r].at \in {"unlink", "forget"} => row[p] = "deleted"
     /\ req[r].at = "projects" => p \in linked
     /\ req[r].at = "copy" => req[r].linked
     /\ req[r].at \in {"projects", "copy"} => q = parent[p] /\ row[p] = "present"
AllFresh == \A r \in Requests : req[r].stale \/ Fresh(r)

\* Every page out of place has its explanation.
Explained == Misfiled \cup Lost \subseteq doubtful

\* No PATCH is about to write a page that was locked behind its back.
PinsHold == /\ LocksHold
            /\ \A r \in Requests : req[r].at = "write" => req[r].page \notin pinned

IInv == Sound /\ AllFresh /\ Explained /\ PinsHold

-----------------------------------------------------------------------------
(* Descendants.  They are defined by recursion over the depth; what the     *)
(* proofs need is that they are the least set with the page that is closed  *)
(* under children.                                                          *)

LEMMA LeastNumber ==
  ASSUME NEW T, T \subseteq Nat, T # {}
  PROVE  \E m \in T : \A n \in T : m <= n
<1> DEFINE Below(n) == 0..n
           R == StrictSubsetOrdering(Nat)
           F == {Below(n) : n \in T}
<1>1. IsWellFoundedOn(R, FiniteSubsetsOf(Nat))
  BY FS_StrictSubsetOrderingWellFounded
<1>2. F \subseteq FiniteSubsetsOf(Nat) /\ F # {}
  <2>1. \A n \in Nat : IsFiniteSet(Below(n)) /\ Below(n) \subseteq Nat
    BY FS_Interval
  <2> HIDE DEF Below
  <2>2. QED
    BY <2>1 DEF FiniteSubsetsOf
<1>3. \E x \in F : \A y \in F : ~(<<y, x>> \in R)
  <2> HIDE DEF R, F
  <2>1. QED
    BY <1>1, <1>2, WFMin
<1>4. PICK m \in T : \A n \in T : ~(<<Below(n), Below(m)>> \in R)
  BY <1>3
<1>5. ASSUME NEW n \in T, n < m PROVE <<Below(n), Below(m)>> \in R
  <2>1. Below(n) \subseteq Below(m) /\ m \in Below(m) /\ m \notin Below(n) /\ Below(m) \subseteq Nat
    BY <1>5
  <2> HIDE DEF Below
  <2>2. QED
    BY <2>1 DEF StrictSubsetOrdering
<1> HIDE DEF R, F, Below
<1>6. \A n \in T : ~(n < m)
  BY <1>4, <1>5
<1>7. QED
  BY <1>6

\* The generations that Descendants goes through, up to the n-th.
Generations(f, p, n) ==
  /\ f \in [0..n -> SUBSET Pages] /\ f[0] = {p}
  /\ \A k \in 1..n : f[k] = f[k - 1] \cup Children(f[k - 1])

LEMMA GenerationsExist ==
  ASSUME NEW p \in Pages, NEW n \in Nat
  PROVE  \E f : Generations(f, p, n)
<1> DEFINE T == {k \in Nat : ~\E f : Generations(f, p, k)}
<1>1. SUFFICES ASSUME T # {} PROVE FALSE
  OBVIOUS
<1>2. PICK m \in T : \A k \in T : m <= k
  <2> HIDE DEF T
  <2>1. T \subseteq Nat
    BY DEF T
  <2>2. QED
    BY <1>1, <2>1, LeastNumber
<1>3. CASE m = 0
  <2> DEFINE f == [k \in 0..0 |-> {p}]
  <2>1. Generations(f, p, 0)
    BY DEF Generations
  <2>2. QED
    BY <1>3, <2>1
<1>4. CASE m # 0
  <2>1. m - 1 \in Nat /\ m - 1 \notin T
    BY <1>2, <1>4
  <2>2. PICK g : Generations(g, p, m - 1)
    BY <2>1
  <2> DEFINE f == [k \in 0..m |-> IF k = m THEN g[m - 1] \cup Children(g[m - 1]) ELSE g[k]]
  <2>3. Generations(f, p, m)
    <3>1. f \in [0..m -> SUBSET Pages]
      BY <1>4, <2>1, <2>2 DEF Generations, Children
    <3>2. f[0] = {p}
      BY <1>4, <2>1, <2>2 DEF Generations
    <3>3. \A k \in 1..m : f[k] = f[k - 1] \cup Children(f[k - 1])
      BY <1>4, <2>1, <2>2 DEF Generations
    <3>4. QED
      BY <3>1, <3>2, <3>3 DEF Generations
  <2>4. QED
    BY <2>3
<1>5. QED
  BY <1>3, <1>4

LEMMA DescendantsByGenerations ==
  ASSUME NEW p \in Pages
  PROVE  \E f : Generations(f, p, Cardinality(Pages)) /\ Descendants(p) = f[Cardinality(Pages)]
<1> DEFINE K == Cardinality(Pages)
           down == CHOOSE f : f = [n \in 0..K |-> IF n = 0 THEN {p} ELSE f[n - 1] \cup Children(f[n - 1])]
<1>1. K \in Nat
  BY PageSets, FS_CardinalityType
<1>2. PICK f : Generations(f, p, K)
  BY <1>1, GenerationsExist
<1>3. f = [n \in 0..K |-> IF n = 0 THEN {p} ELSE f[n - 1] \cup Children(f[n - 1])]
  BY <1>1, <1>2 DEF Generations
<1>4. down = [n \in 0..K |-> IF n = 0 THEN {p} ELSE down[n - 1] \cup Children(down[n - 1])]
  BY <1>3
<1>5. Descendants(p) = down[K]
  BY DEF Descendants
<1> HIDE DEF down, K
<1>6. \A n \in 0..K : down[n] = f[n]
  <2> DEFINE T == {n \in 0..K : down[n] # f[n]}
  <2>1. SUFFICES ASSUME T # {} PROVE FALSE
    OBVIOUS
  <2>2. PICK m \in T : \A n \in T : m <= n
    <3> HIDE DEF T
    <3>1. T \subseteq Nat
      BY DEF T
    <3>2. QED
      BY <2>1, <3>1, LeastNumber
  <2>3. m = 0 \/ (m - 1 \in 0..K /\ m - 1 \notin T)
    BY <1>1, <2>2
  <2>4. m \in 0..K /\ down[m] # f[m]
    BY <2>2
  <2>5. CASE m = 0
    BY <1>1, <1>3, <1>4, <2>4, <2>5
  <2>6. CASE m # 0
    <3>1. m - 1 \in 0..K /\ down[m - 1] = f[m - 1]
      BY <2>3, <2>6
    <3>2. down[m] = down[m - 1] \cup Children(down[m - 1])
      BY <1>4, <2>4, <2>6
    <3>3. f[m] = f[m - 1] \cup Children(f[m - 1])
      BY <1>3, <2>4, <2>6
    <3>4. QED
      BY <2>4, <3>1, <3>2, <3>3
  <2>7. QED
    BY <2>5, <2>6
<1>7. QED
  BY <1>1, <1>2, <1>5, <1>6 DEF K

\* The generations stay within every set that has the page and is closed under children.
LEMMA GenerationsWithin ==
  ASSUME NEW p \in Pages, NEW n \in Nat, NEW f, Generations(f, p, n),
         NEW S, p \in S, Children(S) \subseteq S
  PROVE  \A k \in 0..n : p \in f[k] /\ f[k] \subseteq S
<1> DEFINE T == {k \in 0..n : ~(p \in f[k] /\ f[k] \subseteq S)}
<1>1. SUFFICES ASSUME T # {} PROVE FALSE
  OBVIOUS
<1>2. PICK m \in T : \A k \in T : m <= k
  <2> HIDE DEF T
  <2>1. T \subseteq Nat
    BY DEF T
  <2>2. QED
    BY <1>1, <2>1, LeastNumber
<1>3. CASE m = 0
  BY <1>3 DEF Generations
<1>4. CASE m # 0
  <2>1. m - 1 \in 0..n /\ m - 1 \notin T /\ m \in 1..n
    BY <1>2, <1>4
  <2>2. p \in f[m - 1] /\ f[m - 1] \subseteq S
    BY <2>1
  <2>3. f[m] = f[m - 1] \cup Children(f[m - 1])
    BY <2>1 DEF Generations
  <2>4. Children(f[m - 1]) \subseteq S
    BY <2>2 DEF Children
  <2>5. QED
    BY <2>2, <2>3, <2>4
<1>5. QED
  BY <1>3, <1>4

\* As long as there are children to come, every generation has one more page at least.
LEMMA GenerationsGrow ==
  ASSUME NEW p \in Pages, NEW n \in Nat, NEW f, Generations(f, p, n),
         \A k \in 0..n : ~(Children(f[k]) \subseteq f[k])
  PROVE  \A k \in 0..n : Cardinality(f[k]) > k
<1> DEFINE T == {k \in 0..n : ~(Cardinality(f[k]) > k)}
<1>0. \A k \in 0..n : IsFiniteSet(f[k]) /\ Cardinality(f[k]) \in Nat /\ f[k] \subseteq Pages
  BY PageSets, FS_Subset, FS_CardinalityType DEF Generations
<1>1. SUFFICES ASSUME T # {} PROVE FALSE
  OBVIOUS
<1>2. PICK m \in T : \A k \in T : m <= k
  <2> HIDE DEF T
  <2>1. T \subseteq Nat
    BY DEF T
  <2>2. QED
    BY <1>1, <2>1, LeastNumber
<1>3. CASE m = 0
  <2>1. Cardinality({p}) = 1
    BY FS_Singleton
  <2>2. f[0] = {p} /\ ~(Cardinality(f[0]) > 0)
    BY <1>2, <1>3 DEF Generations
  <2>3. QED
    BY <2>1, <2>2
<1>4. CASE m # 0
  <2>1. m - 1 \in 0..n /\ m - 1 \notin T /\ m \in 1..n
    BY <1>2, <1>4
  <2>2. Cardinality(f[m - 1]) > m - 1
    BY <2>1
  <2>3. f[m] = f[m - 1] \cup Children(f[m - 1])
    BY <2>1 DEF Generations
  <2>4. f[m - 1] \subseteq f[m] /\ f[m - 1] # f[m]
    BY <2>1, <2>3
  <2>5. Cardinality(f[m - 1]) < Cardinality(f[m])
    <3>1. IsFiniteSet(f[m]) /\ f[m - 1] \in SUBSET f[m]
      BY <1>0, <2>1, <2>4
    <3>2. /\ Cardinality(f[m - 1]) <= Cardinality(f[m])
          /\ Cardinality(f[m]) = Cardinality(f[m - 1]) => f[m] = f[m - 1]
      BY <3>1, FS_Subset
    <3>3. QED
      BY <1>0, <2>1, <2>4, <3>2
  <2>6. QED
    BY <1>0, <1>2, <2>1, <2>2, <2>5
<1>5. QED
  BY <1>3, <1>4

\* Once there are none, the generations stay the same.
LEMMA GenerationsSettle ==
  ASSUME NEW p \in Pages, NEW n \in Nat, NEW f, Generations(f, p, n),
         NEW k \in 0..n, Children(f[k]) \subseteq f[k]
  PROVE  f[n] = f[k]
<1> DEFINE T == {l \in k..n : f[l] # f[k]}
<1>1. SUFFICES ASSUME T # {} PROVE FALSE
  OBVIOUS
<1>2. PICK m \in T : \A l \in T : m <= l
  <2> HIDE DEF T
  <2>1. T \subseteq Nat
    BY DEF T
  <2>2. QED
    BY <1>1, <2>1, LeastNumber
<1>3. m \in k..n /\ m # k /\ f[m] # f[k]
  BY <1>2
<1>4. m - 1 \in k..n /\ m - 1 \notin T /\ m \in 1..n
  BY <1>2, <1>3
<1>5. f[m - 1] = f[k]
  BY <1>4
<1>6. f[m] = f[m - 1] \cup Children(f[m - 1])
  BY <1>4 DEF Generations
<1>7. QED
  BY <1>3, <1>5, <1>6

\* The descendants are the least set with the page that is closed under children.
LEMMA DescendantsClosed ==
  ASSUME NEW p \in Pages
  PROVE  /\ p \in Descendants(p) /\ Descendants(p) \subseteq Pages
         /\ Children(Descendants(p)) \subseteq Descendants(p)
<1> DEFINE K == Cardinality(Pages)
<1>1. PICK f : Generations(f, p, K) /\ Descendants(p) = f[K]
  BY DescendantsByGenerations
<1>2. K \in Nat
  BY PageSets, FS_CardinalityType
<1> HIDE DEF K
<1>3. f[K] \subseteq Pages
  BY <1>1, <1>2 DEF Generations
<1>4. p \in f[K]
  <2>1. Children(Pages) \subseteq Pages
    BY DEF Children
  <2>2. QED
    BY <1>1, <1>2, <2>1, GenerationsWithin
<1>5. \E k \in 0..K : Children(f[k]) \subseteq f[k]
  <2>1. SUFFICES ASSUME \A k \in 0..K : ~(Children(f[k]) \subseteq f[k]) PROVE FALSE
    OBVIOUS
  <2>2. Cardinality(f[K]) > K
    BY <1>1, <1>2, <2>1, GenerationsGrow
  <2>3. Cardinality(f[K]) <= K
    BY <1>3, PageSets, FS_Subset DEF K
  <2>4. Cardinality(f[K]) \in Nat
    BY <1>3, PageSets, FS_Subset, FS_CardinalityType
  <2>5. QED
    BY <1>2, <2>2, <2>3, <2>4
<1>6. PICK k \in 0..K : Children(f[k]) \subseteq f[k]
  BY <1>5
<1>7. f[K] = f[k]
  BY <1>1, <1>2, <1>6, GenerationsSettle
<1>8. QED
  BY <1>1, <1>3, <1>4, <1>6, <1>7

LEMMA DescendantsLeast ==
  ASSUME NEW p \in Pages, NEW S, p \in S, Children(S) \subseteq S
  PROVE  Descendants(p) \subseteq S
<1> DEFINE K == Cardinality(Pages)
<1>1. PICK f : Generations(f, p, K) /\ Descendants(p) = f[K]
  BY DescendantsByGenerations
<1>2. K \in Nat
  BY PageSets, FS_CardinalityType
<1> HIDE DEF K
<1>3. QED
  BY <1>1, <1>2, GenerationsWithin

\* The way up from a descendant stays below the page, until it comes to the page.
LEMMA DescendantsUpward ==
  ASSUME NEW p \in Pages, NEW q \in Descendants(p), q # p
  PROVE  parent[q] \in Descendants(p)
<1> DEFINE D == Descendants(p)
           S == {p} \cup Children(D)
<1>1. p \in D /\ D \subseteq Pages /\ Children(D) \subseteq D
  BY DescendantsClosed
<1> HIDE DEF D
<1>2. S \subseteq D
  BY <1>1
<1>3. Children(S) \subseteq Children(D)
  BY <1>2 DEF Children
<1>4. p \in S /\ Children(S) \subseteq S
  BY <1>3
<1> HIDE DEF S
<1>5. Descendants(p) \subseteq S
  BY <1>4, DescendantsLeast
<1>6. QED
  BY <1>5 DEF S, D, Children

\* The descendants of a child are descendants.
LEMMA DescendantsOfChild ==
  ASSUME NEW p \in Pages, NEW q \in Pages, q \in Children({p})
  PROVE  Descendants(q) \subseteq Descendants(p)
<1>1. p \in Descendants(p) /\ Children(Descendants(p)) \subseteq Descendants(p)
  BY DescendantsClosed
<1>2. q \in Descendants(p)
  BY <1>1 DEF Children
<1>3. QED
  BY <1>1, <1>2, DescendantsLeast

\* A page that can be reached from nowhere would have one above it, and so on upwards;
\* the one with the most descendants on that way would be below itself.
LEMMA Reachable ==
  ASSUME Sound, Explained
  PROVE  PagesReachable
<1> SUFFICES ASSUME NEW p \in Present,
                    \A q \in Pages : p \in Descendants(q) =>
                      /\ \A u \in Users : q \notin List(u, Project[p])
                      /\ q \notin doubtful /\ ~BelowItself(q)
             PROVE  FALSE
  BY DEF PagesReachable
<1> DEFINE A == {q \in Present : p \in Descendants(q) /\ Project[q] = Project[p]}
           Rest(q) == Pages \ Descendants(q)
           F == {Rest(q) : q \in A}
           R == StrictSubsetOrdering(Pages)
<1>1. p \in A
  BY DescendantsClosed DEF Present
<1>2. PICK q \in A : \A s \in A : ~(<<Rest(s), Rest(q)>> \in R)
  <2>1. IsWellFoundedOn(R, FiniteSubsetsOf(Pages))
    BY FS_StrictSubsetOrderingWellFounded
  <2>2. F \subseteq FiniteSubsetsOf(Pages) /\ F # {}
    <3>1. \A s : Rest(s) \in FiniteSubsetsOf(Pages)
      BY PageSets, FS_Subset DEF FiniteSubsetsOf
    <3> HIDE DEF Rest, A
    <3>2. QED
      BY <1>1, <3>1
  <2>3. \E x \in F : \A y \in F : ~(<<y, x>> \in R)
    <3> HIDE DEF R, F
    <3>1. QED
      BY <2>1, <2>2, WFMin
  <2> HIDE DEF R, A, Rest
  <2>4. QED
    BY <2>3
<1>3. q \in Pages /\ q \in Present /\ p \in Descendants(q) /\ Project[q] = Project[p]
  BY <1>2 DEF Present
<1>4. q \notin Lost /\ q \in linked
  BY <1>3 DEF Explained, Lost, Stray
<1>5. parent[q] # None
  <2>1. SUFFICES ASSUME parent[q] = None PROVE FALSE
    OBVIOUS
  <2>2. owner[q] \in Users
    BY <1>3 DEF Sound, Blank, Present
  <2>3. q \in List(owner[q], Project[p])
    BY <1>3, <1>4, <2>1 DEF List, FetchInProject
  <2>4. QED
    BY <1>3, <2>2, <2>3
<1>6. parent[q] \in Present /\ Project[parent[q]] = Project[q]
  BY <1>3, <1>4, <1>5 DEF Sound, Columns, Blank, Lost, Stray, Present
<1>7. q \in Children({parent[q]}) /\ parent[q] \in Pages
  BY <1>3, <1>6 DEF Children, Present
<1>8. Descendants(q) \subseteq Descendants(parent[q])
  BY <1>3, <1>7, DescendantsOfChild
<1>9. parent[q] \in A
  BY <1>3, <1>6, <1>8
<1>10. Descendants(parent[q]) = Descendants(q)
  <2>1. Rest(parent[q]) = Rest(q)
    <3>1. Rest(parent[q]) \subseteq Rest(q) /\ Rest(q) \in SUBSET Pages
      BY <1>8
    <3>2. ~(<<Rest(parent[q]), Rest(q)>> \in R)
      BY <1>2, <1>9
    <3> HIDE DEF Rest, A
    <3>3. QED
      BY <3>1, <3>2 DEF StrictSubsetOrdering
  <2>2. Descendants(q) \subseteq Pages /\ Descendants(parent[q]) \subseteq Pages
    BY <1>3, <1>7, DescendantsClosed
  <2>3. QED
    BY <2>1, <2>2
<1>11. parent[q] \in Descendants(q)
  BY <1>7, <1>10, DescendantsClosed
<1>12. BelowItself(parent[q])
  BY <1>7, <1>11 DEF BelowItself
<1>13. QED
  BY <1>7, <1>9, <1>12

-----------------------------------------------------------------------------
(* What a step does to the requests.                                        *)

\* The request r goes on or is served; of the others, those that the write of the
\* pages ps meets become stale.
Same(q) == /\ req'[q].at = req[q].at /\ req'[q].user = req[q].user
           /\ req'[q].page = req[q].page /\ req'[q].private = req[q].private
           /\ req'[q].locked = req[q].locked /\ req'[q].parent = req[q].parent
           /\ req'[q].linked = req[q].linked
Met(q, ps) == req[q].page \in ps \/ req[q].parent \in ps
Others(r, ps) == /\ req' \in [Requests -> Request]
                 /\ \A q \in Requests \ {r} :
                      Same(q) /\ (req'[q].stale <=> req[q].stale \/ Met(q, ps))
Served(r) == req'[r] = Idle
GoesOn(r, step) ==
  /\ req'[r].at = step /\ req'[r].user = req[r].user /\ req'[r].page = req[r].page
  /\ req'[r].private = req[r].private /\ req'[r].locked = req[r].locked
  /\ req'[r].parent = req[r].parent /\ req'[r].linked = req[r].linked
  /\ req'[r].stale = req[r].stale

LEMMA IdleIsRequest == Idle \in Request
BY DEF Idle, Request, Steps

LEMMA StepMoves ==
  ASSUME req \in [Requests -> Request], NEW r \in Requests, NEW step \in Steps, NEW ps,
         Step(r, step, ps)
  PROVE  Others(r, ps) /\ IF step = "idle" THEN Served(r) ELSE GoesOn(r, step)
<1> DEFINE mine == IF step = "idle" THEN Idle ELSE [req[r] EXCEPT !.at = step]
           theirs(q) == [req[q] EXCEPT !.stale = req[q].stale \/ Met(q, ps)]
<1>1. req' = [q \in Requests |-> IF q = r THEN mine ELSE theirs(q)]
  BY DEF Step, Met
<1>2. mine \in Request
  BY IdleIsRequest DEF Request
<1>3. \A q \in Requests : Met(q, ps) \in BOOLEAN
  BY DEF Met
<1>4. \A q \in Requests : theirs(q) \in Request
  <2>1. \A q \in Requests : req[q] \in Request /\ (req[q].stale \/ Met(q, ps)) \in BOOLEAN
    BY <1>3 DEF Request
  <2>2. \A b \in BOOLEAN, x \in Request : [x EXCEPT !.stale = b] \in Request
    BY DEF Request
  <2>3. QED
    BY <2>1, <2>2
<1>5. \A q \in Requests : q # r =>
        Same(q) /\ (req'[q].stale <=> req[q].stale \/ Met(q, ps))
  <2>1. TAKE q \in Requests
  <2>2. HAVE q # r
  <2>3. req'[q] = theirs(q) /\ req[q] \in Request
    BY <1>1, <2>2
  <2>4. Same(q) /\ req'[q].stale = (req[q].stale \/ Met(q, ps))
    BY <2>3 DEF Same, Request
  <2>5. QED
    BY <2>4
<1>6. req' \in [Requests -> Request]
  <2> HIDE DEF mine, theirs
  <2>1. QED
    BY <1>1, <1>2, <1>4
<1>7. req'[r] = mine /\ req[r] \in Request
  BY <1>1
<1>8. IF step = "idle" THEN Served(r) ELSE GoesOn(r, step)
  BY <1>7 DEF Served, GoesOn, Request
<1>9. QED
  BY <1>5, <1>6, <1>8 DEF Others

\* A request that begins.
Begun(r, step, u, p, more) ==
  /\ req[r] = Idle
  /\ req'[r].at = step /\ req'[r].user = u /\ req'[r].page = p
  /\ req'[r].private = more.private /\ req'[r].locked = more.locked
  /\ req'[r].parent = more.parent /\ req'[r].linked = more.linked
  /\ req'[r].stale = more.stale

LEMMA BeginMoves ==
  ASSUME req \in [Requests -> Request], NEW r \in Requests, NEW step \in Steps, NEW u \in Users,
         NEW p \in Pages \cup {None}, NEW more \in Request, Begin(r, step, u, p, more)
  PROVE  Others(r, {}) /\ Begun(r, step, u, p, more)
<1> DEFINE new == [more EXCEPT !.at = step, !.user = u, !.page = p]
<1>1. /\ new \in Request
      /\ new.at = step /\ new.user = u /\ new.page = p /\ new.private = more.private
      /\ new.locked = more.locked /\ new.parent = more.parent /\ new.linked = more.linked
      /\ new.stale = more.stale
  BY DEF Request
<1>2. req' = [req EXCEPT ![r] = new] /\ req[r] = Idle
  BY DEF Begin
<1> HIDE DEF new
<1>3. req'[r] = new /\ req' \in [Requests -> Request]
  BY <1>1, <1>2
<1>4. \A q \in Requests \ {r} : req'[q] = req[q] /\ ~Met(q, {})
  BY <1>2 DEF Met
<1>5. Others(r, {})
  BY <1>3, <1>4 DEF Others, Same
<1>6. QED
  BY <1>1, <1>2, <1>3, <1>5 DEF Begun

-----------------------------------------------------------------------------
(* What every step has to show.                                             *)

LEMMA SoundTypes ==
  ASSUME Sound
  PROVE  TypeOK
<1>1. \A p \in Pages :
        [row |-> row[p], parent |-> parent[p], archived |-> p \in archived,
         locked |-> p \in locked, private |-> p \in private, owner |-> owner[p]] \in PageRow
  BY DEF Sound, Columns, PageRow
<1>2. QED
  BY <1>1 DEF Sound, Columns, AllNamed, Named, TypeOK

\* Rows are never taken away, and only the pages ps change; the parents they get are
\* among them.
Lasting == \A p \in Pages : row[p] # "absent" => row'[p] # "absent"
Frame(ps) ==
  /\ \A p \in Pages \ ps :
       /\ row'[p] = row[p] /\ parent'[p] = parent[p] /\ owner'[p] = owner[p]
       /\ p \in linked' <=> p \in linked
       /\ p \in archived' <=> p \in archived
       /\ p \in private' <=> p \in private
  /\ \A p \in Pages : parent'[p] \in {parent[p], None} \cup ps

LEMMA NamedKept ==
  ASSUME AllNamed, NEW r \in Requests, NEW ps, Others(r, ps), Lasting, Named(r)'
  PROVE  AllNamed'
<1>1. \A q \in Requests \ {r} : Named(q)'
  <2>1. TAKE q \in Requests \ {r}
  <2>2. Same(q) /\ Named(q) /\ req[q] \in Request
    BY DEF Others, AllNamed
  <2>3. req[q].page \in Pages \cup {None} /\ req[q].parent \in Pages \cup {None}
    BY <2>2 DEF Request
  <2>4. QED
    BY <2>2, <2>3 DEF Same, Named, Lasting
<1>2. QED
  BY <1>1 DEF AllNamed, Others

\* What a request knows stays true until another one meets it.
LEMMA FreshKept ==
  ASSUME Sound, Sound', NEW q \in Requests, NEW ps, Same(q), ~Met(q, ps), Frame(ps), Fresh(q)
  PROVE  Fresh(q)'
<1> DEFINE p == req[q].page
           s == req[q].parent
<1>1. req[q] \in Request /\ Named(q)
  BY DEF Sound, AllNamed
<1>2. p \in Pages \cup {None} /\ s \in Pages \cup {None} /\ p \notin ps /\ s \notin ps
  BY <1>1 DEF Met, Request
<1>3. s # None => row'[s] = row[s]
  BY <1>2 DEF Frame
<1>4. p # None =>
        /\ row'[p] = row[p] /\ parent'[p] = parent[p] /\ owner'[p] = owner[p]
        /\ p \in linked' <=> p \in linked
        /\ p \in private' <=> p \in private
  BY <1>2 DEF Frame
<1>5. s # None => (s \in archived' <=> s \in archived)
  BY <1>2 DEF Frame
<1>6. ASSUME p # None, \A x \in Pages : parent[x] # p
      PROVE  \A x \in Pages : parent'[x] # p
  BY <1>2, <1>6 DEF Frame
<1>7. s = None => s \notin archived'
  BY PageSets DEF Sound, Columns
<1>8. /\ req'[q].at = req[q].at /\ req'[q].page = p /\ req'[q].parent = s
      /\ req'[q].private = req[q].private /\ req'[q].user = req[q].user
      /\ req'[q].linked = req[q].linked
  BY DEF Same
<1>9. req[q].at \notin {"idle", "create"} => p # None
  BY <1>1 DEF Named
<1>10. req[q].at \in {"write", "access"} => (MayAccess(q) => MayAccess(q)')
  BY <1>4, <1>8, <1>9 DEF MayAccess
<1> HIDE DEF p, s
<1>11. /\ req[q].at \in {"write", "access"} => MayAccess(q)
       /\ req[q].at = "look" => s = parent[p]
       /\ req[q].at = "unarchive" => parent[p] = None \/ (parent[p] = s /\ s \notin archived)
       /\ req[q].at = "delete" => \A x \in Pages : parent[x] # p
       /\ req[q].at \in {"unlink", "forget"} => row[p] = "deleted"
       /\ req[q].at = "projects" => p \in linked
       /\ req[q].at = "copy" => req[q].linked
       /\ req[q].at \in {"projects", "copy"} => s = parent[p] /\ row[p] = "present"
  BY DEF Fresh, Children, p, s
<1>12. /\ req[q].at \in {"write", "access"} => MayAccess(q)'
       /\ req[q].at = "look" => s = parent'[p]
       /\ req[q].at = "unarchive" => parent'[p] = None \/ (parent'[p] = s /\ s \notin archived')
       /\ req[q].at = "delete" => \A x \in Pages : parent'[x] # p
       /\ req[q].at \in {"unlink", "forget"} => row'[p] = "deleted"
       /\ req[q].at = "projects" => p \in linked'
       /\ req[q].at = "copy" => req[q].linked
       /\ req[q].at \in {"projects", "copy"} => s = parent'[p] /\ row'[p] = "present"
  BY <1>3, <1>4, <1>5, <1>6, <1>7, <1>9, <1>10, <1>11
<1>13. QED
  BY <1>8, <1>12 DEF Fresh, Children

LEMMA Closing ==
  ASSUME IInv, NEW r \in Requests, NEW ps, Others(r, ps), Lasting, Frame(ps),
         Columns', Blank', Named(r)', req'[r].stale \/ Fresh(r)', Explained', PinsHold'
  PROVE  IInv'
<1>1. Sound'
  BY NamedKept DEF IInv, Sound
<1>2. \A q \in Requests \ {r} : req'[q].stale \/ Fresh(q)'
  <2>1. TAKE q \in Requests \ {r}
  <2>2. CASE req[q].stale \/ Met(q, ps)
    BY <2>2 DEF Others
  <2>3. CASE ~(req[q].stale \/ Met(q, ps))
    <3>1. Fresh(q) /\ Same(q)
      BY <2>3 DEF IInv, AllFresh, Others
    <3>2. QED
      BY <1>1, <2>3, <3>1, FreshKept DEF IInv
  <2>4. QED
    BY <2>2, <2>3
<1>3. AllFresh'
  BY <1>2 DEF AllFresh
<1>4. QED
  BY <1>1, <1>3 DEF IInv

\* A statement explains the pages out of place that it names.
LEMMA Explaining ==
  ASSUME NEW more, Explain(more), (Misfiled \cup Lost)' \subseteq doubtful \cup more
  PROVE  Explained' /\ doubtful' \subseteq Pages
<1>1. (Misfiled \cup Lost)' \subseteq Pages
  BY DEF Misfiled, Lost, Stray, Present
<1>2. QED
  BY <1>1 DEF Explain, Explained

LEMMA ExplainingByRequest ==
  ASSUME NEW r \in Requests, ExplainedBy(r),
         ~req[r].stale => (Misfiled \cup Lost)' \subseteq doubtful
  PROVE  Explained' /\ doubtful' \subseteq Pages
<1>1. CASE req[r].stale
  BY <1>1, Explaining DEF ExplainedBy
<1>2. CASE ~req[r].stale
  BY <1>2, Explaining DEF ExplainedBy
<1>3. QED
  BY <1>1, <1>2

LEMMA TreeKept ==
  ASSUME Explained, UNCHANGED <<tree, doubtful>>
  PROVE  Explained'
BY DEF Explained, tree, Misfiled, Lost, Stray, Present

\* Nobody else begins to write.
LEMMA PinsKept ==
  ASSUME PinsHold, NEW r \in Requests, NEW ps, Others(r, ps),
         UNCHANGED <<locked, pinned>>, req'[r].at # "write"
  PROVE  PinsHold'
BY DEF PinsHold, LocksHold, Others, Same

LEMMA ServedIsSettled ==
  ASSUME NEW r \in Requests, Served(r)
  PROVE  Named(r)' /\ Fresh(r)' /\ req'[r].at = "idle"
BY DEF Served, Idle, Named, Fresh

LEMMA GoingOnNamed ==
  ASSUME NEW r \in Requests, AllNamed, req[r].at \notin {"idle", "create"}, Lasting,
         NEW step \in Steps \ {"look", "detach"}, GoesOn(r, step)
  PROVE  Named(r)'
<1>1. req[r] \in Request /\ Named(r)
  BY DEF AllNamed
<1>2. req[r].page \in Pages \cup {None} /\ req[r].parent \in Pages \cup {None}
  BY <1>1 DEF Request
<1>3. QED
  BY <1>1, <1>2 DEF GoesOn, Named, Lasting

-----------------------------------------------------------------------------
(* The steps.                                                               *)

\* What is known of a request that is served a statement.
LEMMA Asking ==
  ASSUME IInv, NEW r \in Requests
  PROVE  /\ req \in [Requests -> Request]
         /\ req[r].page \in Pages \cup {None} /\ req[r].parent \in Pages \cup {None}
         /\ req[r].user \in Users \cup {None}
         /\ req[r].private \in BOOLEAN /\ req[r].locked \in BOOLEAN
         /\ req[r].linked \in BOOLEAN /\ req[r].stale \in BOOLEAN
         /\ req[r].at \in Steps
         /\ Named(r) /\ (req[r].stale \/ Fresh(r))
         /\ req[r].at \notin {"idle", "create"} => req[r].page \in Pages
<1>1. req \in [Requests -> Request] /\ Named(r) /\ (req[r].stale \/ Fresh(r))
  BY DEF IInv, Sound, AllNamed, AllFresh
<1>2. req[r] \in Request
  BY <1>1
<1>3. QED
  BY <1>1, <1>2 DEF Request, Named

\* A parent that is no exception.
Fits(q, p) == q = None \/ (row[q] # "deleted" /\ Project[q] = Project[p])

LEMMA InsertPart ==
  ASSUME IInv, NEW r \in Requests, NEW p \in Pages, NEW onProject \in BOOLEAN,
         Insert(r, p, onProject), req[r].at \in {"create", "copy"},
         ~req[r].stale => /\ onProject
                          /\ \/ req[r].at = "create" \/ req[r].page \in doubtful
                             \/ Fits(req[r].parent, p)
  PROVE  IInv'
<1> DEFINE s == req[r].parent
           ps == {p, s} \ {None}
           more == (IF req[r].stale \/ req[r].page \in doubtful THEN Lost' ELSE {})
                     \cup (Misfiled' \cap {p})
                     \cup (IF req[r].at = "create" THEN Stray' \cap {p} ELSE {})
<1>1. /\ req \in [Requests -> Request] /\ s \in Pages \cup {None} /\ req[r].user \in Users
      /\ s # None => row[s] # "absent"
      /\ Columns /\ Blank
  BY Asking DEF Named, IInv, Sound
<1>2. /\ row[p] = "absent" /\ row' = [row EXCEPT ![p] = "present"]
      /\ linked' = IF onProject THEN linked \cup {p} ELSE linked
      /\ parent' = [parent EXCEPT ![p] = s]
      /\ private' = IF req[r].private THEN private \cup {p} ELSE private
      /\ owner' = [owner EXCEPT ![p] = req[r].user]
      /\ UNCHANGED <<archived, locked, favorites, pinned>>
      /\ Step(r, "idle", ps) /\ Explain(more)
  BY DEF Insert
<1>3. Others(r, ps) /\ Served(r)
  BY <1>1, <1>2, StepMoves DEF Steps
<1> HIDE DEF more
<1>4. p # None /\ parent[p] = None
  BY <1>1, <1>2, PageSets DEF Blank
<1>5. Lasting /\ Frame(ps)
  BY <1>1, <1>2, <1>4 DEF Columns, Lasting, Frame
<1>6. (Misfiled \cup Lost)' \subseteq doubtful \cup more
  <2>1. Misfiled' \subseteq Misfiled \cup (Misfiled' \cap {p})
    BY <1>1, <1>2 DEF Misfiled, Present, Columns
  <2>2. Lost' \subseteq Lost \cup {p}
    <3>1. ASSUME NEW x \in Lost', x # p PROVE x \in Lost
      BY <1>1, <1>2, <3>1 DEF Lost, Stray, Present, Columns
    <3>2. QED
      BY <3>1
  <2>3. ASSUME ~req[r].stale, req[r].page \notin doubtful, p \in Lost'
        PROVE  req[r].at = "create" /\ p \in Stray'
    <3>1. p \in linked' /\ p \in Stray'
      BY <1>1, <1>2, <2>3 DEF Lost
    <3>2. row'[p] = "present" /\ parent'[p] = s /\ (s # None => row'[s] # "absent")
      BY <1>1, <1>2 DEF Columns
    <3>3. ~Fits(s, p)
      BY <1>1, <1>2, <1>4, <3>1, <3>2 DEF Stray, Fits, Columns
    <3>4. QED
      BY <2>3, <3>1, <3>3
  <2>4. Lost' \subseteq doubtful \cup more
    BY <2>2, <2>3 DEF more, IInv, Explained
  <2>5. QED
    BY <2>1, <2>4 DEF more, IInv, Explained
<1>7. Explained' /\ doubtful' \subseteq Pages
  BY <1>2, <1>6, Explaining
<1>8. Columns'
  BY <1>1, <1>2, <1>7 DEF Columns
<1>9. Blank'
  BY <1>1, <1>2 DEF Blank, Columns
<1>10. Named(r)' /\ Fresh(r)' /\ req'[r].at # "write"
  BY <1>3, ServedIsSettled
<1>11. PinsHold'
  BY <1>2, <1>3, <1>10, PinsKept DEF IInv
<1> HIDE DEF ps
<1>12. QED
  BY <1>3, <1>5, <1>7, <1>8, <1>9, <1>10, <1>11, Closing

LEMMA CreateStep ==
  ASSUME IInv, NEW r \in Requests, NEW p \in Pages, Create(r, p)
  PROVE  IInv'
<1>1. req[r].at = "create" /\ Insert(r, p, TRUE)
  BY DEF Create
<1>2. QED
  BY <1>1, InsertPart

\* A copy is as lost as the page it is made of.
LEMMA DuplicateStep ==
  ASSUME IInv, NEW r \in Requests, NEW p \in Pages, Duplicate(r, p)
  PROVE  IInv'
<1>1. /\ req[r].at = "copy" /\ Insert(r, p, req[r].linked) /\ req[r].linked \in BOOLEAN
      /\ Project[p] = Project[req[r].page]
  BY Asking DEF Duplicate
<1>2. ASSUME ~req[r].stale
      PROVE  req[r].linked /\ (req[r].page \in doubtful \/ Fits(req[r].parent, p))
  <2>1. /\ req[r].linked /\ req[r].parent = parent[req[r].page]
        /\ row[req[r].page] = "present" /\ req[r].page \in Pages
    BY <1>1, <1>2, Asking DEF Fresh
  <2>2. CASE Fits(req[r].parent, p)
    BY <2>1, <2>2
  <2>3. CASE ~Fits(req[r].parent, p)
    BY <1>1, <2>1, <2>3 DEF Fits, IInv, Explained, Lost, Stray, Present
  <2>4. QED
    BY <2>2, <2>3
<1>3. QED
  BY <1>1, <1>2, InsertPart

LEMMA UpdateStep ==
  ASSUME IInv, NEW r \in Requests, UpdatePage(r)
  PROVE  IInv'
<1> DEFINE p == req[r].page
           s == req[r].parent
           ps == {p, s} \ {None}
           more == (IF req[r].stale THEN Lost' ELSE {})
                     \cup (IF parent' # parent THEN (Misfiled \cup Stray)' \cap {p} ELSE {})
<1>1. /\ req[r].at = "write"
      /\ parent' = [parent EXCEPT ![p] = s]
      /\ private' = With(private, p, req[r].private)
      /\ locked' = With(locked, p, req[r].locked)
      /\ UNCHANGED <<row, linked, archived, owner, favorites, pinned>>
      /\ Step(r, "idle", ps) /\ Explain(more)
  BY DEF UpdatePage
<1>2. /\ req \in [Requests -> Request] /\ s \in Pages \cup {None} /\ p \in Pages
      /\ row[p] # "absent" /\ (s # None => row[s] # "absent")
      /\ Columns /\ Blank
      /\ p # None /\ p \notin pinned /\ pinned \subseteq locked
  BY <1>1, Asking, PageSets DEF Named, IInv, Sound, PinsHold, LocksHold
<1>3. Others(r, ps) /\ Served(r)
  BY <1>1, <1>2, StepMoves DEF Steps
<1> HIDE DEF more
<1>5. Lasting /\ Frame(ps)
  BY <1>1, <1>2 DEF Columns, Lasting, Frame, With
<1>6. (Misfiled \cup Lost)' \subseteq doubtful \cup more
  <2>1. Misfiled' \subseteq doubtful \cup more
    <3>1. CASE parent' = parent
      BY <1>1, <3>1 DEF Misfiled, Present, IInv, Explained
    <3>2. CASE parent' # parent
      <4>1. Misfiled' \subseteq Misfiled \cup (Misfiled' \cap {p})
        BY <1>1, <1>2 DEF Misfiled, Present, Columns
      <4>2. QED
        BY <3>2, <4>1 DEF more, IInv, Explained
    <3>3. QED
      BY <3>1, <3>2
  <2>2. Lost' \subseteq Lost \cup {p}
    <3>1. ASSUME NEW x \in Lost', x # p PROVE x \in Lost
      BY <1>1, <1>2, <3>1 DEF Lost, Stray, Present, Columns
    <3>2. QED
      BY <3>1
  <2>3. ASSUME p \in Lost' PROVE p \in Lost \/ (parent' # parent /\ p \in Stray')
    <3>1. CASE parent' = parent
      BY <1>1, <2>3, <3>1 DEF Lost, Stray, Present
    <3>2. CASE p \notin Stray'
      BY <1>1, <2>3, <3>2 DEF Lost, Present
    <3>3. QED
      BY <3>1, <3>2
  <2>4. Lost' \subseteq doubtful \cup more
    BY <2>2, <2>3 DEF more, IInv, Explained
  <2>5. QED
    BY <2>1, <2>4
<1>7. Explained' /\ doubtful' \subseteq Pages
  BY <1>1, <1>6, Explaining
<1>8. Columns'
  BY <1>1, <1>2, <1>7 DEF Columns, With
<1>9. Blank'
  BY <1>1, <1>2 DEF Blank, Columns
<1>10. Named(r)' /\ Fresh(r)' /\ req'[r].at = "idle"
  BY <1>3, ServedIsSettled
<1>11. PinsHold'
  <2>1. pinned' \subseteq locked'
    BY <1>1, <1>2 DEF With
  <2>2. QED
    BY <1>1, <1>3, <1>10, <2>1 DEF PinsHold, LocksHold, IInv, Others, Same
<1> HIDE DEF ps
<1>12. QED
  BY <1>3, <1>5, <1>7, <1>8, <1>9, <1>10, <1>11, Closing

LEMMA SetLockedStep ==
  ASSUME IInv, NEW r \in Requests, SetLocked(r)
  PROVE  IInv'
<1> DEFINE p == req[r].page
           pin == req[r].locked /\ (p \in pinned \/ Updating(p) = {})
<1>1. /\ req[r].at = "lock"
      /\ locked' = With(locked, p, req[r].locked) /\ pinned' = With(pinned, p, pin)
      /\ UNCHANGED <<tree, private, owner, favorites, doubtful>>
      /\ Step(r, "idle", {p})
  BY DEF SetLocked
<1>2. /\ req \in [Requests -> Request] /\ p \in Pages /\ row[p] # "absent"
      /\ Columns /\ Blank /\ req[r].locked \in BOOLEAN
  BY <1>1, Asking, PageSets DEF Named, IInv, Sound
<1>3. Others(r, {p}) /\ Served(r)
  BY <1>1, <1>2, StepMoves DEF Steps
<1>4. Lasting /\ Frame({p})
  BY <1>1, <1>2 DEF tree, Columns, Lasting, Frame
<1>5. Explained'
  BY <1>1, TreeKept DEF IInv
<1>6. Columns'
  BY <1>1, <1>2 DEF tree, Columns, With
<1>7. Blank'
  BY <1>1, <1>2 DEF tree, Blank
<1>8. Named(r)' /\ Fresh(r)' /\ req'[r].at = "idle"
  BY <1>3, ServedIsSettled
<1>9. PinsHold'
  <2>1. pinned' \subseteq locked'
    BY <1>1, <1>2 DEF With, PinsHold, LocksHold, IInv
  <2>2. ASSUME NEW q \in Requests, req'[q].at = "write" PROVE req'[q].page \notin pinned'
    <3>1. q # r /\ req[q].at = "write" /\ req'[q].page = req[q].page
      BY <1>3, <1>8, <2>2 DEF Others, Same
    <3>2. req[q].page \notin pinned
      BY <3>1 DEF IInv, PinsHold
    <3>3. req[q].page = p => ~pin
      BY <3>1, <3>2 DEF Updating
    <3>4. QED
      BY <1>1, <3>1, <3>2, <3>3 DEF With
  <2>3. QED
    BY <2>1, <2>2 DEF PinsHold, LocksHold
<1>10. QED
  BY <1>3, <1>4, <1>5, <1>6, <1>7, <1>8, <1>9, Closing

LEMMA SetAccessStep ==
  ASSUME IInv, NEW r \in Requests, SetAccess(r)
  PROVE  IInv'
<1> DEFINE p == req[r].page
<1>1. /\ req[r].at = "access" /\ private' = With(private, p, req[r].private)
      /\ UNCHANGED <<tree, locked, owner, favorites, doubtful, pinned>>
      /\ Step(r, "idle", {p})
  BY DEF SetAccess
<1>2. /\ req \in [Requests -> Request] /\ p \in Pages /\ row[p] # "absent"
      /\ Columns /\ Blank
  BY <1>1, Asking, PageSets DEF Named, IInv, Sound
<1>3. Others(r, {p}) /\ Served(r)
  BY <1>1, <1>2, StepMoves DEF Steps
<1>4. Lasting /\ Frame({p})
  BY <1>1, <1>2 DEF tree, Columns, Lasting, Frame, With
<1>5. Explained'
  BY <1>1, TreeKept DEF IInv
<1>6. Columns'
  BY <1>1, <1>2 DEF tree, Columns, With
<1>7. Blank'
  BY <1>1, <1>2 DEF tree, Blank
<1>8. Named(r)' /\ Fresh(r)' /\ req'[r].at = "idle"
  BY <1>3, ServedIsSettled
<1>9. PinsHold'
  BY <1>1, <1>3, <1>8, PinsKept DEF IInv
<1>10. QED
  BY <1>3, <1>4, <1>5, <1>6, <1>7, <1>8, <1>9, Closing

LEMMA DropFavoritesStep ==
  ASSUME IInv, NEW r \in Requests, DropFavorites(r)
  PROVE  IInv'
<1> DEFINE step == IF req[r].at = "forget" THEN "idle" ELSE "archive"
<1>1. /\ req[r].at \in {"unfavorite", "forget"} /\ favorites' \subseteq favorites
      /\ UNCHANGED <<tree, locked, private, owner, doubtful, pinned>>
      /\ Step(r, step, {})
  BY DEF DropFavorites
<1>2. req \in [Requests -> Request] /\ Columns /\ Blank /\ AllNamed
  BY DEF IInv, Sound, AllNamed
<1>3. Others(r, {}) /\ IF step = "idle" THEN Served(r) ELSE GoesOn(r, step)
  BY <1>1, <1>2, StepMoves DEF Steps
<1>4. Lasting /\ Frame({})
  BY <1>1, <1>2 DEF tree, Columns, Lasting, Frame
<1>5. Explained'
  BY <1>1, TreeKept DEF IInv
<1>6. Columns'
  BY <1>1, <1>2 DEF tree, Columns
<1>7. Blank'
  BY <1>1, <1>2 DEF tree, Blank
<1>8. Named(r)' /\ Fresh(r)' /\ req'[r].at # "write"
  <2>1. CASE step = "idle"
    BY <1>3, <2>1, ServedIsSettled
  <2>2. CASE step # "idle"
    <3>1. GoesOn(r, "archive")
      BY <1>3, <2>2
    <3>2. Named(r)'
      BY <1>1, <1>2, <1>4, <3>1, GoingOnNamed DEF Steps
    <3>3. QED
      BY <3>1, <3>2 DEF GoesOn, Fresh
  <2>3. QED
    BY <2>1, <2>2
<1>9. PinsHold'
  BY <1>1, <1>3, <1>8, PinsKept DEF IInv
<1>10. QED
  BY <1>3, <1>4, <1>5, <1>6, <1>7, <1>8, <1>9, Closing

LEMMA Disjoint ==
  ASSUME NEW p \in Pages
  PROVE  \A x \in Pages : parent[x] \in Descendants(p) => x \in Descendants(p)
BY DescendantsClosed DEF Children

\* What archive and unarchive have in common.
LEMMA TreeStep ==
  ASSUME IInv, NEW r \in Requests, req[r].at \in {"archive", "unarchive"},
         NEW new, new \subseteq {p \in Pages : row[p] # "absent"},
         \/ archived' = archived /\ Step(r, "runaway", {})
         \/ archived' = new /\ Step(r, "idle", Descendants(req[r].page)),
         \A x \in Pages \ Descendants(req[r].page) : x \in new <=> x \in archived,
         UNCHANGED <<row, linked, parent, locked, private, owner, favorites, pinned>>,
         ExplainedBy(r),
         ~req[r].stale => {x \in Present \ new : parent[x] \in new} \subseteq Misfiled
  PROVE  IInv'
<1> DEFINE p == req[r].page
<1>1. /\ req \in [Requests -> Request] /\ p \in Pages /\ Columns /\ Blank /\ AllNamed
      /\ row[p] # "absent"
  BY Asking, PageSets DEF IInv, Sound, Named
<1>2. Lasting
  BY DEF Lasting
<1>3. ~req[r].stale => (Misfiled \cup Lost)' \subseteq doubtful
  <2>1. Lost' = Lost
    BY DEF Lost, Stray, Present
  <2>2. ~req[r].stale => Misfiled' \subseteq Misfiled
    BY DEF Misfiled, Present
  <2>3. QED
    BY <2>1, <2>2 DEF IInv, Explained
<1>4. Explained' /\ doubtful' \subseteq Pages
  BY <1>3, ExplainingByRequest
<1>5. Columns'
  BY <1>1, <1>4 DEF Columns
<1>6. Blank'
  BY <1>1 DEF Blank
<1>7. CASE archived' = archived /\ Step(r, "runaway", {})
  <2>1. Others(r, {}) /\ GoesOn(r, "runaway")
    BY <1>1, <1>7, StepMoves DEF Steps
  <2>2. Named(r)'
    BY <1>1, <1>2, <2>1, GoingOnNamed DEF Steps
  <2>3. Fresh(r)' /\ req'[r].at # "write"
    BY <2>1 DEF GoesOn, Fresh
  <2>4. Frame({})
    BY <1>1, <1>7 DEF Columns, Frame
  <2>5. PinsHold'
    BY <2>1, <2>3, PinsKept DEF IInv
  <2>6. QED
    BY <1>2, <1>4, <1>5, <1>6, <2>1, <2>2, <2>3, <2>4, <2>5, Closing
<1>8. CASE archived' = new /\ Step(r, "idle", Descendants(p))
  <2> DEFINE D == Descendants(p)
  <2>1. Others(r, D) /\ Served(r)
    BY <1>1, <1>8, StepMoves DEF Steps
  <2>2. Named(r)' /\ Fresh(r)' /\ req'[r].at # "write"
    BY <2>1, ServedIsSettled
  <2>3. Frame(D)
    BY <1>1, <1>8 DEF Columns, Frame
  <2>4. PinsHold'
    BY <2>1, <2>2, PinsKept DEF IInv
  <2> HIDE DEF D
  <2>5. QED
    BY <1>2, <1>4, <1>5, <1>6, <2>1, <2>2, <2>3, <2>4, Closing
<1>9. QED
  BY <1>7, <1>8

\* A row below the page exists, because its parent does.
LEMMA DescendantsExist ==
  ASSUME Columns, Blank, NEW p \in Pages, row[p] # "absent"
  PROVE  Descendants(p) \subseteq {q \in Pages : row[q] # "absent"}
<1>1. Children({q \in Pages : row[q] # "absent"}) \subseteq {q \in Pages : row[q] # "absent"}
  BY PageSets DEF Children, Blank
<1>2. QED
  BY <1>1, DescendantsLeast

LEMMA ArchiveStep ==
  ASSUME IInv, NEW r \in Requests, ArchiveTree(r)
  PROVE  IInv'
<1> DEFINE p == req[r].page
           new == archived \cup Descendants(p)
<1>1. /\ req[r].at = "archive"
      /\ \/ archived' = archived /\ Step(r, "runaway", {})
         \/ archived' = new /\ Step(r, "idle", Descendants(p))
      /\ UNCHANGED <<row, linked, parent, locked, private, owner, favorites, pinned>>
      /\ ExplainedBy(r)
  BY DEF ArchiveTree
<1>2. p \in Pages /\ row[p] # "absent" /\ Columns /\ Blank
  BY <1>1, Asking, PageSets DEF IInv, Sound, Named
<1>3. new \subseteq {q \in Pages : row[q] # "absent"}
  BY <1>2, DescendantsExist DEF Columns
<1>4. \A x \in Pages \ Descendants(p) : x \in new <=> x \in archived
  OBVIOUS
<1>5. {x \in Present \ new : parent[x] \in new} \subseteq Misfiled
  BY <1>2, Disjoint DEF Misfiled, Present
<1> HIDE DEF new
<1>6. QED
  BY <1>1, <1>3, <1>4, <1>5, TreeStep

\* Above the page that is taken out there is no archived one, unless the request has
\* been overtaken; below it all come along.
LEMMA UnarchiveStep ==
  ASSUME IInv, NEW r \in Requests, UnarchiveTree(r)
  PROVE  IInv'
<1> DEFINE p == req[r].page
           new == archived \ Descendants(p)
<1>1. /\ req[r].at = "unarchive"
      /\ \/ archived' = archived /\ Step(r, "runaway", {})
         \/ archived' = new /\ Step(r, "idle", Descendants(p))
      /\ UNCHANGED <<row, linked, parent, locked, private, owner, favorites, pinned>>
      /\ ExplainedBy(r)
  BY DEF UnarchiveTree
<1>2. p \in Pages /\ row[p] # "absent" /\ Columns /\ Blank
  BY <1>1, Asking, PageSets DEF IInv, Sound, Named
<1>3. new \subseteq {q \in Pages : row[q] # "absent"}
  BY <1>2 DEF Columns
<1>4. \A x \in Pages \ Descendants(p) : x \in new <=> x \in archived
  OBVIOUS
<1>5. ~req[r].stale => {x \in Present \ new : parent[x] \in new} \subseteq Misfiled
  <2>1. ASSUME ~req[r].stale PROVE parent[p] \notin archived
    <3>1. parent[p] = None \/ (parent[p] = req[r].parent /\ req[r].parent \notin archived)
      BY <1>1, <2>1, Asking DEF Fresh
    <3>2. None \notin archived
      BY <1>2, PageSets DEF Columns
    <3>3. QED
      BY <3>1, <3>2
  <2>2. ASSUME ~req[r].stale, NEW x \in Present \ new, parent[x] \in new
        PROVE  x \in Misfiled
    <3>1. CASE x \notin archived
      BY <2>2, <3>1 DEF Misfiled
    <3>2. CASE x \in archived
      <4>1. x \in Descendants(p) /\ parent[x] \in archived /\ parent[x] \notin Descendants(p)
        BY <2>2, <3>2
      <4>2. x # p
        BY <2>1, <2>2, <4>1
      <4>3. QED
        BY <1>2, <4>1, <4>2, DescendantsUpward
    <3>3. QED
      BY <3>1, <3>2
  <2>3. QED
    BY <2>2
<1> HIDE DEF new
<1>6. QED
  BY <1>1, <1>3, <1>4, <1>5, TreeStep

LEMMA LookAtParentStep ==
  ASSUME IInv, NEW r \in Requests, LookAtParent(r)
  PROVE  IInv'
<1> DEFINE step == IF req[r].parent \in archived THEN "detach" ELSE "unarchive"
<1>1. /\ req[r].at = "look" /\ UNCHANGED <<rows, doubtful, pinned>>
      /\ Step(r, step, {})
  BY DEF LookAtParent
<1>2. req \in [Requests -> Request] /\ Columns /\ Blank /\ AllNamed
  BY DEF IInv, Sound, AllNamed
<1>3. Others(r, {}) /\ GoesOn(r, step)
  BY <1>1, <1>2, StepMoves DEF Steps
<1>4. Lasting /\ Frame({})
  BY <1>1, <1>2 DEF rows, tree, Columns, Lasting, Frame
<1>5. Explained' /\ PinsHold'
  <2>1. UNCHANGED <<tree, doubtful>> /\ UNCHANGED <<locked, pinned>> /\ req'[r].at # "write"
    BY <1>1, <1>3 DEF rows, GoesOn
  <2>2. QED
    BY <1>3, <2>1, TreeKept, PinsKept DEF IInv
<1>6. Columns' /\ Blank'
  BY <1>1, <1>2 DEF rows, tree, Columns, Blank
<1>7. Named(r)'
  <2>1. Named(r) /\ req[r].page # None /\ req[r].parent # None
    BY <1>1, <1>2 DEF AllNamed, Named
  <2>2. row' = row
    BY <1>1 DEF rows, tree
  <2>3. /\ req[r].user \in Users
        /\ row[req[r].page] # "absent" /\ row[req[r].parent] # "absent"
    BY <1>1, <2>1 DEF Named
  <2> HIDE DEF step
  <2>4. QED
    BY <1>3, <2>1, <2>2, <2>3 DEF GoesOn, Named
<1>8. req'[r].stale \/ Fresh(r)'
  <2>1. ASSUME ~req[r].stale PROVE req[r].parent = parent[req[r].page]
    BY <1>1, <2>1, Asking DEF Fresh
  <2>2. parent' = parent /\ archived' = archived
    BY <1>1 DEF rows, tree
  <2>3. QED
    BY <1>3, <2>1, <2>2 DEF GoesOn, Fresh
<1>9. QED
  BY <1>3, <1>4, <1>5, <1>6, <1>7, <1>8, Closing

LEMMA DetachStep ==
  ASSUME IInv, NEW r \in Requests, Detach(r)
  PROVE  IInv'
<1> DEFINE p == req[r].page
<1>1. /\ req[r].at = "detach" /\ parent' = [parent EXCEPT ![p] = None]
      /\ Step(r, "unarchive", {p}) /\ ExplainedBy(r)
      /\ UNCHANGED <<row, linked, archived, locked, private, owner, favorites, pinned>>
  BY DEF Detach
<1>2. req \in [Requests -> Request] /\ Columns /\ Blank /\ AllNamed /\ p \in Pages
  BY <1>1, Asking DEF IInv, Sound
<1>3. Others(r, {p}) /\ GoesOn(r, "unarchive")
  BY <1>1, <1>2, StepMoves DEF Steps
<1>4. Lasting /\ Frame({p})
  BY <1>1, <1>2 DEF Columns, Lasting, Frame
<1>5. (Misfiled \cup Lost)' \subseteq doubtful
  <2>1. None \notin archived
    BY <1>2, PageSets DEF Columns
  <2>2. Misfiled' \subseteq Misfiled
    BY <1>1, <1>2, <2>1 DEF Misfiled, Present, Columns
  <2>3. Lost' \subseteq Lost
    BY <1>1, <1>2 DEF Lost, Stray, Present, Columns
  <2>4. QED
    BY <2>2, <2>3 DEF IInv, Explained
<1>6. Explained' /\ doubtful' \subseteq Pages
  BY <1>1, <1>5, ExplainingByRequest
<1>7. Columns' /\ Blank'
  BY <1>1, <1>2, <1>6 DEF Columns, Blank
<1>8. Named(r)'
  BY <1>1, <1>2, <1>3, <1>4, GoingOnNamed DEF Steps
<1>9. Fresh(r)' /\ req'[r].at # "write"
  <2>1. parent'[p] = None
    BY <1>1, <1>2 DEF Columns
  <2>2. QED
    BY <1>3, <2>1 DEF GoesOn, Fresh
<1>10. PinsHold'
  BY <1>1, <1>3, <1>9, PinsKept DEF IInv
<1> HIDE DEF p
<1>11. QED
  BY <1>3, <1>4, <1>6, <1>7, <1>8, <1>9, <1>10, Closing

LEMMA FreeChildrenStep ==
  ASSUME IInv, NEW r \in Requests, FreeChildren(r)
  PROVE  IInv'
<1> DEFINE p == req[r].page
           ps == Children({p})
<1>1. /\ req[r].at = "free"
      /\ parent' = [q \in Pages |-> IF parent[q] = p THEN None ELSE parent[q]]
      /\ Step(r, "delete", ps) /\ ExplainedBy(r)
      /\ UNCHANGED <<row, linked, archived, locked, private, owner, favorites, pinned>>
  BY DEF FreeChildren
<1>2. req \in [Requests -> Request] /\ Columns /\ Blank /\ AllNamed /\ p \in Pages /\ p # None
  BY <1>1, Asking, PageSets DEF IInv, Sound
<1>3. Others(r, ps) /\ GoesOn(r, "delete")
  BY <1>1, <1>2, StepMoves DEF Steps
<1>4. Lasting /\ Frame(ps)
  BY <1>1, <1>2 DEF Columns, Lasting, Frame, Children
<1>5. (Misfiled \cup Lost)' \subseteq doubtful
  <2>1. None \notin archived
    BY <1>2, PageSets DEF Columns
  <2>2. Misfiled' \subseteq Misfiled
    BY <1>1, <1>2, <2>1 DEF Misfiled, Present, Columns
  <2>3. Lost' \subseteq Lost
    BY <1>1, <1>2 DEF Lost, Stray, Present, Columns
  <2>4. QED
    BY <2>2, <2>3 DEF IInv, Explained
<1>6. Explained' /\ doubtful' \subseteq Pages
  BY <1>1, <1>5, ExplainingByRequest
<1>7. Columns' /\ Blank'
  BY <1>1, <1>2, <1>6 DEF Columns, Blank
<1>8. Named(r)'
  BY <1>1, <1>2, <1>3, <1>4, GoingOnNamed DEF Steps
<1>9. Fresh(r)' /\ req'[r].at # "write"
  <2>1. \A q \in Pages : parent'[q] # p
    BY <1>1, <1>2
  <2>2. QED
    BY <1>3, <2>1 DEF GoesOn, Fresh, Children
<1>10. PinsHold'
  BY <1>1, <1>3, <1>9, PinsKept DEF IInv
<1> HIDE DEF ps
<1>11. QED
  BY <1>3, <1>4, <1>6, <1>7, <1>8, <1>9, <1>10, Closing

LEMMA SoftDeleteStep ==
  ASSUME IInv, NEW r \in Requests, SoftDelete(r)
  PROVE  IInv'
<1> DEFINE p == req[r].page
<1>1. /\ req[r].at = "delete" /\ row' = [row EXCEPT ![p] = "deleted"]
      /\ Step(r, "unlink", {p}) /\ ExplainedBy(r)
      /\ UNCHANGED <<linked, parent, archived, locked, private, owner, favorites, pinned>>
  BY DEF SoftDelete
<1>2. /\ req \in [Requests -> Request] /\ Columns /\ Blank /\ AllNamed
      /\ p \in Pages /\ p # None /\ row[p] # "absent"
  BY <1>1, Asking, PageSets DEF IInv, Sound, Named
<1>3. Others(r, {p}) /\ GoesOn(r, "unlink")
  BY <1>1, <1>2, StepMoves DEF Steps
<1>4. Lasting /\ Frame({p})
  BY <1>1, <1>2 DEF Columns, Lasting, Frame
<1>5. ASSUME ~req[r].stale PROVE (Misfiled \cup Lost)' \subseteq doubtful
  <2>1. \A q \in Pages : parent[q] # p
    BY <1>1, <1>5, Asking DEF Fresh, Children
  <2>2. Misfiled' \subseteq Misfiled
    BY <1>1, <1>2 DEF Misfiled, Present, Columns
  <2>3. Lost' \subseteq Lost
    BY <1>1, <1>2, <2>1 DEF Lost, Stray, Present, Columns
  <2>4. QED
    BY <2>2, <2>3 DEF IInv, Explained
<1>6. Explained' /\ doubtful' \subseteq Pages
  BY <1>1, <1>5, ExplainingByRequest
<1>7. Columns' /\ Blank'
  BY <1>1, <1>2, <1>6 DEF Columns, Blank
<1>8. Named(r)'
  BY <1>1, <1>2, <1>3, <1>4, GoingOnNamed DEF Steps
<1>9. Fresh(r)' /\ req'[r].at # "write"
  <2>1. row'[p] = "deleted"
    BY <1>1, <1>2 DEF Columns
  <2>2. QED
    BY <1>3, <2>1 DEF GoesOn, Fresh
<1>10. PinsHold'
  BY <1>1, <1>3, <1>9, PinsKept DEF IInv
<1> HIDE DEF p
<1>11. QED
  BY <1>3, <1>4, <1>6, <1>7, <1>8, <1>9, <1>10, Closing

LEMMA UnlinkStep ==
  ASSUME IInv, NEW r \in Requests, Unlink(r)
  PROVE  IInv'
<1> DEFINE p == req[r].page
<1>1. /\ req[r].at = "unlink" /\ linked' = linked \ {p}
      /\ Step(r, "forget", {p}) /\ ExplainedBy(r)
      /\ UNCHANGED <<row, parent, archived, locked, private, owner, favorites, pinned>>
  BY DEF Unlink
<1>2. req \in [Requests -> Request] /\ Columns /\ Blank /\ AllNamed /\ p \in Pages
  BY <1>1, Asking DEF IInv, Sound
<1>3. Others(r, {p}) /\ GoesOn(r, "forget")
  BY <1>1, <1>2, StepMoves DEF Steps
<1>4. Lasting /\ Frame({p})
  BY <1>1, <1>2 DEF Columns, Lasting, Frame
<1>5. ~req[r].stale => row[p] = "deleted"
  BY <1>1, Asking DEF Fresh
<1>6. ASSUME ~req[r].stale PROVE (Misfiled \cup Lost)' \subseteq doubtful
  <2>1. Misfiled' \subseteq Misfiled
    BY <1>1 DEF Misfiled, Present
  <2>2. Lost' \subseteq Lost
    BY <1>1, <1>5, <1>6 DEF Lost, Stray, Present
  <2>3. QED
    BY <2>1, <2>2 DEF IInv, Explained
<1>7. Explained' /\ doubtful' \subseteq Pages
  BY <1>1, <1>6, ExplainingByRequest
<1>8. Columns' /\ Blank'
  BY <1>1, <1>2, <1>7 DEF Columns, Blank
<1>9. Named(r)'
  BY <1>1, <1>2, <1>3, <1>4, GoingOnNamed DEF Steps
<1>10. (req'[r].stale \/ Fresh(r)') /\ req'[r].at # "write"
  BY <1>1, <1>3, <1>5 DEF GoesOn, Fresh
<1>11. PinsHold'
  BY <1>1, <1>3, <1>10, PinsKept DEF IInv
<1> HIDE DEF p
<1>12. QED
  BY <1>3, <1>4, <1>7, <1>8, <1>9, <1>10, <1>11, Closing

\* The statements that leave the rows alone.
LEMMA NoRowStep ==
  ASSUME IInv, NEW r \in Requests, Others(r, {}), UNCHANGED <<rows, doubtful, pinned>>,
         Named(r)', req'[r].stale \/ Fresh(r)', req'[r].at = "write" => req'[r].page \notin pinned
  PROVE  IInv'
<1>1. Columns /\ Blank
  BY DEF IInv, Sound
<1>2. Lasting /\ Frame({})
  BY <1>1 DEF rows, tree, Columns, Lasting, Frame
<1>3. Columns' /\ Blank'
  BY <1>1 DEF rows, tree, Columns, Blank
<1>4. Explained'
  BY TreeKept DEF IInv, rows
<1>5. PinsHold'
  BY DEF IInv, PinsHold, LocksHold, rows, Others, Same
<1>6. QED
  BY <1>2, <1>3, <1>4, <1>5, Closing

LEMMA Booleans == \A x, S : (x \in S) \in BOOLEAN
OBVIOUS

LEMMA ProjectIDsStep ==
  ASSUME IInv, NEW r \in Requests, ProjectIDs(r)
  PROVE  IInv'
<1> DEFINE p == req[r].page
           isIn == p \in linked
           new == [req[r] EXCEPT !.at = "copy", !.linked = isIn]
<1>1. req[r].at = "projects" /\ UNCHANGED <<rows, doubtful, pinned>>
  BY DEF ProjectIDs
<1>2. req \in [Requests -> Request] /\ req[r] \in Request /\ Named(r)
  BY DEF IInv, Sound, AllNamed
<1>3. /\ new \in Request
      /\ new.at = "copy" /\ new.linked = isIn /\ new.page = p
      /\ new.user = req[r].user /\ new.parent = req[r].parent /\ new.stale = req[r].stale
  <2>1. isIn \in BOOLEAN
    BY Booleans
  <2> HIDE DEF isIn
  <2>2. \A x \in Request, yes \in BOOLEAN :
          [x EXCEPT !.at = "copy", !.linked = yes] \in Request
    BY DEF Request, Steps
  <2>3. new \in Request
    BY <1>2, <2>1, <2>2
  <2>4. QED
    BY <1>2, <2>1, <2>3 DEF Request
<1>4. req' = [req EXCEPT ![r] = new]
  BY <1>2 DEF ProjectIDs
<1> HIDE DEF new
<1>5. req'[r] = new
  BY <1>2, <1>4
<1>6. Others(r, {})
  BY <1>2, <1>3, <1>4 DEF Others, Same, Met
<1>7. row' = row /\ parent' = parent
  BY <1>1 DEF rows, tree
<1>8. Named(r)'
  BY <1>1, <1>2, <1>3, <1>5, <1>7 DEF Named
<1>9. req'[r].stale \/ Fresh(r)'
  <2>1. ASSUME ~req[r].stale
        PROVE  p \in linked /\ req[r].parent = parent[p] /\ row[p] = "present"
    BY <1>1, <2>1, Asking DEF Fresh
  <2>2. QED
    BY <1>3, <1>5, <1>7, <2>1 DEF Fresh
<1>10. req'[r].at # "write"
  BY <1>3, <1>5
<1>11. QED
  BY <1>1, <1>6, <1>8, <1>9, <1>10, NoRowStep

\* A request that goes on after a failure counts as overtaken.
LEMMA FailureStep ==
  ASSUME IInv, NEW r \in Requests, StatementFails(r)
  PROVE  IInv'
<1> DEFINE step == AfterFailure[req[r].at]
           new == IF req[r].at \notin DOMAIN AfterFailure THEN Idle
                  ELSE [req[r] EXCEPT !.at = step, !.stale = TRUE]
<1>1. /\ req[r].at \notin {"idle", "runaway"} /\ UNCHANGED <<rows, doubtful, pinned>>
      /\ req' = [req EXCEPT ![r] = new]
  BY DEF StatementFails
<1>2. req \in [Requests -> Request] /\ req[r] \in Request /\ Named(r)
  BY DEF IInv, Sound, AllNamed
<1>3. row' = row
  BY <1>1 DEF rows, tree
<1>4. CASE req[r].at \notin DOMAIN AfterFailure
  <2>1. new = Idle
    BY <1>4
  <2> HIDE DEF new
  <2>2. Served(r) /\ Others(r, {})
    BY <1>1, <1>2, <2>1, IdleIsRequest DEF Served, Others, Same, Met
  <2>3. QED
    BY <1>1, <2>2, ServedIsSettled, NoRowStep
<1>5. CASE req[r].at \in DOMAIN AfterFailure
  <2>1. /\ req[r].at \in {"unfavorite", "look", "detach", "free", "delete", "unlink", "projects"}
        /\ step \in {"archive", "unarchive", "delete", "unlink", "forget", "copy"}
    BY <1>5 DEF AfterFailure
  <2> HIDE DEF step
  <2>2. /\ new \in Request
        /\ new.at = step /\ new.stale = TRUE /\ new.page = req[r].page
        /\ new.user = req[r].user /\ new.parent = req[r].parent
    BY <1>2, <1>5, <2>1 DEF Request, Steps
  <2> HIDE DEF new
  <2>3. req'[r] = new
    BY <1>1, <1>2
  <2>4. Others(r, {})
    BY <1>1, <1>2, <2>2 DEF Others, Same, Met
  <2>5. Named(r)' /\ req'[r].stale /\ req'[r].at # "write"
    BY <1>2, <1>3, <2>1, <2>2, <2>3 DEF Named
  <2>6. QED
    BY <1>1, <2>4, <2>5, NoRowStep
<1>6. QED
  BY <1>4, <1>5

LEMMA FavoritesStep ==
  ASSUME IInv, NEW u \in Users, NEW p \in Pages, Favorite(u, p) \/ Unfavorite(u, p)
  PROVE  IInv'
<1>1. /\ UNCHANGED <<tree, locked, private, owner, req, doubtful, pinned>>
      /\ favorites' \subseteq favorites \cup {<<u, p>>}
  BY DEF Favorite, Unfavorite
<1>2. Columns'
  BY <1>1 DEF IInv, Sound, Columns, tree
<1>3. Blank' /\ AllNamed'
  BY <1>1 DEF IInv, Sound, Blank, AllNamed, Named, tree
<1>4. Explained'
  BY <1>1, TreeKept DEF IInv
<1>5. AllFresh'
  BY <1>1 DEF IInv, AllFresh, Fresh, MayAccess, Children, tree
<1>6. PinsHold'
  BY <1>1 DEF IInv, PinsHold, LocksHold
<1>7. QED
  BY <1>2, <1>3, <1>4, <1>5, <1>6 DEF IInv, Sound

-----------------------------------------------------------------------------
(* Requests that begin.                                                     *)

LEMMA BeginPart ==
  ASSUME IInv, NEW r \in Requests, NEW step \in Steps, NEW u \in Users,
         NEW p \in Pages \cup {None}, NEW more \in Request, Begin(r, step, u, p, more),
         step \notin {"idle", "create"} => p # None,
         step \in {"look", "detach"} => more.parent # None,
         p # None => row[p] # "absent",
         more.parent # None => row[more.parent] # "absent",
         Others(r, {}) /\ Begun(r, step, u, p, more) => req'[r].stale \/ Fresh(r)',
         step = "write" => p \notin pinned
  PROVE  IInv'
<1>1. req \in [Requests -> Request]
  BY DEF IInv, Sound, AllNamed
<1>2. Others(r, {}) /\ Begun(r, step, u, p, more)
  BY <1>1, BeginMoves
<1>3. UNCHANGED <<rows, doubtful, pinned>> /\ row' = row
  BY DEF Begin, rows, tree
<1>4. Named(r)'
  BY <1>2, <1>3 DEF Begun, Named
<1>5. req'[r].at = "write" => req'[r].page \notin pinned
  BY <1>2 DEF Begun
<1>6. QED
  BY <1>2, <1>3, <1>4, <1>5, NoRowStep

\* The locals that a request begins with.
LEMMA Locals ==
  ASSUME NEW isPrivate \in BOOLEAN, NEW lock \in BOOLEAN, NEW q \in Pages \cup {None}
  PROVE  /\ [Idle EXCEPT !.private = isPrivate, !.parent = q] \in Request
         /\ [Idle EXCEPT !.private = isPrivate, !.locked = lock, !.parent = q] \in Request
         /\ [Idle EXCEPT !.private = isPrivate] \in Request
         /\ [Idle EXCEPT !.locked = lock] \in Request
         /\ [Idle EXCEPT !.parent = q] \in Request
BY DEF Idle, Request, Steps

\* What a request that begins finds is what it knows.
LEMMA Beginning ==
  ASSUME IInv, NEW r \in Requests, NEW step \in Steps, NEW u \in Users,
         NEW p \in Pages \cup {None}, NEW more \in Request, Begin(r, step, u, p, more),
         Begun(r, step, u, p, more),
         step \in {"write", "access"} => (more.private # (p \in private) => u = owner[p]),
         step = "look" => more.parent = parent[p],
         step = "unarchive" => parent[p] = None,
         step \notin {"delete", "unlink", "forget", "copy"},
         step = "projects" => p \in linked /\ more.parent = parent[p] /\ row[p] = "present"
  PROVE  Fresh(r)'
<1>1. /\ row' = row /\ linked' = linked /\ parent' = parent /\ archived' = archived
      /\ private' = private /\ owner' = owner
  BY DEF Begin, rows, tree
<1>2. /\ req'[r].at = step /\ req'[r].page = p /\ req'[r].parent = more.parent
      /\ req'[r].private = more.private /\ req'[r].user = u
  BY DEF Begun
<1>3. QED
  BY <1>1, <1>2 DEF Fresh, MayAccess

LEMMA BeginCreateStep ==
  ASSUME IInv, NEW r \in Requests, NEW u \in Users, NEW isPrivate \in BOOLEAN,
         NEW q \in Pages \cup {None}, BeginCreate(r, u, isPrivate, q)
  PROVE  IInv'
<1> DEFINE more == [Idle EXCEPT !.private = isPrivate, !.parent = q]
<1>1. more \in Request /\ more.parent = q
  BY Locals DEF Idle
<1>2. q \in Nameable \cup {None} /\ Begin(r, "create", u, None, more)
  BY DEF BeginCreate
<1> HIDE DEF more
<1>3. q # None => row[q] # "absent"
  BY <1>2 DEF Nameable
<1>4. Begun(r, "create", u, None, more) => Fresh(r)'
  BY <1>1, <1>2, Beginning DEF Steps
<1>5. QED
  BY <1>1, <1>2, <1>3, <1>4, BeginPart DEF Steps

LEMMA BeginUpdateStep ==
  ASSUME IInv, NEW r \in Requests, NEW u \in Users, NEW p \in Pages, NEW isPrivate \in BOOLEAN,
         NEW lock \in BOOLEAN, NEW q \in Pages \cup {None}, BeginUpdate(r, u, p, isPrivate, lock, q)
  PROVE  IInv'
<1> DEFINE more == [Idle EXCEPT !.private = isPrivate, !.locked = lock, !.parent = q]
<1>1. more \in Request /\ more.parent = q /\ more.private = isPrivate
  BY Locals DEF Idle
<1>2. /\ p \in FetchInProject /\ p \notin locked
      /\ isPrivate # (p \in private) => u = owner[p]
      /\ q \in Nameable \cup {parent[p]}
      /\ Begin(r, "write", u, p, more)
  BY DEF BeginUpdate
<1> HIDE DEF more
<1>3. p # None /\ row[p] # "absent" /\ p \notin pinned
  BY <1>2, PageSets DEF FetchInProject, Present, IInv, PinsHold, LocksHold
<1>4. q # None => row[q] # "absent"
  BY <1>2 DEF Nameable, IInv, Sound, Blank
<1>5. Begun(r, "write", u, p, more) => Fresh(r)'
  BY <1>1, <1>2, Beginning DEF Steps
<1>6. QED
  BY <1>1, <1>2, <1>3, <1>4, <1>5, BeginPart DEF Steps

\* The requests on a page that pass a single value.
LEMMA BeginOnPage ==
  ASSUME IInv, NEW r \in Requests, NEW u \in Users, NEW p \in FetchInProject,
         NEW step \in {"lock", "access", "unfavorite", "look", "unarchive", "free", "projects"},
         NEW more \in Request, Begin(r, step, u, p, more),
         step = "access" => (more.private # (p \in private) => u = owner[p]),
         step = "look" => more.parent = parent[p] /\ more.parent # None,
         step = "unarchive" => parent[p] = None,
         step = "projects" => more.parent = parent[p],
         more.parent \in {None, parent[p]}
  PROVE  IInv'
<1>1. /\ p \in Pages /\ p # None /\ row[p] = "present" /\ p \in linked
  BY PageSets DEF FetchInProject, Present
<1>2. more.parent # None => row[more.parent] # "absent"
  BY <1>1 DEF IInv, Sound, Blank
<1>3. step \in Steps \ {"idle", "create", "write", "detach", "delete", "unlink", "forget", "copy"}
  BY DEF Steps
<1>4. Begun(r, step, u, p, more) => Fresh(r)'
  BY <1>1, <1>3, Beginning
<1>5. QED
  BY <1>1, <1>2, <1>3, <1>4, BeginPart

LEMMA BeginSetLockedStep ==
  ASSUME IInv, NEW r \in Requests, NEW u \in Users, NEW p \in Pages, NEW lock \in BOOLEAN,
         BeginSetLocked(r, u, p, lock)
  PROVE  IInv'
<1> DEFINE more == [Idle EXCEPT !.locked = lock]
<1>1. more \in Request /\ more.parent = None
  BY Locals DEF Idle
<1>2. p \in FetchInProject /\ Begin(r, "lock", u, p, more)
  BY DEF BeginSetLocked
<1> HIDE DEF more
<1>3. QED
  BY <1>1, <1>2, BeginOnPage

LEMMA BeginAccessStep ==
  ASSUME IInv, NEW r \in Requests, NEW u \in Users, NEW p \in Pages, NEW isPrivate \in BOOLEAN,
         BeginAccess(r, u, p, isPrivate)
  PROVE  IInv'
<1> DEFINE more == [Idle EXCEPT !.private = isPrivate]
<1>1. more \in Request /\ more.parent = None /\ more.private = isPrivate
  BY Locals DEF Idle
<1>2. /\ p \in FetchInProject /\ Begin(r, "access", u, p, more)
      /\ isPrivate # (p \in private) => u = owner[p]
  BY DEF BeginAccess
<1> HIDE DEF more
<1>3. QED
  BY <1>1, <1>2, BeginOnPage

LEMMA BeginTreeStep ==
  ASSUME IInv, NEW r \in Requests, NEW u \in Users, NEW p \in Pages,
         BeginArchive(r, u, p) \/ BeginDestroy(r, u, p)
  PROVE  IInv'
<1>1. Idle \in Request /\ Idle.parent = None
  BY IdleIsRequest DEF Idle
<1>2. \E step \in {"unfavorite", "free"} : p \in FetchInProject /\ Begin(r, step, u, p, Idle)
  BY DEF BeginArchive, BeginDestroy
<1>3. QED
  BY <1>1, <1>2, BeginOnPage

LEMMA BeginUnarchiveStep ==
  ASSUME IInv, NEW r \in Requests, NEW u \in Users, NEW p \in Pages, BeginUnarchive(r, u, p)
  PROVE  IInv'
<1> DEFINE more == [Idle EXCEPT !.parent = parent[p]]
           step == IF parent[p] = None THEN "unarchive" ELSE "look"
<1>1. parent[p] \in Pages \cup {None}
  BY DEF IInv, Sound, Columns
<1>2. more \in Request /\ more.parent = parent[p]
  BY <1>1, Locals DEF Idle
<1>3. p \in FetchInProject /\ Begin(r, step, u, p, more)
  BY DEF BeginUnarchive
<1> HIDE DEF more
<1>4. QED
  BY <1>2, <1>3, BeginOnPage

LEMMA BeginDuplicateStep ==
  ASSUME IInv, NEW r \in Requests, NEW u \in Users, NEW p \in Pages, BeginDuplicate(r, u, p)
  PROVE  IInv'
<1> DEFINE isPrivate == p \in private
           more == [Idle EXCEPT !.private = isPrivate, !.parent = parent[p]]
<1>1. parent[p] \in Pages \cup {None} /\ isPrivate \in BOOLEAN
  BY DEF IInv, Sound, Columns
<1>2. p \in FetchInProject /\ Begin(r, "projects", u, p, more)
  BY DEF BeginDuplicate
<1> HIDE DEF isPrivate
<1>3. more \in Request /\ more.parent = parent[p]
  BY <1>1, Locals DEF Idle
<1> HIDE DEF more
<1>4. QED
  BY <1>2, <1>3, BeginOnPage

-----------------------------------------------------------------------------
(* The theorems.                                                            *)

LEMMA InitIInv == Init => IInv
<1> SUFFICES ASSUME Init PROVE IInv
  OBVIOUS
<1>1. Columns /\ Blank
  BY PageSets DEF Init, Columns, Blank
<1>2. AllNamed
  BY IdleIsRequest DEF Init, AllNamed, Named, Idle
<1>3. AllFresh
  BY DEF Init, AllFresh, Fresh, Idle
<1>4. Explained /\ PinsHold
  BY DEF Init, Explained, Misfiled, Lost, Stray, Present, PinsHold, LocksHold, Idle
<1>5. QED
  BY <1>1, <1>2, <1>3, <1>4 DEF IInv, Sound

LEMMA NextIInv == IInv /\ [Next]_vars => IInv'
<1> SUFFICES ASSUME IInv, [Next]_vars PROVE IInv'
  OBVIOUS
<1>1. CASE UNCHANGED vars
  BY <1>1 DEF vars, rows, tree, IInv, Sound, Columns, Blank, AllNamed, Named, AllFresh, Fresh,
              MayAccess, Children, Explained, Misfiled, Lost, Stray, Present, PinsHold, LocksHold
<1>2. ASSUME NEW r \in Requests, NEW u \in Users, NEW isPrivate \in BOOLEAN,
             NEW q \in Pages \cup {None}, BeginCreate(r, u, isPrivate, q)
      PROVE  IInv'
  BY <1>2, BeginCreateStep
<1>3. ASSUME NEW r \in Requests, NEW u \in Users, NEW p \in Pages,
             \/ \E lock \in BOOLEAN : BeginSetLocked(r, u, p, lock)
             \/ \E isPrivate \in BOOLEAN : BeginAccess(r, u, p, isPrivate)
             \/ BeginArchive(r, u, p) \/ BeginUnarchive(r, u, p)
             \/ BeginDestroy(r, u, p) \/ BeginDuplicate(r, u, p)
      PROVE  IInv'
  BY <1>3, BeginSetLockedStep, BeginAccessStep, BeginTreeStep, BeginUnarchiveStep, BeginDuplicateStep
<1>4. ASSUME NEW r \in Requests, NEW u \in Users, NEW p \in Pages, NEW isPrivate \in BOOLEAN,
             NEW lock \in BOOLEAN, NEW q \in Pages \cup {None}, BeginUpdate(r, u, p, isPrivate, lock, q)
      PROVE  IInv'
  BY <1>4, BeginUpdateStep
<1>5. ASSUME NEW r \in Requests, NEW p \in Pages, Create(r, p) \/ Duplicate(r, p) PROVE IInv'
  BY <1>5, CreateStep, DuplicateStep
<1>6. ASSUME NEW r \in Requests,
             \/ UpdatePage(r) \/ SetLocked(r) \/ SetAccess(r) \/ DropFavorites(r)
             \/ ArchiveTree(r) \/ LookAtParent(r) \/ Detach(r) \/ UnarchiveTree(r)
             \/ FreeChildren(r) \/ SoftDelete(r) \/ Unlink(r) \/ ProjectIDs(r) \/ StatementFails(r)
      PROVE  IInv'
  BY <1>6, UpdateStep, SetLockedStep, SetAccessStep, DropFavoritesStep, ArchiveStep,
     LookAtParentStep, DetachStep, UnarchiveStep, FreeChildrenStep, SoftDeleteStep, UnlinkStep,
     ProjectIDsStep, FailureStep
<1>7. ASSUME NEW u \in Users, NEW p \in Pages, Favorite(u, p) \/ Unfavorite(u, p) PROVE IInv'
  BY <1>7, FavoritesStep
<1>8. QED
  BY <1>1, <1>2, <1>3, <1>4, <1>5, <1>6, <1>7 DEF Next

LEMMA Invariant == Spec => []IInv
<1>1. QED
  BY InitIInv, NextIInv, PTL DEF Spec

\* The tree of pages stays whole: archive and unarchive (page/handlers.go:525) leave no
\* page outside the archive below one inside, and every page can be reached from a root
\* that the list of its project shows, but for those whose place an overlap, a failure
\* or a request that names the parent explains.
THEOREM PagesStayReachable == Spec => []PagesInv
<1>1. ASSUME IInv PROVE PagesInv
  <2>1. TypeOK /\ PagesReachable
    BY <1>1, SoundTypes, Reachable DEF IInv
  <2>2. SubtreesArchived
    BY <1>1 DEF IInv, Explained, SubtreesArchived
  <2>3. QED
    BY <2>1, <2>2 DEF PagesInv
<1>2. QED
  BY <1>1, Invariant, PTL

\* A page that is locked (page/handlers.go, lock) while no PATCH has read it stays locked
\* until it is unlocked.
THEOREM LocksAreKept == Spec => []LocksHold
<1>1. ASSUME IInv PROVE LocksHold
  BY <1>1 DEF IInv, PinsHold
<1>2. QED
  BY <1>1, Invariant, PTL

\* Access is written by a PATCH and by access only, which have asked who the owner is.
LEMMA AccessStep ==
  ASSUME IInv, [Next]_vars
  PROVE  \A p \in Present : (p \in private) # (p \in private') =>
           \E r \in Requests : /\ req'[r] # req[r] /\ req[r].page = p
                              /\ (req[r].user = owner[p] \/ req[r].stale)
<1> DEFINE Asked(p) == \E r \in Requests : /\ req'[r] # req[r] /\ req[r].page = p
                                            /\ (req[r].user = owner[p] \/ req[r].stale)
           SameAccess(p) == p \in private <=> p \in private'
<1>1. ASSUME NEW r \in Requests, NEW q \in Pages, Create(r, q) \/ Duplicate(r, q)
      PROVE  \A p \in Present : SameAccess(p)
  BY <1>1 DEF Create, Duplicate, Insert, Present
<1>2. ASSUME NEW r \in Requests, UpdatePage(r) \/ SetAccess(r)
      PROVE  \A p \in Present : SameAccess(p) \/ Asked(p)
  <2> DEFINE q == req[r].page
  <2>1. /\ req[r].at \in {"write", "access"} /\ private' = With(private, q, req[r].private)
        /\ \E ps : Step(r, "idle", ps)
    BY <1>2 DEF UpdatePage, SetAccess
  <2>2. \A p \in Present : p # q => SameAccess(p)
    BY <2>1 DEF With
  <2>3. ~SameAccess(q) => req[r].user = owner[q] \/ req[r].stale
    <3>1. req[r].stale \/ MayAccess(r)
      BY <2>1 DEF IInv, AllFresh, Fresh
    <3>2. (q \in private') <=> req[r].private
      BY <2>1 DEF With
    <3>3. req[r].private \in BOOLEAN
      BY Asking
    <3>4. QED
      BY <3>1, <3>2, <3>3 DEF MayAccess
  <2>4. req'[r] # req[r]
    <3>1. Served(r)
      BY <2>1, StepMoves DEF Steps, IInv, Sound, AllNamed
    <3>2. QED
      BY <2>1, <3>1 DEF Served, Idle
  <2>5. QED
    BY <2>2, <2>3, <2>4
<1>3. CASE private' = private
  BY <1>3
<1>4. CASE private' # private
  <2>1. UNCHANGED vars => private' = private
    BY DEF vars, rows
  <2>2. ASSUME NEW r \in Requests, NEW u \in Users,
               \/ \E isPrivate \in BOOLEAN, q \in Pages \cup {None} : BeginCreate(r, u, isPrivate, q)
               \/ \E p \in Pages : \/ \E lock \in BOOLEAN : BeginSetLocked(r, u, p, lock)
                                  \/ \E isPrivate \in BOOLEAN : BeginAccess(r, u, p, isPrivate)
                                  \/ BeginArchive(r, u, p) \/ BeginUnarchive(r, u, p)
                                  \/ BeginDestroy(r, u, p) \/ BeginDuplicate(r, u, p)
               \/ \E p \in Pages, isPrivate, lock \in BOOLEAN, q \in Pages \cup {None} :
                    BeginUpdate(r, u, p, isPrivate, lock, q)
        PROVE  private' = private
    BY <2>2 DEF BeginCreate, BeginSetLocked, BeginAccess, BeginArchive, BeginUnarchive, BeginDestroy,
                BeginDuplicate, BeginUpdate, Begin, rows
  <2>3. ASSUME NEW r \in Requests,
               \/ SetLocked(r) \/ DropFavorites(r) \/ ArchiveTree(r) \/ LookAtParent(r)
               \/ Detach(r) \/ UnarchiveTree(r) \/ FreeChildren(r) \/ SoftDelete(r)
               \/ Unlink(r) \/ ProjectIDs(r) \/ StatementFails(r)
        PROVE  private' = private
    BY <2>3 DEF SetLocked, DropFavorites, ArchiveTree, LookAtParent, Detach, UnarchiveTree,
                FreeChildren, SoftDelete, Unlink, ProjectIDs, StatementFails, rows
  <2>4. ASSUME NEW u \in Users, NEW p \in Pages, Favorite(u, p) \/ Unfavorite(u, p)
        PROVE  private' = private
    BY <2>4 DEF Favorite, Unfavorite
  <2> HIDE DEF Asked, SameAccess
  <2>5. \A p \in Present : SameAccess(p) \/ Asked(p)
    BY <1>1, <1>2, <1>4, <2>1, <2>2, <2>3, <2>4 DEF Next
  <2>6. QED
    BY <2>5 DEF SameAccess, Asked
<1>5. QED
  BY <1>3, <1>4

\* "Only the owner may change access." (page/handlers.go:351), unless a PATCH by somebody
\* else writes back the access it has read before.
THEOREM OwnersDecide == Spec => AccessByOwner
<1>1. ASSUME IInv, [Next]_vars
      PROVE  [\A p \in Present : (p \in private) # (p \in private') =>
                \E r \in Requests : /\ req'[r] # req[r] /\ req[r].page = p
                                   /\ (req[r].user = owner[p] \/ req[r].stale)]_vars
  BY <1>1, AccessStep
<1>2. QED
  BY <1>1, Invariant, PTL DEF Spec, AccessByOwner
=============================================================================
