---------------------------- MODULE Catalog_proofs ----------------------------
(***************************************************************************)
(* What holds of Catalog and of Assets for any number of rows, values,     *)
(* requests and assets: each field is as it was last asked for, names and  *)
(* dates keep their rules, and what is marked uploaded is served.          *)
(***************************************************************************)
EXTENDS Catalog, Assets, TLAPS

-----------------------------------------------------------------------------
(* The inductive invariant of the records, in named parts.                 *)

\* A row that has been stored.
Real == [kind : Kinds, key : Keys \cup {None}, one : Values \cup {None},
         two : Values \cup {None}, status : {"live", "deleted", "gone"}]

RowOK(i) ==
  /\ \/ row[i] \in Real /\ asked[i] \in Real
     \/ row[i] = Blank /\ asked[i] = Blank
  /\ \A f \in Fields : <<i, f>> \notin doubtful => row[i][f] = asked[i][f]
  /\ \A f \in Fields : <<i, f>> \in doubtful => row[i] \in Real

\* A field that r was not asked for, and that nobody has changed since it read, is still
\* what r is going to write.
Fresh(r, f) == f \in req[r].old \/ req[r].new[f] = row[req[r].id][f]

\* What a request knows about its row and about the others while it is between statements.
Holds(r) == req[r].id \in Rows /\ row[req[r].id] \in Real /\ row[req[r].id].kind = req[r].new.kind
NameFree(r) ==
  /\ req[r].new.key \in Keys
  /\ \/ "key" \in req[r].old
     \/ \A j \in Live(req[r].new.kind) : Folded[row[j].key] # Folded[req[r].new.key]
ReqOK(r) ==
  /\ req[r] \in Request
  /\ req[r].at # "idle" => req[r].new \in Real
  /\ req[r].at \in {"write", "start", "target", "promote", "consume"} => Holds(r)
  /\ req[r].at = "write" => \A f \in Fields \ req[r].fields : Fresh(r, f)
  /\ req[r].at = "insert" /\ req[r].new.kind \in {"label", "state"} => NameFree(r)
  /\ req[r].at = "write" /\ req[r].new.kind = "draft" => DatesOK(req[r].new)
  /\ req[r].at \in {"start", "target"} => req[r].new.kind = "issue" /\ DatesOK(req[r].new)
  /\ req[r].at = "start" => "two" \in req[r].fields \/ Fresh(r, "two")
  /\ req[r].at = "target" => req[r].id \in slipped \/ Fresh(r, "one")
  /\ req[r].at = "promote" => req[r].id \in slipped \/ DatesOK(req[r].new)

IInv == /\ row = [i \in Rows |-> row[i]] /\ asked = [i \in Rows |-> asked[i]]
        /\ req = [r \in Requests |-> req[r]]
        /\ doubtful \subseteq Rows \X Fields /\ slipped \subseteq Rows
        /\ \A i \in Rows : RowOK(i)
        /\ \A r \in Requests : ReqOK(r)
        /\ KeysDistinct /\ DatesInOrder

\* What every step has to show: the invariant holds again, and of the fields that no overlap
\* can undo the step has changed those alone that were asked for.
SafeStep == \A i \in Rows : \A f \in SafeFields(row'[i].kind) :
              row'[i][f] # row[i][f] => row'[i][f] = asked'[i][f]
Kept == IInv' /\ SafeStep

-----------------------------------------------------------------------------
(* Records.                                                                *)

\* A row put together from two others, field by field.
Mix(a, b, S) == [f \in DOMAIN Blank |-> IF f \in S THEN a[f] ELSE b[f]]
LEMMA Mixed ==
  ASSUME NEW a \in Real, NEW b \in Real, NEW S \in SUBSET Fields
  PROVE  /\ Mix(a, b, S) \in Real /\ Mix(a, b, S).kind = b.kind
         /\ \A f \in Fields : Mix(a, b, S)[f] = IF f \in S THEN a[f] ELSE b[f]
<1> DEFINE c == Mix(a, b, S)
<1>1. DOMAIN Blank = {"kind", "key", "one", "two", "status"} /\ "kind" \notin Fields
      /\ Fields = {"key", "one", "two", "status"}
  BY DEF Blank, Fields
<1>2. \A f \in {"kind", "key", "one", "two", "status"} : c[f] = IF f \in S THEN a[f] ELSE b[f]
  BY <1>1 DEF Mix
<1>3. c.kind = b.kind
  BY <1>1, <1>2
<1>4. c = [kind |-> c.kind, key |-> c.key, one |-> c.one, two |-> c.two, status |-> c.status]
  BY <1>1 DEF Mix
<1>5. /\ c.kind \in Kinds /\ c.key \in Keys \cup {None} /\ c.one \in Values \cup {None}
      /\ c.two \in Values \cup {None} /\ c.status \in {"live", "deleted", "gone"}
  BY <1>1, <1>2 DEF Real
<1> HIDE DEF c
<1>6. c \in Real
  BY <1>4, <1>5 DEF Real
<1> QED BY <1>1, <1>2, <1>3, <1>6 DEF c

LEMMA RealFields ==
  ASSUME NEW a \in Real
  PROVE  /\ DOMAIN a = DOMAIN Blank /\ a # Blank /\ a.status # "none" /\ a \in Record
         /\ a.kind \in Kinds /\ a.key \in Keys \cup {None}
         /\ a.one \in Values \cup {None} /\ a.two \in Values \cup {None}
<1>1. a.status \in {"live", "deleted", "gone"} /\ DOMAIN a = {"kind", "key", "one", "two", "status"}
  BY DEF Real
<1>2. Blank.status = "none" /\ DOMAIN Blank = {"kind", "key", "one", "two", "status"}
  BY DEF Blank
<1>3. a.status # "none" /\ a # Blank /\ DOMAIN a = DOMAIN Blank
  BY <1>1, <1>2
<1>4. a \in Record
  BY DEF Real, Record
<1>5. /\ a.kind \in Kinds /\ a.key \in Keys \cup {None}
      /\ a.one \in Values \cup {None} /\ a.two \in Values \cup {None}
  BY DEF Real
<1> QED BY <1>3, <1>4, <1>5

LEMMA NewIsReal ==
  ASSUME NEW kind \in Kinds, NEW key \in Keys \cup {None},
         NEW one \in Values \cup {None}, NEW two \in Values \cup {None}
  PROVE  /\ New(kind, key, one, two) \in Real /\ New(kind, key, one, two).kind = kind
         /\ New(kind, key, one, two).key = key /\ New(kind, key, one, two).status = "live"
         /\ New(kind, key, one, two).one = one /\ New(kind, key, one, two).two = two
BY DEF New, Real

-----------------------------------------------------------------------------
(* Requests beside a write.                                                *)

LEMMA Parts ==
  ASSUME IInv
  PROVE  /\ DOMAIN row = Rows /\ DOMAIN asked = Rows /\ DOMAIN req = Requests
         /\ \A i \in Rows : RowOK(i)
         /\ \A r \in Requests : ReqOK(r)
         /\ \A i \in Rows : \/ row[i] \in Real /\ row[i] # Blank
                            \/ row[i] = Blank /\ row[i].status = "none"
BY RealFields DEF IInv, RowOK, Blank

LEMMA SafeAreFields == \A kind : SafeFields(kind) \subseteq Fields
BY DEF SafeFields, Fields

\* A request that has not written itself notices whatever is new to it.
LEMMA NoticedKeeps ==
  ASSUME IInv, NEW i \in Rows, NEW new \in Real,
         row'[i] = new, \A j \in Rows \ {i} : row'[j] = row[j],
         row[i] = Blank \/ new.kind = row[i].kind,
         new.kind \in {"label", "state"} /\ new.status = "live"
           => row[i].key # new.key \/ row[i].status = "live",
         slipped \subseteq slipped', NEW q \in Requests, req'[q] = Noticed(i, new)[q]
  PROVE  ReqOK(q)'
<1>1. ReqOK(q) /\ req[q] \in Request
  BY Parts DEF ReqOK
<1> DEFINE hit == req[q].id = i \/ (req[q].at = "insert" /\ req[q].new.kind = new.kind)
<1>2. req'[q] = IF hit THEN [req[q] EXCEPT !.old = @ \cup Changed(i, new)] ELSE req[q]
  BY DEF Noticed
<1>3. /\ req'[q].at = req[q].at /\ req'[q].id = req[q].id /\ req'[q].new = req[q].new
      /\ req'[q].fields = req[q].fields
      /\ req[q].old \subseteq req'[q].old
      /\ hit => Changed(i, new) \subseteq req'[q].old
      /\ req'[q] \in Request
  <2>1. Changed(i, new) \subseteq Fields
    BY DEF Changed
  <2> HIDE DEF hit
  <2>2. CASE hit
    <3>1. req'[q] = [req[q] EXCEPT !.old = req[q].old \cup Changed(i, new)]
      BY <1>2, <2>2
    <3> QED BY <1>1, <2>1, <3>1 DEF Request
  <2>3. CASE ~hit
    BY <1>1, <1>2, <2>3
  <2> QED BY <2>2, <2>3
<1>4. \/ row[i] \in Real /\ row[i] # Blank
      \/ row[i] = Blank /\ row[i].status = "none"
  BY Parts
<1>5. Holds(q) => Holds(q)'
  BY <1>3, <1>4, RealFields DEF Holds
<1>6. ASSUME NEW f \in Fields, Holds(q), Fresh(q, f) PROVE Fresh(q, f)'
  <2>1. CASE req[q].id = i
    <3>1. row[i][f] # new[f] => f \in req'[q].old
      BY <1>3, <2>1 DEF Changed
    <3> QED BY <1>3, <1>6, <2>1, <3>1 DEF Fresh
  <2>2. CASE req[q].id # i
    BY <1>3, <1>6, <2>2 DEF Fresh, Holds
  <2> QED BY <2>1, <2>2
<1>7. ASSUME NameFree(q), req[q].at = "insert", req[q].new.kind \in {"label", "state"} PROVE NameFree(q)'
  <2>1. SUFFICES ASSUME "key" \notin req'[q].old, NEW j \in Rows, row'[j].kind = req[q].new.kind,
                        row'[j].status = "live"
                 PROVE  Folded[row'[j].key] # Folded[req[q].new.key]
    BY <1>3, <1>7 DEF NameFree, Live
  <2>2. CASE j # i
    BY <1>3, <1>7, <2>1, <2>2 DEF NameFree, Live
  <2>3. CASE j = i
    <3>1. hit
      BY <1>7, <2>1, <2>3
    <3>2. row[i].key = new.key
      BY <1>3, <2>1, <3>1 DEF Changed, Fields
    <3>3. row[i].status = "live" /\ row[i].kind = new.kind
      BY <1>4, <1>7, <2>1, <2>3, <3>2
    <3> QED BY <1>3, <1>7, <2>1, <2>3, <3>2, <3>3 DEF NameFree, Live
  <2> QED BY <2>2, <2>3
<1> HIDE DEF hit
<1> QED BY <1>1, <1>3, <1>5, <1>6, <1>7 DEF ReqOK, Fields

-----------------------------------------------------------------------------
(* Statements.                                                             *)

\* A bulk update has still to write the target date of row i.
HalfDone(i) == \E q \in Requests : req[q].at = "target" /\ req[q].id = i

\* What a statement that writes row i has to see to: what it leaves in doubt about the row,
\* its key and its name among the others, its dates, and what the requests know of it.
DoubtKept(i, new, want) ==
  /\ doubtful' \subseteq Rows \X Fields
  /\ \A j \in Rows \ {i}, f \in Fields : <<j, f>> \in doubtful' <=> <<j, f>> \in doubtful
  /\ \A f \in Fields : <<i, f>> \notin doubtful' => new[f] = want[f]
  /\ \A f \in SafeFields(new.kind) : new[f] = row[i][f] \/ new[f] = want[f]
KeyKept(i, new) == \/ Free(i, new) \/ new.kind \notin Indexed
                   \/ new.key = row[i].key /\ row[i].status = "live"
NameKept(i, new) ==
  new.kind \in {"label", "state"} /\ new.status = "live"
    => /\ row[i].key # new.key \/ row[i].status = "live"
       /\ new.key # None /\ i \notin slipped'
            => \A j \in Live(new.kind) \ {i} : row[j].key # None /\ j \notin slipped
                                               => Folded[row[j].key] # Folded[new.key]
DatesKept(i, new) ==
  new.kind \in {"draft", "issue"} /\ i \notin slipped' /\ ~HalfDone(i)' => DatesOK(new)
RequestsKept(i, new) ==
  /\ \A q \in Requests : req[q].at = "target" /\ req[q].id # i
                           => req'[q].at = "target" /\ req'[q].id = req[q].id
  /\ req' = [q \in Requests |-> req'[q]]
  /\ \A q \in Requests : req'[q] = Noticed(i, new)[q] \/ ReqOK(q)'

LEMMA WriteKeeps ==
  ASSUME IInv, NEW i \in Rows, NEW new \in Real, NEW want \in Real,
         row' = [row EXCEPT ![i] = new], asked' = [asked EXCEPT ![i] = want],
         row[i] = Blank \/ new.kind = row[i].kind,
         slipped \subseteq slipped', slipped' \subseteq slipped \cup {i},
         DoubtKept(i, new, want), KeyKept(i, new), NameKept(i, new), DatesKept(i, new),
         RequestsKept(i, new)
  PROVE  Kept
<1> USE DEF DoubtKept, KeyKept, NameKept, DatesKept, RequestsKept
<1>1. /\ row'[i] = new /\ row' = [j \in Rows |-> row'[j]]
      /\ \A j \in Rows \ {i} : row'[j] = row[j]
  BY Parts
<1>2. /\ asked'[i] = want /\ asked' = [j \in Rows |-> asked'[j]]
      /\ \A j \in Rows \ {i} : asked'[j] = asked[j]
  BY Parts
<1>3. \A q \in Requests : ReqOK(q)'
  BY <1>1, NoticedKeeps
<1>4. slipped' \subseteq Rows
  BY DEF IInv
<1>5. RowOK(i)'
  BY <1>1, <1>2 DEF RowOK
<1>6. \A j \in Rows \ {i} : RowOK(j)'
  BY <1>1, <1>2, Parts DEF RowOK
<1>7. \/ row[i] \in Real /\ row[i] # Blank
      \/ row[i] = Blank /\ row[i].status = "none"
  BY Parts
<1>8. KeysDistinct'
  <2>1. ASSUME NEW j \in Rows, j # i, row[j].kind = new.kind, row[j].status = "live", new.status = "live",
               new.kind \in Indexed, row[j].key # None, new.key # None
        PROVE  /\ row[j].key # new.key
               /\ new.kind \in {"label", "state"} /\ {i, j} \cap slipped' = {}
                    => Folded[row[j].key] # Folded[new.key]
    <3>1. CASE Free(i, new)
      <4>1. row[j].key # new.key
        BY <2>1, <3>1 DEF Free, Live
      <4> QED BY <2>1, <4>1 DEF Live
    <3>2. CASE new.key = row[i].key /\ row[i].status = "live"
      <4>1. row[i].kind = new.kind
        BY <1>7, <3>2
      <4>2. row[j].key # row[i].key
        BY <2>1, <3>2, <4>1 DEF IInv, KeysDistinct
      <4> QED BY <2>1, <3>2, <4>2 DEF Live
    <3> QED BY <2>1, <3>1, <3>2
  <2>2. ASSUME NEW j \in Rows, NEW k \in Rows, j # k, row'[j].kind = row'[k].kind,
               row'[j].status = "live", row'[k].status = "live", row'[j].kind \in Indexed,
               row'[j].key # None, row'[k].key # None
        PROVE  /\ row'[j].key # row'[k].key
               /\ row'[j].kind \in {"label", "state"} /\ {j, k} \cap slipped' = {}
                    => Folded[row'[j].key] # Folded[row'[k].key]
    <3>1. CASE j = i
      BY <1>1, <2>1, <2>2, <3>1
    <3>2. CASE k = i
      BY <1>1, <2>1, <2>2, <3>2
    <3>3. CASE j # i /\ k # i
      <4>1. row'[j] = row[j] /\ row'[k] = row[k]
        BY <1>1, <3>3
      <4> QED BY <2>2, <4>1 DEF IInv, KeysDistinct
    <3> QED BY <3>1, <3>2, <3>3
  <2> QED BY <2>2 DEF KeysDistinct
<1>9. DatesInOrder'
  <2>1. ASSUME NEW j \in Rows \ slipped', row'[j].kind \in {"draft", "issue"},
               \A q \in Requests : req'[q].at = "target" => req'[q].id # j
        PROVE  DatesOK(row'[j])
    <3>1. CASE j = i
      BY <1>1, <2>1, <3>1 DEF HalfDone
    <3>2. CASE j # i
      <4>1. row'[j] = row[j] /\ j \in Rows \ slipped
        BY <1>1, <2>1, <3>2
      <4>2. \A q \in Requests : req[q].at = "target" => req[q].id # j
        BY <2>1, <3>2
      <4> QED BY <2>1, <4>1, <4>2 DEF IInv, DatesInOrder
    <3> QED BY <3>1, <3>2
  <2> QED BY <2>1 DEF DatesInOrder, DatesOK
<1>10. SafeStep
  BY <1>1, <1>2 DEF SafeStep
<1> QED BY <1>1, <1>2, <1>3, <1>4, <1>5, <1>6, <1>8, <1>9, <1>10 DEF Kept, IInv

\* A step of a request that writes no row.
LEMMA ReadKeeps ==
  ASSUME IInv, NEW r \in Requests, NEW then, req' = [req EXCEPT ![r] = then],
         UNCHANGED <<row, asked, doubtful, slipped>>, ReqOK(r)', req[r].at # "target"
  PROVE  Kept
<1>1. row' = row /\ asked' = asked /\ doubtful' = doubtful /\ slipped' = slipped
  OBVIOUS
<1>2. /\ req'[r] = then /\ req' = [q \in Requests |-> req'[q]]
      /\ \A q \in Requests \ {r} : req'[q] = req[q]
  BY Parts
<1>3. ASSUME NEW q \in Requests, q # r PROVE ReqOK(q)'
  <2>1. req'[q] = req[q] /\ ReqOK(q)
    BY <1>2, <1>3, Parts
  <2> QED BY <1>1, <2>1 DEF ReqOK, Holds, Fresh, NameFree, Live
<1>4. \A i \in Rows : RowOK(i)'
  BY <1>1, Parts DEF RowOK
<1>5. KeysDistinct'
  BY <1>1 DEF IInv, KeysDistinct
<1>6. DatesInOrder'
  BY <1>1, <1>2 DEF IInv, DatesInOrder
<1> QED BY <1>1, <1>2, <1>3, <1>4, <1>5, <1>6 DEF Kept, SafeStep, IInv

\* A statement on field f of row i that fails unnoticed.
LEMMA UnnoticedKeeps ==
  ASSUME IInv, NEW i \in Rows, NEW f \in Fields, NEW want \in Real, row[i] \in Real,
         row' = row, asked' = [asked EXCEPT ![i] = want], doubtful' = doubtful \cup {<<i, f>>},
         \A g \in Fields \ {f} : want[g] = asked[i][g] \/ want[g] = row[i][g],
         slipped \subseteq slipped', slipped' \subseteq Rows,
         req' = [q \in Requests |-> req'[q]],
         \A q \in Requests : \/ req'[q] = req[q]
                             \/ ReqOK(q)' /\ (req[q].at = "target" => req[q].id \in slipped')
  PROVE  Kept
<1>1. /\ asked'[i] = want /\ asked' = [j \in Rows |-> asked'[j]]
      /\ \A j \in Rows \ {i} : asked'[j] = asked[j]
  BY Parts
<1>2. ASSUME NEW q \in Requests PROVE ReqOK(q)'
  <2>1. CASE req'[q] = req[q]
    <3>1. ReqOK(q)
      BY Parts
    <3> QED BY <2>1, <3>1 DEF ReqOK, Holds, Fresh, NameFree, Live
  <2> QED BY <2>1
<1>3. RowOK(i)'
  BY <1>1, Parts DEF RowOK
<1>4. \A j \in Rows \ {i} : RowOK(j)'
  BY <1>1, Parts DEF RowOK
<1>5. KeysDistinct'
  BY DEF IInv, KeysDistinct
<1>6. DatesInOrder'
  <2>1. ASSUME NEW j \in Rows \ slipped', row[j].kind \in {"draft", "issue"},
               \A q \in Requests : req'[q].at = "target" => req'[q].id # j
        PROVE  DatesOK(row[j])
    <3>1. \A q \in Requests : req[q].at = "target" => req[q].id # j
      BY <2>1
    <3> QED BY <2>1, <3>1 DEF IInv, DatesInOrder
  <2> QED BY <2>1 DEF DatesInOrder, DatesOK
<1>7. doubtful' \subseteq Rows \X Fields /\ row' = [j \in Rows |-> row'[j]]
  BY DEF IInv
<1> QED BY <1>1, <1>2, <1>3, <1>4, <1>5, <1>6, <1>7 DEF Kept, SafeStep, IInv

LEMMA IdleOK ==
  ASSUME NEW r \in Requests, req'[r] = Idle
  PROVE  ReqOK(r)'
BY DEF ReqOK, Idle, Request, Record

\* INSERT by a handler of one statement.
LEMMA CreateKeeps ==
  ASSUME IInv, NEW new \in Real, Create(new),
         new.kind \notin {"label", "state"}, new.kind \in {"draft", "issue"} => DatesOK(new)
  PROVE  Kept
<1>1. PICK i \in Rows : /\ row[i] = Blank /\ Free(i, new)
                        /\ row' = [row EXCEPT ![i] = new]
                        /\ asked' = [asked EXCEPT ![i] = new]
                        /\ req' = Noticed(i, new)
  BY DEF Create
<1>2. doubtful' = doubtful /\ slipped' = slipped /\ doubtful \subseteq Rows \X Fields
  BY DEF Create, IInv
<1>3. \A f \in Fields : <<i, f>> \notin doubtful
  BY <1>1, RealFields, Parts DEF RowOK
<1>4. req' = [q \in Requests |-> req'[q]] /\ \A q \in Requests : req'[q] = Noticed(i, new)[q]
  BY <1>1 DEF Noticed
<1>5. \A q \in Requests : req[q].at = "target" => req'[q].at = "target" /\ req'[q].id = req[q].id
  <2>1. \A q \in Requests : req[q] \in Request
    BY Parts DEF ReqOK
  <2> QED BY <1>4, <2>1 DEF Noticed, Request
<1>6. DoubtKept(i, new, new) /\ KeyKept(i, new) /\ NameKept(i, new) /\ DatesKept(i, new)
      /\ RequestsKept(i, new)
  BY <1>1, <1>2, <1>3, <1>4, <1>5
     DEF DoubtKept, KeyKept, NameKept, DatesKept, RequestsKept
<1> QED BY <1>1, <1>2, <1>6, WriteKeeps

\* INSERT by a handler of more than one.
LEMMA InsertKeeps ==
  ASSUME IInv, NEW r \in Requests, NEW i \in Rows, NEW new \in Real, NEW then, Insert(r, i, new, then),
         ReqOK(r)', req[r].at # "target",
         new.kind \in {"label", "state"} => req[r].at = "insert" /\ new = req[r].new,
         new.kind \notin {"draft", "issue"}
  PROVE  Kept
<1>1. /\ row[i] = Blank /\ Free(i, new) /\ doubtful' = doubtful
      /\ row' = [row EXCEPT ![i] = new] /\ asked' = [asked EXCEPT ![i] = new]
      /\ slipped' = (IF "key" \in req[r].old THEN slipped \cup {i} ELSE slipped)
      /\ req' = [Noticed(i, new) EXCEPT ![r] = then]
  BY DEF Insert, Slip
<1>2. doubtful \subseteq Rows \X Fields
  BY DEF IInv
<1>3. \A f \in Fields : <<i, f>> \notin doubtful
  BY <1>1, RealFields, Parts DEF RowOK
<1>4. /\ req' = [q \in Requests |-> req'[q]]
      /\ \A q \in Requests \ {r} : req'[q] = Noticed(i, new)[q]
  BY <1>1 DEF Noticed
<1>5. \A q \in Requests : req[q].at = "target" => req'[q].at = "target" /\ req'[q].id = req[q].id
  <2>1. \A q \in Requests : req[q] \in Request
    BY Parts DEF ReqOK
  <2> QED BY <1>4, <2>1 DEF Noticed, Request
<1>6. new.kind \in {"label", "state"} /\ i \notin slipped'
        => \A j \in Live(new.kind) : Folded[row[j].key] # Folded[new.key]
  BY <1>1, Parts DEF ReqOK, NameFree
<1>7. new.kind \in {"label", "state"} => new.key # None
  BY RecordSets, Parts DEF ReqOK, NameFree
<1>8. new.kind \in {"label", "state"} => row[i].key # new.key
  BY <1>1, <1>7 DEF Blank
<1>9. DoubtKept(i, new, new) /\ KeyKept(i, new) /\ DatesKept(i, new) /\ RequestsKept(i, new)
  BY <1>1, <1>2, <1>3, <1>4, <1>5 DEF DoubtKept, KeyKept, DatesKept, RequestsKept
<1>10. NameKept(i, new)
  BY <1>6, <1>8 DEF NameKept
<1>11. slipped \subseteq slipped' /\ slipped' \subseteq slipped \cup {i}
  BY <1>1
<1> QED BY <1>1, <1>9, <1>10, <1>11, WriteKeeps

LEMMA MergeKeeps ==
  ASSUME IInv, NEW i \in Rows, NEW new \in Real, NEW fields \in SUBSET Fields, Merge(i, new, fields),
         row[i] \in Real, new.kind = row[i].kind,
         \A f \in Fields \ fields : new[f] = row[i][f],
         new.kind \in Indexed => "key" \notin fields,
         new.status = "live" => row[i].status = "live",
         new.kind \in {"draft", "issue"} => fields = {"status"}
  PROVE  Kept
<1>1. /\ slipped' = slipped /\ row' = [row EXCEPT ![i] = new]
      /\ asked' = [asked EXCEPT ![i] = [f \in DOMAIN asked[i] |-> IF f \in fields THEN new[f]
                                                                 ELSE asked[i][f]]]
      /\ doubtful' = doubtful \ ({i} \X fields)
      /\ req' = Noticed(i, new)
  BY Parts DEF Merge, Ask
<1> DEFINE want == Mix(new, asked[i], fields)
<1>2. asked[i] \in Real /\ DOMAIN asked[i] = DOMAIN Blank /\ row[i] # Blank
  BY RealFields, Parts DEF RowOK
<1>3. /\ want \in Real
      /\ \A f \in Fields : want[f] = IF f \in fields THEN new[f] ELSE asked[i][f]
  BY <1>2, Mixed
<1>4. asked' = [asked EXCEPT ![i] = want]
  BY <1>1, <1>2 DEF Mix
<1> HIDE DEF want
<1>5. /\ doubtful' \subseteq Rows \X Fields
      /\ \A j \in Rows \ {i}, f \in Fields : <<j, f>> \in doubtful' <=> <<j, f>> \in doubtful
      /\ \A f \in Fields : <<i, f>> \in doubtful' <=> <<i, f>> \in doubtful /\ f \notin fields
  BY <1>1 DEF IInv
<1>6. \A f \in Fields : <<i, f>> \notin doubtful' => new[f] = want[f]
  BY <1>3, <1>5, Parts DEF RowOK
<1>7. \A f \in SafeFields(new.kind) : new[f] = row[i][f] \/ new[f] = want[f]
  BY <1>3, SafeAreFields
<1>8. "key" \in Fields /\ "one" \in Fields /\ "two" \in Fields
  BY DEF Fields
<1>9. new.kind \in Indexed => new.key = row[i].key
  BY <1>8
<1>10. {"label", "state"} \subseteq Indexed
  BY DEF Indexed
<1>11. new.kind \in {"label", "state"} /\ new.status = "live" /\ new.key # None /\ i \notin slipped'
         => \A j \in Live(new.kind) \ {i} : row[j].key # None /\ j \notin slipped
                                            => Folded[row[j].key] # Folded[new.key]
  BY <1>1, <1>9, <1>10 DEF IInv, KeysDistinct, Live
<1>12. /\ req' = [q \in Requests |-> req'[q]] /\ \A q \in Requests : req'[q] = Noticed(i, new)[q]
       /\ \A q \in Requests : req'[q].at = req[q].at /\ req'[q].id = req[q].id
  <2>1. \A q \in Requests : req[q] \in Request
    BY Parts DEF ReqOK
  <2> QED BY <1>1, <2>1 DEF Noticed, Request
<1>13. new.kind \in {"draft", "issue"} /\ i \notin slipped' /\ ~HalfDone(i)' => DatesOK(new)
  <2>1. SUFFICES ASSUME new.kind \in {"draft", "issue"}, i \notin slipped', ~HalfDone(i)'
                 PROVE  DatesOK(new)
    OBVIOUS
  <2>2. new.one = row[i].one /\ new.two = row[i].two
    BY <1>8, <2>1
  <2>3. DatesOK(row[i])
    BY <1>1, <1>12, <2>1 DEF HalfDone, IInv, DatesInOrder
  <2> QED BY <2>2, <2>3 DEF DatesOK
<1>14. (\/ Free(i, new) \/ new.kind \notin Indexed
        \/ new.key = row[i].key /\ row[i].status = "live")
  BY <1>9 DEF Free
<1>15. DoubtKept(i, new, want)
  BY <1>5, <1>6, <1>7 DEF DoubtKept
<1>16. KeyKept(i, new) /\ NameKept(i, new)
  BY <1>9, <1>11, <1>14 DEF KeyKept, NameKept
<1>17. DatesKept(i, new) /\ RequestsKept(i, new)
  BY <1>12, <1>13 DEF DatesKept, RequestsKept
<1> QED BY <1>1, <1>3, <1>4, <1>15, <1>16, <1>17, WriteKeeps

\* The same when the handler does not look at the error.
LEMMA MergeUnnoticedKeeps ==
  ASSUME IInv, NEW i \in Rows, NEW new \in Real, NEW f \in Fields, MergeUnnoticed(i, new, {f}),
         row[i] \in Real, new.kind = row[i].kind,
         \A g \in Fields \ {f} : new[g] = row[i][g],
         new.kind \in Indexed => f # "key",
         new.status = "live" => row[i].status = "live",
         new.kind \in {"draft", "issue"} => f = "status"
  PROVE  Kept
<1> DEFINE fields == {f}
<1>1. /\ fields \in SUBSET Fields
      /\ \A g \in Fields \ fields : new[g] = row[i][g]
      /\ new.kind \in Indexed => "key" \notin fields
      /\ new.kind \in {"draft", "issue"} => fields = {"status"}
  OBVIOUS
<1>2. ASSUME Merge(i, new, fields) PROVE Kept
  <2> HIDE DEF fields
  <2> QED BY <1>1, <1>2, MergeKeeps
<1>3. CASE Ask(i, new, fields) /\ doubtful' = doubtful \cup ({i} \X fields)
           /\ UNCHANGED <<row, req, slipped>>
  <2> DEFINE want == Mix(new, asked[i], fields)
  <2>1. asked[i] \in Real /\ DOMAIN asked[i] = DOMAIN Blank
    BY RealFields, Parts DEF RowOK
  <2>2. /\ want \in Real
        /\ \A g \in Fields : want[g] = IF g \in fields THEN new[g] ELSE asked[i][g]
    BY <1>1, <2>1, Mixed
  <2>3. asked' = [asked EXCEPT ![i] = want]
    <3>1. asked' = [asked EXCEPT ![i] = [g \in DOMAIN asked[i] |-> IF g \in fields THEN new[g]
                                                                  ELSE asked[i][g]]]
      BY <1>3, Parts DEF Ask
    <3> QED BY <2>1, <3>1 DEF Mix
  <2> HIDE DEF want
  <2>4. want \in Real /\ \A g \in Fields \ {f} : want[g] = asked[i][g] \/ want[g] = row[i][g]
    BY <2>2
  <2>5. doubtful' = doubtful \cup {<<i, f>>}
    BY <1>3
  <2>6. slipped \subseteq slipped' /\ slipped' \subseteq Rows /\ req' = [q \in Requests |-> req'[q]]
        /\ row' = row /\ \A q \in Requests : req'[q] = req[q]
    BY <1>3 DEF IInv
  <2> HIDE DEF fields
  <2> QED BY <2>3, <2>4, <2>5, <2>6, UnnoticedKeeps
<1>4. QED
  BY <1>2, <1>3 DEF MergeUnnoticed

\* UPDATE by a PATCH.
LEMMA StoreKeeps ==
  ASSUME IInv, NEW r \in Requests, NEW kind, Serving(r, kind, "write"),
         NEW written \in SUBSET Fields, NEW then, Store(r, written, then), ReqOK(r)',
         \A f \in written : f \in req[r].fields \/ f \notin SafeFields(kind),
         slipped \subseteq slipped', slipped' \subseteq slipped \cup {req[r].id},
         kind \in {"label", "state"}
           => /\ "status" \notin written /\ IsLive(r)
              /\ req[r].id \notin slipped' => "key" \notin req[r].fields \cup req[r].old,
         kind = "draft"
           => /\ written = req[r].fields
              /\ req[r].id \notin slipped' => req[r].old \cap {"one", "two"} = {},
         kind # "issue"
  PROVE  Kept
<1> DEFINE i == req[r].id
           new == Mix(req[r].new, row[i], written)
           want == Mix(new, asked[i], req[r].fields)
<1>1. /\ req[r].at = "write" /\ req[r].new.kind = kind /\ req[r].new \in Real
      /\ i \in Rows /\ row[i] \in Real /\ row[i].kind = kind
      /\ req[r].fields \in SUBSET Fields /\ req[r].old \in SUBSET Fields
      /\ \A f \in Fields \ req[r].fields : f \in req[r].old \/ req[r].new[f] = row[i][f]
      /\ kind = "draft" => DatesOK(req[r].new)
  BY Parts DEF Serving, ReqOK, Holds, Fresh, Request
<1>2. asked[i] \in Real /\ DOMAIN asked[i] = DOMAIN Blank /\ row[i] # Blank
  BY <1>1, RealFields, Parts DEF RowOK
<1>3. /\ Free(i, new) /\ row' = [row EXCEPT ![i] = new]
      /\ asked' = [asked EXCEPT ![i] = [f \in DOMAIN asked[i] |-> IF f \in req[r].fields THEN new[f]
                                                                 ELSE asked[i][f]]]
      /\ doubtful' = (doubtful \ ({i} \X req[r].fields))
                     \cup ({i} \X ((req[r].old \cap written) \ req[r].fields))
      /\ req' = [Noticed(i, new) EXCEPT ![r] = then]
  BY <1>1, Parts DEF Store, Mix
<1>4. /\ new \in Real /\ new.kind = kind
      /\ \A f \in Fields : new[f] = IF f \in written THEN req[r].new[f] ELSE row[i][f]
  BY <1>1, Mixed
<1> HIDE DEF new
<1>5. /\ want \in Real
      /\ \A f \in Fields : want[f] = IF f \in req[r].fields THEN new[f] ELSE asked[i][f]
  BY <1>1, <1>2, <1>4, Mixed
<1>6. asked' = [asked EXCEPT ![i] = want]
  BY <1>2, <1>3 DEF Mix
<1> HIDE DEF want
<1> HIDE DEF i
<1>7. /\ doubtful' \subseteq Rows \X Fields
      /\ \A j \in Rows \ {i}, f \in Fields : <<j, f>> \in doubtful' <=> <<j, f>> \in doubtful
      /\ \A f \in Fields : <<i, f>> \in doubtful' <=> /\ f \notin req[r].fields
                                                      /\ \/ <<i, f>> \in doubtful
                                                         \/ f \in req[r].old \cap written
  BY <1>1, <1>3 DEF IInv
<1>8. \A f \in Fields : <<i, f>> \notin doubtful' => new[f] = want[f]
  BY <1>1, <1>4, <1>5, <1>7, Parts DEF RowOK
<1>9. \A f \in SafeFields(new.kind) : new[f] = row[i][f] \/ new[f] = want[f]
  BY <1>4, <1>5, SafeAreFields DEF i
<1>10. "key" \in Fields /\ "one" \in Fields /\ "two" \in Fields /\ "status" \in Fields
  BY DEF Fields
<1>11. kind \in {"label", "state"} /\ i \notin slipped' => new.key = row[i].key
  BY <1>1, <1>4, <1>10 DEF i
<1>12. kind \in {"label", "state"} => kind \in Indexed /\ row[i].status = "live"
  BY <1>1 DEF Indexed, IsLive, i
<1>13. new.kind \in {"label", "state"} /\ new.status = "live" /\ new.key # None /\ i \notin slipped'
         => \A j \in Live(new.kind) \ {i} : row[j].key # None /\ j \notin slipped
                                            => Folded[row[j].key] # Folded[new.key]
  BY <1>1, <1>4, <1>11, <1>12 DEF IInv, KeysDistinct, Live
<1>14. new.kind \in {"draft", "issue"} /\ i \notin slipped' /\ ~HalfDone(i)' => DatesOK(new)
  <2>1. SUFFICES ASSUME kind = "draft", i \notin slipped' PROVE DatesOK(new)
    BY <1>4
  <2>2. new.one = req[r].new.one /\ new.two = req[r].new.two
    BY <1>1, <1>4, <1>10, <2>1 DEF i
  <2> QED BY <1>1, <2>1, <2>2 DEF DatesOK
<1>15. /\ req' = [q \in Requests |-> req'[q]]
       /\ \A q \in Requests \ {r} : req'[q] = Noticed(i, new)[q]
  BY <1>3 DEF Noticed
<1>16. \A q \in Requests : req[q].at = "target" => req'[q].at = "target" /\ req'[q].id = req[q].id
  <2>1. \A q \in Requests : req[q] \in Request
    BY Parts DEF ReqOK
  <2> QED BY <1>1, <1>15, <2>1 DEF Noticed, Request
<1>17. i \in Rows /\ slipped' \subseteq slipped \cup {i} /\ new.kind = row[i].kind
  BY <1>1, <1>4 DEF i
<1>18. DoubtKept(i, new, want)
  BY <1>7, <1>8, <1>9 DEF DoubtKept
<1>19. KeyKept(i, new) /\ NameKept(i, new)
  BY <1>3, <1>4, <1>12, <1>13 DEF KeyKept, NameKept
<1>20. DatesKept(i, new) /\ RequestsKept(i, new)
  BY <1>14, <1>15, <1>16 DEF DatesKept, RequestsKept
<1> QED BY <1>3, <1>4, <1>5, <1>6, <1>17, <1>18, <1>19, <1>20, WriteKeeps

-----------------------------------------------------------------------------
(* The statements that several handlers share.                             *)

LEMMA LiveIsReal ==
  ASSUME IInv, NEW kind, NEW i \in Live(kind)
  PROVE  i \in Rows /\ row[i] \in Real /\ row[i].kind = kind /\ row[i].status = "live"
BY Parts DEF Live

\* A row with another value in one column.
LEMMA WithIsReal ==
  ASSUME NEW a \in Real
  PROVE  /\ \A v \in Keys \cup {None} : [a EXCEPT !.key = v] \in Real
         /\ \A v \in Values \cup {None} : [a EXCEPT !.one = v] \in Real /\ [a EXCEPT !.two = v] \in Real
         /\ \A v \in {"live", "deleted", "gone"} : [a EXCEPT !.status = v] \in Real
BY DEF Real

\* The read of a handler that is going to write row i as new.
LEMMA BeginKeeps ==
  ASSUME IInv, NEW r \in Requests, NEW at \in {"write", "start", "target", "promote"},
         NEW i \in Rows, NEW fields \in SUBSET Fields, NEW new \in Real, Begin(r, at, i, fields, new),
         row[i] \in Real, new.kind = row[i].kind, \A f \in Fields \ fields : new[f] = row[i][f],
         at = "write" /\ new.kind = "draft" => DatesOK(new),
         at \in {"start", "target"} => new.kind = "issue" /\ DatesOK(new),
         at = "target" => "one" \notin fields,
         at = "promote" => i \in slipped \/ DatesOK(new)
  PROVE  Kept
<1> DEFINE then == [at |-> at, id |-> i, new |-> new, fields |-> fields, old |-> {}]
<1>1. req[r] = Idle /\ req' = [req EXCEPT ![r] = then]
      /\ row' = row /\ asked' = asked /\ doubtful' = doubtful /\ slipped' = slipped
  BY DEF Begin
<1>2. req[r].at # "target"
  BY <1>1 DEF Idle
<1>3. then \in Request
  BY RealFields DEF Request
<1>4. then.at = at /\ then.id = i /\ then.new = new /\ then.fields = fields
  OBVIOUS
<1> HIDE DEF then
<1>5. req'[r] = then
  BY <1>1, Parts
<1>6. Holds(r)' /\ \A f \in Fields \ fields : Fresh(r, f)'
  BY <1>1, <1>4, <1>5 DEF Holds, Fresh
<1>7. "one" \in Fields /\ "two" \in Fields
  BY DEF Fields
<1>8. ReqOK(r)'
  BY <1>1, <1>3, <1>4, <1>5, <1>6, <1>7 DEF ReqOK, DatesOK
<1> QED BY <1>1, <1>2, <1>8, ReadKeeps

LEMMA PatchKeeps ==
  ASSUME IInv, NEW r \in Requests, NEW kind, kind \notin {"draft", "issue"},
         NEW fields \in SUBSET {"key", "one", "two"}, Patch(r, kind, fields)
  PROVE  Kept
<1>1. PICK i \in Live(kind), f \in fields :
        \E v \in IF f = "key" THEN Keys ELSE Values :
          Begin(r, "write", i, {f}, [row[i] EXCEPT ![f] = v])
  BY DEF Patch
<1>2. PICK v \in IF f = "key" THEN Keys ELSE Values :
        Begin(r, "write", i, {f}, [row[i] EXCEPT ![f] = v])
  BY <1>1
<1>3. i \in Rows /\ row[i] \in Real /\ row[i].kind = kind
  BY LiveIsReal
<1> DEFINE new == [row[i] EXCEPT ![f] = v]
<1>4. f \in {"key", "one", "two"} /\ f \in Fields /\ {f} \in SUBSET Fields
  BY DEF Fields
<1>5. new \in Real
  BY <1>3, <1>4, WithIsReal
<1>6. new.kind = kind /\ \A g \in Fields \ {f} : new[g] = row[i][g]
  BY <1>3, <1>4 DEF Real, Fields
<1>7. Begin(r, "write", i, {f}, new)
  BY <1>2
<1> HIDE DEF new
<1>8. new.kind = row[i].kind /\ new.kind # "draft"
  BY <1>3, <1>6
<1> DEFINE of == {f}
<1>9. of \in SUBSET Fields /\ Begin(r, "write", i, of, new) /\ \A g \in Fields \ of : new[g] = row[i][g]
  BY <1>4, <1>6, <1>7
<1> HIDE DEF of
<1> QED BY <1>3, <1>5, <1>8, <1>9, BeginKeeps

LEMMA RemoveKeeps ==
  ASSUME IInv, NEW kind, NEW status \in {"deleted", "gone"}, Remove(kind, status)
  PROVE  Kept
<1>1. PICK i \in Live(kind) : Merge(i, [row[i] EXCEPT !.status = status], {"status"})
  BY DEF Remove
<1>2. i \in Rows /\ row[i] \in Real /\ row[i].kind = kind
  BY LiveIsReal
<1> DEFINE new == [row[i] EXCEPT !.status = status]
<1>3. new \in Real
  BY <1>2, WithIsReal
<1>4. new.kind = row[i].kind /\ new.status = status /\ \A g \in Fields \ {"status"} : new[g] = row[i][g]
  BY <1>2 DEF Real, Fields
<1>5. {"status"} \in SUBSET Fields
  BY DEF Fields
<1>6. Merge(i, new, {"status"})
  BY <1>1
<1> HIDE DEF new
<1> QED BY <1>2, <1>3, <1>4, <1>5, <1>6, MergeKeeps

LEMMA RemoveUnnoticedKeeps ==
  ASSUME IInv, NEW kind, NEW status \in {"deleted", "gone"}, RemoveUnnoticed(kind, status)
  PROVE  Kept
<1>1. PICK i \in Live(kind) : MergeUnnoticed(i, [row[i] EXCEPT !.status = status], {"status"})
  BY DEF RemoveUnnoticed
<1>2. i \in Rows /\ row[i] \in Real /\ row[i].kind = kind
  BY LiveIsReal
<1> DEFINE new == [row[i] EXCEPT !.status = status]
<1>3. new \in Real
  BY <1>2, WithIsReal
<1>4. new.kind = row[i].kind /\ new.status = status /\ \A g \in Fields \ {"status"} : new[g] = row[i][g]
  BY <1>2 DEF Real, Fields
<1>5. "status" \in Fields
  BY DEF Fields
<1>6. MergeUnnoticed(i, new, {"status"})
  BY <1>1
<1> HIDE DEF new
<1> QED BY <1>2, <1>3, <1>4, <1>5, <1>6, MergeUnnoticedKeeps

LEMMA RefusedKeeps ==
  ASSUME IInv, NEW r \in Requests, Refused(r)
  PROVE  Kept
<1>1. req'[r] = Idle
  BY Parts DEF Refused
<1> QED BY <1>1, IdleOK, ReadKeeps DEF Refused

LEMMA BeginNamedKeeps ==
  ASSUME IInv, NEW r \in Requests, NEW kind \in {"label", "state"},
         BeginNamed(r, kind, {k \in Keys : NameExists(kind, k)})
  PROVE  Kept
<1>1. PICK key \in Keys, one \in Values, failed \in BOOLEAN :
        /\ req[r] = Idle
        /\ failed \/ ~NameExists(kind, key)
        /\ req' = [req EXCEPT ![r] = [Idle EXCEPT !.at = "insert", !.new = New(kind, key, one, None),
                                                  !.old = IF failed THEN {"key"} ELSE {}]]
        /\ UNCHANGED <<row, asked, doubtful, slipped>>
  BY DEF BeginNamed
<1> DEFINE new == New(kind, key, one, None)
           old == IF failed THEN {"key"} ELSE {}
           then == [Idle EXCEPT !.at = "insert", !.new = new, !.old = old]
<1>2. kind \in Kinds
  BY DEF Kinds
<1>3. new \in Real /\ new.kind = kind /\ new.key = key
  BY <1>2, NewIsReal
<1> HIDE DEF new
<1>4. old \in SUBSET Fields /\ (failed => "key" \in old)
  BY DEF Fields
<1> HIDE DEF old
<1>5. then.at = "insert" /\ then.new = new /\ then.old = old /\ then \in Request
  BY <1>3, <1>4, RealFields DEF Idle, Request
<1> HIDE DEF then
<1>6. req' = [req EXCEPT ![r] = then] /\ req'[r] = then /\ row' = row
  BY <1>1, Parts DEF then, new, old
<1>7. NameFree(r)'
  <2>1. new.key \in Keys
    BY <1>3
  <2>2. CASE failed
    BY <1>4, <1>5, <1>6, <2>1, <2>2 DEF NameFree
  <2>3. CASE ~failed
    <3>1. \A j \in Live(kind) : Folded[row[j].key] # Folded[key]
      BY <1>1, <2>3 DEF NameExists
    <3> QED BY <1>3, <1>5, <1>6, <2>1, <3>1 DEF NameFree, Live
  <2> QED BY <2>2, <2>3
<1>8. ReqOK(r)'
  BY <1>3, <1>5, <1>6, <1>7 DEF ReqOK
<1>9. req[r].at # "target"
  BY <1>1 DEF Idle
<1> QED BY <1>1, <1>6, <1>8, <1>9, ReadKeeps

LEMMA InsertAnswers ==
  ASSUME IInv, NEW r \in Requests, NEW i, NEW new, NEW then, Insert(r, i, new, then)
  PROVE  req'[r] = then
<1> DEFINE noticed == Noticed(i, new)
<1>1. req' = [noticed EXCEPT ![r] = then]
  BY DEF Insert
<1>2. DOMAIN noticed = Requests
  BY DEF Noticed
<1> HIDE DEF noticed
<1> QED BY <1>1, <1>2

LEMMA StoreAnswers ==
  ASSUME IInv, NEW r \in Requests, NEW written, NEW then, Store(r, written, then)
  PROVE  req'[r] = then
<1> DEFINE new == [f \in DOMAIN Blank |-> IF f \in written THEN req[r].new[f] ELSE row[req[r].id][f]]
           noticed == Noticed(req[r].id, new)
<1>1. req' = [noticed EXCEPT ![r] = then]
  BY DEF Store
<1>2. DOMAIN noticed = Requests
  BY DEF Noticed
<1> HIDE DEF noticed
<1> QED BY <1>1, <1>2

\* The UPDATE of a PATCH that is the last statement of its request.
LEMMA LastStoreKeeps ==
  ASSUME IInv, NEW r \in Requests, NEW kind, Serving(r, kind, "write"),
         NEW written \in SUBSET Fields, Store(r, written, Idle), UNCHANGED slipped,
         \A f \in written : f \in req[r].fields \/ f \notin SafeFields(kind),
         kind \notin {"label", "state", "draft", "issue"}
  PROVE  Kept
<1>1. slipped \subseteq slipped' /\ slipped' \subseteq slipped \cup {req[r].id}
  OBVIOUS
<1>2. req'[r] = Idle
  BY StoreAnswers
<1>3. ReqOK(r)'
  BY <1>2, IdleOK
<1> QED BY <1>1, <1>3, StoreKeeps

\* What any PATCH of the kind may write back without having been asked for it.
Writable(kind, written) ==
  /\ written \subseteq Fields /\ \A f \in written : f \notin SafeFields(kind)
  /\ kind \notin {"label", "state", "draft", "issue"}
LEMMA LastWriteKeeps ==
  ASSUME IInv, NEW r \in Requests, NEW kind, NEW written, Writable(kind, written),
         Serving(r, kind, "write"), Store(r, written, Idle), UNCHANGED slipped
  PROVE  Kept
BY LastStoreKeeps DEF Writable

LEMMA RenameKeeps ==
  ASSUME IInv, NEW r \in Requests, NEW kind \in {"label", "state"}, Rename(r, kind)
  PROVE  Kept
<1>1. slipped \subseteq slipped' /\ slipped' \subseteq slipped \cup {req[r].id}
      /\ (req[r].id \notin slipped' => "key" \notin req[r].fields \cup req[r].old)
  BY DEF Rename, Slip
<1>2. req'[r] = Idle
  BY StoreAnswers DEF Rename
<1>3. ReqOK(r)'
  BY <1>2, IdleOK
<1>4. {"key", "one"} \in SUBSET Fields /\ "status" \notin {"key", "one"}
      /\ \A f \in {"key", "one"} : f \notin SafeFields(kind)
  BY DEF Fields, SafeFields
<1> QED BY <1>1, <1>3, <1>4, StoreKeeps DEF Rename

\* A handler that creates rows of one kind with whatever was given.
LEMMA PlainCreateKeeps ==
  ASSUME IInv, NEW kind \in Kinds \ {"label", "state", "draft", "issue"}, NEW key \in Keys \cup {None},
         NEW one \in Values \cup {None}, NEW two \in Values \cup {None},
         Create(New(kind, key, one, two))
  PROVE  Kept
<1>1. New(kind, key, one, two) \in Real /\ New(kind, key, one, two).kind = kind
  BY NewIsReal
<1> QED BY <1>1, CreateKeeps

-----------------------------------------------------------------------------
(* The handlers, by what they work on.                                     *)

LEMMA LabelsKeep ==
  ASSUME IInv, NEW r \in Requests, Labels(r)
  PROVE  Kept
<1>1. CASE BeginCreateLabel(r)
  BY <1>1, BeginNamedKeeps DEF BeginCreateLabel, LabelNameExists
<1>2. CASE CreateLabel(r)
  <2>1. PICK i \in Rows : Insert(r, i, req[r].new, Idle)
    BY <1>2 DEF CreateLabel
  <2>2. req[r].at = "insert" /\ req[r].new.kind = "label"
    BY <1>2 DEF CreateLabel, Serving
  <2>3. req[r].new \in Real
    BY <2>2, Parts DEF ReqOK
  <2>4. req'[r] = Idle
    BY <2>1, InsertAnswers
  <2> QED BY <2>1, <2>2, <2>3, <2>4, IdleOK, InsertKeeps
<1>3. CASE BeginUpdateLabel(r)
  BY <1>3, PatchKeeps DEF BeginUpdateLabel
<1>4. CASE UpdateLabel(r)
  BY <1>4, RenameKeeps DEF UpdateLabel
<1>5. CASE DeleteLabel
  BY <1>5, RemoveKeeps DEF DeleteLabel
<1> QED BY <1>1, <1>2, <1>3, <1>4, <1>5 DEF Labels

LEMMA StatesKeep ==
  ASSUME IInv, NEW r \in Requests, States(r)
  PROVE  Kept
<1>1. CASE BeginCreateState(r)
  BY <1>1, BeginNamedKeeps DEF BeginCreateState, StateNameExists
<1>2. CASE CreateState(r)
  <2>1. PICK i \in Rows : Insert(r, i, req[r].new, Idle)
    BY <1>2 DEF CreateState
  <2>2. req[r].at = "insert" /\ req[r].new.kind = "state"
    BY <1>2 DEF CreateState, Serving
  <2>3. req[r].new \in Real
    BY <2>2, Parts DEF ReqOK
  <2>4. req'[r] = Idle
    BY <2>1, InsertAnswers
  <2> QED BY <2>1, <2>2, <2>3, <2>4, IdleOK, InsertKeeps
<1>3. CASE BeginUpdateState(r)
  BY <1>3, PatchKeeps DEF BeginUpdateState
<1>4. CASE UpdateState(r)
  BY <1>4, RenameKeeps DEF UpdateState
<1>5. CASE DeleteState
  BY <1>5, RemoveKeeps DEF DeleteState
<1> QED BY <1>1, <1>2, <1>3, <1>4, <1>5 DEF States

\* The columns that the handlers write, and the tables they write to.
LEMMA Columns ==
  /\ {"two"} \in SUBSET Fields /\ {"key"} \in SUBSET Fields
  /\ \A f \in {"one", "two"} : {f} \in SUBSET Fields /\ {f, "key"} \in SUBSET Fields
  /\ Writable("view", {"one", "two"}) /\ Writable("webhook", {"key", "one"})
  /\ Writable("token", {"one", "two"}) /\ Writable("theme", {"key", "one", "status"})
  /\ Writable("saved analytic", {"key", "one", "two"}) /\ Writable("estimate", {"one", "two"})
  /\ Writable("workspace", {"one", "two"}) /\ Writable("names", {"one", "two"})
  /\ Writable("user properties", {"one", "two"}) /\ Writable("sub-issue", {"one", "two"})
BY DEF Fields, SafeFields, Writable

LEMMA ViewsKeep ==
  ASSUME IInv, NEW r \in Requests, Views(r)
  PROVE  Kept
<1>1. CASE DoCreate
  BY <1>1, PlainCreateKeeps DEF DoCreate, CreateView, Kinds
<1>2. CASE BeginUpdateView(r)
  BY <1>2, PatchKeeps DEF BeginUpdateView
<1>3. CASE UpdateView(r)
  BY <1>3, Columns, LastWriteKeeps DEF UpdateView
<1>4. CASE SoftDeleteView
  BY <1>4, RemoveKeeps DEF SoftDeleteView
<1> QED BY <1>1, <1>2, <1>3, <1>4 DEF Views

LEMMA WebhooksKeep ==
  ASSUME IInv, NEW r \in Requests, Webhooks(r)
  PROVE  Kept
<1>1. CASE CreateWebhook
  BY <1>1, PlainCreateKeeps DEF CreateWebhook, Kinds
<1>2. CASE BeginUpdateWebhook(r)
  BY <1>2, PatchKeeps DEF BeginUpdateWebhook
<1>3. CASE UpdateWebhook(r)
  BY <1>3, Columns, LastWriteKeeps DEF UpdateWebhook
<1>4. CASE DeleteWebhook
  BY <1>4, RemoveKeeps DEF DeleteWebhook
<1>5. CASE RegenerateSecret
  <2>1. PICK i \in Live("webhook"), two \in Values : Merge(i, [row[i] EXCEPT !.two = two], {"two"})
    BY <1>5 DEF RegenerateSecret
  <2>2. i \in Rows /\ row[i] \in Real /\ row[i].kind = "webhook" /\ row[i].status = "live"
    BY LiveIsReal
  <2> DEFINE new == [row[i] EXCEPT !.two = two]
  <2>3. new \in Real
    BY <2>2, WithIsReal
  <2>4. new.kind = row[i].kind /\ \A f \in Fields \ {"two"} : new[f] = row[i][f]
    BY <2>2 DEF Real, Fields
  <2>5. Merge(i, new, {"two"})
    BY <2>1
  <2> HIDE DEF new
  <2> QED BY <2>2, <2>3, <2>4, <2>5, Columns, MergeKeeps
<1> QED BY <1>1, <1>2, <1>3, <1>4, <1>5 DEF Webhooks

LEMMA TokensKeep ==
  ASSUME IInv, NEW r \in Requests, Tokens(r)
  PROVE  Kept
<1>1. CASE CreateToken
  BY <1>1, PlainCreateKeeps DEF CreateToken, Kinds
<1>2. CASE BeginUpdateToken(r)
  BY <1>2, PatchKeeps DEF BeginUpdateToken
<1>3. CASE UpdateToken(r)
  BY <1>3, Columns, LastWriteKeeps DEF UpdateToken
<1>4. CASE DeleteToken
  BY <1>4, RemoveKeeps DEF DeleteToken
<1>5. CASE CreateExport
  BY <1>5, PlainCreateKeeps DEF CreateExport, Kinds
<1> QED BY <1>1, <1>2, <1>3, <1>4, <1>5 DEF Tokens

LEMMA ThemesKeep ==
  ASSUME IInv, NEW r \in Requests, Themes(r)
  PROVE  Kept
<1>1. CASE CreateTheme
  <2>1. PICK key \in Keys, one \in Values, status \in {"live", "deleted"} :
          Create([New("theme", key, one, None) EXCEPT !.status = status])
    BY <1>1 DEF CreateTheme
  <2> DEFINE blank == New("theme", key, one, None)
             new == [blank EXCEPT !.status = status]
  <2>2. blank \in Real /\ blank.kind = "theme"
    <3>1. "theme" \in Kinds
      BY DEF Kinds
    <3> QED BY <3>1, NewIsReal
  <2> HIDE DEF blank
  <2>3. new \in Real /\ new.kind = "theme"
    BY <2>2, WithIsReal DEF Real
  <2>4. Create(new)
    BY <2>1 DEF blank
  <2> HIDE DEF new
  <2> QED BY <2>3, <2>4, CreateKeeps
<1>2. CASE Patch(r, "theme", {"key", "one"})
  BY <1>2, PatchKeeps
<1>3. ASSUME NEW i \in Live("theme"),
             Begin(r, "write", i, {"status"}, [row[i] EXCEPT !.status = "deleted"])
      PROVE  Kept
  <2> DEFINE new == [row[i] EXCEPT !.status = "deleted"]
  <2>1. i \in Rows /\ row[i] \in Real /\ row[i].kind = "theme"
    BY LiveIsReal
  <2>2. new \in Real
    BY <2>1, WithIsReal
  <2>3. new.kind = row[i].kind /\ \A f \in Fields \ {"status"} : new[f] = row[i][f]
    BY <2>1 DEF Real, Fields
  <2>4. {"status"} \in SUBSET Fields
    BY DEF Fields
  <2>5. Begin(r, "write", i, {"status"}, new)
    BY <1>3
  <2> HIDE DEF new
  <2> QED BY <2>1, <2>2, <2>3, <2>4, <2>5, BeginKeeps
<1>4. CASE UpdateTheme(r)
  BY <1>4, Columns, LastWriteKeeps DEF UpdateTheme
<1>5. CASE DeleteTheme
  BY <1>5, RemoveKeeps DEF DeleteTheme
<1> QED BY <1>1, <1>2, <1>3, <1>4, <1>5 DEF Themes, BeginUpdateTheme

\* A PATCH that resets the key whatever it was asked for.
Resets(r, kind) ==
  \E i \in Live(kind), f \in {"one", "two"}, v \in Values :
    Begin(r, "write", i, {f, "key"}, [row[i] EXCEPT ![f] = v, !.key = None])
LEMMA ResetKeeps ==
  ASSUME IInv, NEW r \in Requests, NEW kind, kind \notin {"draft", "issue"}, Resets(r, kind)
  PROVE  Kept
<1>1. PICK i \in Live(kind), f \in {"one", "two"}, v \in Values :
        Begin(r, "write", i, {f, "key"}, [row[i] EXCEPT ![f] = v, !.key = None])
  BY DEF Resets
<1> DEFINE new == [row[i] EXCEPT ![f] = v, !.key = None]
           fields == {f, "key"}
<1>2. i \in Rows /\ row[i] \in Real /\ row[i].kind = kind
  BY LiveIsReal
<1>3. new \in Real /\ new.kind = row[i].kind /\ \A g \in Fields \ fields : new[g] = row[i][g]
  BY <1>2 DEF Real, Fields
<1>4. Begin(r, "write", i, fields, new) /\ fields \in SUBSET Fields
  BY <1>1, Columns
<1> HIDE DEF new, fields
<1> QED BY <1>2, <1>3, <1>4, BeginKeeps

LEMMA SavedAnalyticsKeep ==
  ASSUME IInv, NEW r \in Requests, SavedAnalytics(r)
  PROVE  Kept
<1>1. CASE CreateSavedAnalytic
  BY <1>1, PlainCreateKeeps DEF CreateSavedAnalytic, Kinds
<1>2. CASE BeginUpdateSavedAnalytic(r)
  BY <1>2, ResetKeeps DEF BeginUpdateSavedAnalytic, Resets
<1>3. CASE UpdateSavedAnalytic(r)
  BY <1>3, Columns, LastWriteKeeps DEF UpdateSavedAnalytic
<1>4. CASE DeleteSavedAnalytic
  BY <1>4, RemoveKeeps DEF DeleteSavedAnalytic
<1> QED BY <1>1, <1>2, <1>3, <1>4 DEF SavedAnalytics

LEMMA DefaultIsValue == Default \in Values
BY RecordSets DEF Default

LEMMA NamesKeep ==
  ASSUME IInv, NEW r \in Requests, Names(r)
  PROVE  Kept
<1>1. CASE BeginUpdateWorkspace(r)
  BY <1>1, PatchKeeps DEF BeginUpdateWorkspace
<1>2. CASE UpdateWorkspace(r)
  BY <1>2, Columns, LastWriteKeeps DEF UpdateWorkspace
<1>3. CASE BeginUpdateMe(r)
  BY <1>3, PatchKeeps DEF BeginUpdateMe
<1>4. CASE UpdateUserNames(r)
  BY <1>4, Columns, LastWriteKeeps DEF UpdateUserNames
<1>5. CASE MergeUserProfile
  <2>1. PICK i \in Live("profile"), f \in {"one", "two"}, v \in Values :
          Merge(i, [row[i] EXCEPT ![f] = v], {f})
    BY <1>5 DEF MergeUserProfile
  <2> DEFINE new == [row[i] EXCEPT ![f] = v]
  <2>2. i \in Rows /\ row[i] \in Real /\ row[i].kind = "profile" /\ row[i].status = "live"
    BY LiveIsReal
  <2>3. new \in Real
    BY <2>2, WithIsReal
  <2>4. new.kind = row[i].kind /\ \A g \in Fields \ {f} : new[g] = row[i][g]
    BY <2>2 DEF Real, Fields
  <2>5. Merge(i, new, {f}) /\ {f} \in SUBSET Fields
    BY <2>1, Columns
  <2> HIDE DEF new
  <2> QED BY <2>2, <2>3, <2>4, <2>5, MergeKeeps
<1>6. CASE TourCompleted
  <2>1. PICK i \in Live("profile") : MergeUnnoticed(i, [row[i] EXCEPT !.one = Default], {"one"})
    BY <1>6 DEF TourCompleted
  <2> DEFINE new == [row[i] EXCEPT !.one = Default]
  <2>2. i \in Rows /\ row[i] \in Real /\ row[i].kind = "profile" /\ row[i].status = "live"
    BY LiveIsReal
  <2>3. new \in Real
    BY <2>2, DefaultIsValue, WithIsReal
  <2>4. new.kind = row[i].kind /\ \A g \in Fields \ {"one"} : new[g] = row[i][g]
    BY <2>2 DEF Real, Fields
  <2>5. MergeUnnoticed(i, new, {"one"}) /\ "one" \in Fields
    BY <2>1 DEF Fields
  <2> HIDE DEF new
  <2> QED BY <2>2, <2>3, <2>4, <2>5, MergeUnnoticedKeeps
<1> QED BY <1>1, <1>2, <1>3, <1>4, <1>5, <1>6 DEF Names

LEMMA EstimatesKeep ==
  ASSUME IInv, NEW r \in Requests, Estimates(r)
  PROVE  Kept
<1>1. CASE BeginCreateEstimate(r)
  <2>1. PICK one \in Values, two \in Values : CreateEstimate(r, one, two)
    BY <1>1 DEF BeginCreateEstimate
  <2> DEFINE new == New("estimate", None, one, two)
             then == [Idle EXCEPT !.at = "points", !.new = new]
  <2>2. new \in Real /\ new.kind = "estimate"
    <3>1. "estimate" \in Kinds
      BY DEF Kinds
    <3> QED BY <3>1, NewIsReal
  <2>3. PICK i \in Rows : Insert(r, i, new, then)
    BY <2>1 DEF CreateEstimate
  <2> HIDE DEF new
  <2>4. then.at = "points" /\ then.new = new /\ then \in Request
    BY <2>2, RealFields DEF Idle, Request
  <2> HIDE DEF then
  <2>5. req'[r] = then
    BY <2>3, InsertAnswers
  <2>6. ReqOK(r)'
    BY <2>2, <2>4, <2>5 DEF ReqOK
  <2>7. req[r].at # "target"
    BY <1>1 DEF BeginCreateEstimate, Idle
  <2> QED BY <2>2, <2>3, <2>6, <2>7, InsertKeeps
<1>2. CASE CreateEstimatePoint(r)
  BY <1>2, PlainCreateKeeps DEF CreateEstimatePoint, Kinds
<1>3. CASE BeginUpdateEstimate(r)
  BY <1>3, PatchKeeps DEF BeginUpdateEstimate
<1>4. CASE UpdateEstimate(r)
  <2> DEFINE then == [req[r] EXCEPT !.at = "values", !.id = None]
  <2>1. Serving(r, "estimate", "write") /\ slipped' = slipped /\ Store(r, {"one", "two"}, then)
    BY <1>4 DEF UpdateEstimate
  <2>2. req[r] \in Request /\ req[r].new \in Real
    BY <2>1, Parts DEF ReqOK, Serving
  <2>3. then \in Request /\ then.at = "values" /\ then.new = req[r].new
    BY <2>2 DEF Request
  <2> HIDE DEF then
  <2>4. req'[r] = then
    BY <2>1, StoreAnswers
  <2>5. ReqOK(r)'
    BY <2>2, <2>3, <2>4 DEF ReqOK
  <2>6. {"one", "two"} \in SUBSET Fields /\ \A f \in {"one", "two"} : f \notin SafeFields("estimate")
    BY Columns DEF Writable
  <2>7. slipped \subseteq slipped' /\ slipped' \subseteq slipped \cup {req[r].id}
    BY <2>1
  <2> DEFINE written == {"one", "two"}
  <2>8. written \in SUBSET Fields /\ Store(r, written, then) /\ \A f \in written : f \notin SafeFields("estimate")
    BY <2>1, <2>6
  <2> HIDE DEF written
  <2> QED BY <2>1, <2>5, <2>7, <2>8, StoreKeeps
<1>5. CASE UpdateEstimatePointValue(r)
  <2>1. PICK i \in Live("point"), one \in Values :
          MergeUnnoticed(i, [row[i] EXCEPT !.one = one], {"one"})
    BY <1>5 DEF UpdateEstimatePointValue
  <2> DEFINE new == [row[i] EXCEPT !.one = one]
  <2>2. i \in Rows /\ row[i] \in Real /\ row[i].kind = "point" /\ row[i].status = "live"
    BY LiveIsReal
  <2>3. new \in Real
    BY <2>2, WithIsReal
  <2>4. new.kind = row[i].kind /\ \A f \in Fields \ {"one"} : new[f] = row[i][f]
    BY <2>2 DEF Real, Fields
  <2>5. MergeUnnoticed(i, new, {"one"}) /\ "one" \in Fields
    BY <2>1 DEF Fields
  <2> HIDE DEF new
  <2> QED BY <2>2, <2>3, <2>4, <2>5, MergeUnnoticedKeeps
<1>6. CASE EndEstimate(r)
  <2>1. req'[r] = Idle
    BY <1>6, Parts DEF EndEstimate
  <2> QED BY <1>6, <2>1, IdleOK, ReadKeeps DEF EndEstimate
<1>7. CASE DeleteEstimate
  BY <1>7, RemoveUnnoticedKeeps DEF DeleteEstimate
<1> QED BY <1>1, <1>2, <1>3, <1>4, <1>5, <1>6, <1>7 DEF Estimates

LEMMA FavoritesKeep ==
  ASSUME IInv, Favorites
  PROVE  Kept
<1>1. CASE AddFavorite
  BY <1>1, PlainCreateKeeps DEF AddFavorite, CreateFavorite, Kinds
<1>2. CASE DeleteFavorite
  BY <1>2, RemoveUnnoticedKeeps DEF DeleteFavorite
<1>3. CASE CreateFavoriteView
  BY <1>3, PlainCreateKeeps DEF CreateFavoriteView, Kinds
<1>4. CASE DeleteFavoriteView
  <2>1. Remove("favorite", "gone")
    BY <1>4 DEF DeleteFavoriteView, Remove
  <2> QED BY <2>1, RemoveKeeps
<1> QED BY <1>1, <1>2, <1>3, <1>4 DEF Favorites

LEMMA DetailsKeep ==
  ASSUME IInv, NEW r \in Requests, Details(r)
  PROVE  Kept
<1>1. CASE AddComment
  BY <1>1, PlainCreateKeeps DEF AddComment, CreateComment, Kinds
<1>2. CASE DeleteComment
  BY <1>2, RemoveUnnoticedKeeps DEF DeleteComment
<1>3. CASE AddLink
  BY <1>3, PlainCreateKeeps DEF AddLink, CreateLink, Kinds
<1>4. CASE DeleteLink
  BY <1>4, RemoveUnnoticedKeeps DEF DeleteLink
<1>5. CASE AddReaction
  BY <1>5, PlainCreateKeeps DEF AddReaction, CreateReaction, Kinds
<1>6. CASE BeginSubscribe(r)
  <2>1. PICK key \in Keys :
          /\ req[r] = Idle
          /\ req' = [req EXCEPT ![r] = [Idle EXCEPT !.at = "insert",
                                                    !.new = New("subscriber", key, None, None)]]
          /\ UNCHANGED <<row, asked, doubtful, slipped>>
    BY <1>6 DEF BeginSubscribe
  <2> DEFINE new == New("subscriber", key, None, None)
             then == [Idle EXCEPT !.at = "insert", !.new = new]
  <2>2. new \in Real /\ new.kind = "subscriber"
    <3>1. "subscriber" \in Kinds
      BY DEF Kinds
    <3> QED BY <3>1, NewIsReal
  <2>3. req' = [req EXCEPT ![r] = then]
    BY <2>1
  <2> HIDE DEF new
  <2>4. then \in Request /\ then.at = "insert" /\ then.new = new
    BY <2>2, RealFields DEF Idle, Request
  <2> HIDE DEF then
  <2>5. req'[r] = then
    BY <2>3, Parts
  <2>6. ReqOK(r)'
    BY <2>2, <2>4, <2>5 DEF ReqOK
  <2>7. req[r].at # "target"
    BY <2>1 DEF Idle
  <2> QED BY <2>1, <2>3, <2>6, <2>7, ReadKeeps
<1>7. CASE Subscribe(r)
  <2>1. req[r].at = "insert" /\ req[r].new.kind = "subscriber"
    BY <1>7 DEF Subscribe, Serving
  <2>2. req[r].new \in Real
    BY <2>1, Parts DEF ReqOK
  <2>3. CASE \E i \in Rows : Insert(r, i, req[r].new, Idle)
    <3>1. PICK i \in Rows : Insert(r, i, req[r].new, Idle)
      BY <2>3
    <3>2. ReqOK(r)'
      BY <3>1, InsertAnswers, IdleOK
    <3> QED BY <2>1, <2>2, <3>1, <3>2, InsertKeeps
  <2>4. CASE req' = [req EXCEPT ![r] = Idle] /\ UNCHANGED <<row, asked, doubtful, slipped>>
    <3>1. req'[r] = Idle
      BY <2>4, Parts
    <3> QED BY <2>1, <2>4, <3>1, IdleOK, ReadKeeps
  <2> QED BY <1>7, <2>3, <2>4 DEF Subscribe
<1>8. CASE Unsubscribe
  BY <1>8, RemoveUnnoticedKeeps DEF Unsubscribe
<1> QED BY <1>1, <1>2, <1>3, <1>4, <1>5, <1>6, <1>7, <1>8 DEF Details

\* Settings: what a request knows once their row is there, and how it looks for them.
LEMMA DefaultsReal ==
  ASSUME NEW r \in Requests, req[r].new \in Real
  PROVE  Defaults(r) \in Real /\ Defaults(r).kind = req[r].new.kind
<1>1. req[r].new.kind \in Kinds /\ req[r].new.key \in Keys \cup {None}
  BY RealFields
<1> QED BY <1>1, DefaultIsValue, NewIsReal DEF Defaults

LEMMA OnwardsOK ==
  ASSUME IInv, NEW r \in Requests, req[r].at = "insert",
         req[r].new.kind \notin {"label", "state", "draft", "issue"},
         NEW i \in Rows, NEW new \in Real, new.kind = req[r].new.kind,
         row'[i] = new, req'[r] = Onwards(r, i, new)
  PROVE  ReqOK(r)'
<1>1. CASE req[r].fields = {}
  BY <1>1, IdleOK DEF Onwards
<1>2. CASE req[r].fields # {}
  <2> DEFINE mixed == Mix(req[r].new, new, req[r].fields)
             then == [req[r] EXCEPT !.at = "write", !.id = i, !.old = {}, !.new = mixed]
  <2>1. req[r] \in Request /\ req[r].new \in Real /\ req[r].fields \in SUBSET Fields
    BY Parts DEF ReqOK, Request
  <2>2. req'[r] = then
    BY <1>2 DEF Onwards, Mix
  <2>3. /\ mixed \in Real /\ mixed.kind = new.kind
        /\ \A f \in Fields : mixed[f] = IF f \in req[r].fields THEN req[r].new[f] ELSE new[f]
    BY <2>1, Mixed
  <2> HIDE DEF mixed
  <2>4. /\ then \in Request /\ then.at = "write" /\ then.id = i /\ then.new = mixed
        /\ then.fields = req[r].fields
    BY <2>1, <2>3, RealFields DEF Request
  <2> HIDE DEF then
  <2>5. Holds(r)' /\ \A f \in Fields \ req[r].fields : Fresh(r, f)'
    BY <2>2, <2>3, <2>4 DEF Holds, Fresh
  <2>6. mixed.kind # "draft"
    BY <2>3
  <2> QED BY <2>2, <2>3, <2>4, <2>5, <2>6 DEF ReqOK
<1> QED BY <1>1, <1>2

LEMMA BeginSettingsKeeps ==
  ASSUME IInv, NEW r \in Requests, NEW kind \in Kinds \ {"label", "state", "draft", "issue"},
         NEW failed \in BOOLEAN, BeginSettings(r, kind, failed)
  PROVE  Kept
<1>1. PICK key \in Keys, fields \in {{}, {"one"}, {"two"}}, v \in Values :
        LET set(old) == [old EXCEPT !.one = IF "one" \in fields THEN v ELSE @,
                                    !.two = IF "two" \in fields THEN v ELSE @]
            there == {i \in Live(kind) : row[i].key = key}
        IN IF there = {} \/ failed
           THEN /\ req[r] = Idle
                /\ req' = [req EXCEPT ![r] = [Idle EXCEPT !.at = "insert", !.fields = fields,
                                               !.new = set(New(kind, key, Default, Default))]]
                /\ UNCHANGED <<row, asked, doubtful, slipped>>
           ELSE \E i \in there : fields # {} /\ Begin(r, "write", i, fields, set(row[i]))
  BY DEF BeginSettings
<1> DEFINE set(old) == [old EXCEPT !.one = IF "one" \in fields THEN v ELSE @,
                                   !.two = IF "two" \in fields THEN v ELSE @]
<1>2. fields \in SUBSET Fields
  BY DEF Fields
<1>3. ASSUME NEW old \in Real
      PROVE  /\ set(old) \in Real /\ set(old).kind = old.kind
             /\ \A f \in Fields \ fields : set(old)[f] = old[f]
  BY DEF Real, Fields
<1>4. CASE /\ req[r] = Idle
           /\ req' = [req EXCEPT ![r] = [Idle EXCEPT !.at = "insert", !.fields = fields,
                                          !.new = set(New(kind, key, Default, Default))]]
           /\ UNCHANGED <<row, asked, doubtful, slipped>>
  <2> DEFINE default == New(kind, key, Default, Default)
             new == set(default)
             then == [Idle EXCEPT !.at = "insert", !.fields = fields, !.new = new]
  <2>1. default \in Real /\ default.kind = kind
    BY DefaultIsValue, NewIsReal
  <2>2. req' = [req EXCEPT ![r] = then]
    BY <1>4
  <2> HIDE DEF default
  <2>3. new \in Real /\ new.kind = kind
    BY <1>3, <2>1
  <2> HIDE DEF new
  <2>4. then \in Request /\ then.at = "insert" /\ then.new = new
    BY <1>2, <2>3, RealFields DEF Idle, Request
  <2> HIDE DEF then
  <2>5. req'[r] = then
    BY <2>2, Parts
  <2>6. ReqOK(r)'
    BY <2>3, <2>4, <2>5 DEF ReqOK
  <2>7. req[r].at # "target"
    BY <1>4 DEF Idle
  <2> QED BY <1>4, <2>2, <2>6, <2>7, ReadKeeps
<1>5. ASSUME NEW i \in Live(kind), Begin(r, "write", i, fields, set(row[i]))
      PROVE  Kept
  <2>1. i \in Rows /\ row[i] \in Real /\ row[i].kind = kind
    BY LiveIsReal
  <2> DEFINE new == set(row[i])
  <2>2. new \in Real /\ new.kind = row[i].kind /\ \A f \in Fields \ fields : new[f] = row[i][f]
    BY <1>3, <2>1
  <2>3. Begin(r, "write", i, fields, new)
    BY <1>5
  <2> HIDE DEF new, set
  <2> QED BY <1>2, <2>1, <2>2, <2>3, BeginKeeps
<1> QED BY <1>1, <1>4, <1>5

LEMMA FirstSightKeeps ==
  ASSUME IInv, NEW r \in Requests, NEW kind, kind \notin {"label", "state", "draft", "issue"},
         Serving(r, kind, "insert"), NEW i \in Rows,
         \/ Insert(r, i, Defaults(r), Onwards(r, i, Defaults(r)))
         \/ /\ i \in Live(kind)
            /\ req' = [req EXCEPT ![r] = Onwards(r, i, row[i])]
            /\ UNCHANGED <<row, asked, doubtful, slipped>>
  PROVE  Kept
<1>1. req[r].at = "insert" /\ req[r].new.kind = kind
  BY DEF Serving
<1>2. Defaults(r) \in Real /\ Defaults(r).kind = kind
  BY <1>1, DefaultsReal, Parts DEF ReqOK
<1>3. CASE Insert(r, i, Defaults(r), Onwards(r, i, Defaults(r)))
  <2>1. row'[i] = Defaults(r)
    BY <1>3, Parts DEF Insert
  <2>2. req'[r] = Onwards(r, i, Defaults(r))
    BY <1>3, InsertAnswers
  <2>3. ReqOK(r)'
    BY <1>1, <1>2, <2>1, <2>2, OnwardsOK
  <2> QED BY <1>1, <1>2, <1>3, <2>3, InsertKeeps
<1>4. CASE /\ i \in Live(kind)
           /\ req' = [req EXCEPT ![r] = Onwards(r, i, row[i])]
           /\ UNCHANGED <<row, asked, doubtful, slipped>>
  <2>1. row[i] \in Real /\ row[i].kind = kind /\ row'[i] = row[i]
    BY <1>4, LiveIsReal
  <2>2. req'[r] = Onwards(r, i, row[i])
    BY <1>4, Parts
  <2>3. ReqOK(r)'
    BY <1>1, <2>1, <2>2, OnwardsOK
  <2> QED BY <1>1, <1>4, <2>3, ReadKeeps
<1> QED BY <1>3, <1>4

LEMMA UserPropsKeep ==
  ASSUME IInv, NEW r \in Requests, UserProps(r)
  PROVE  Kept
<1>1. CASE BeginUserProps(r)
  BY <1>1, BeginSettingsKeeps DEF BeginUserProps, Kinds
<1>2. CASE CreateUserProps(r)
  BY <1>2, FirstSightKeeps DEF CreateUserProps
<1>3. CASE UpdateUserProps(r)
  BY <1>3, Columns, LastWriteKeeps DEF UpdateUserProps
<1> QED BY <1>1, <1>2, <1>3 DEF UserProps

LEMMA EntityPropsKeep ==
  ASSUME IInv, NEW r \in Requests, EntityProps(r)
  PROVE  Kept
<1>1. CASE BeginEntityProps(r)
  BY <1>1, BeginSettingsKeeps DEF BeginEntityProps, Kinds
<1>2. CASE CreateEntityProps(r)
  BY <1>2, FirstSightKeeps DEF CreateEntityProps
<1>3. CASE MergeEntityProps(r)
  <2>1. req[r].fields \in SUBSET Fields
    BY <1>3, Parts DEF ReqOK, Request
  <2> DEFINE fields == req[r].fields
  <2>2. Serving(r, "entity properties", "write") /\ UNCHANGED slipped /\ Store(r, fields, Idle)
    BY <1>3 DEF MergeEntityProps
  <2>3. fields \in SUBSET Fields
        /\ \A f \in fields : f \in req[r].fields \/ f \notin SafeFields("entity properties")
    BY <2>1
  <2> HIDE DEF fields
  <2> QED BY <2>2, <2>3, LastStoreKeeps
<1> QED BY <1>1, <1>2, <1>3 DEF EntityProps

LEMMA SubIssuesKeep ==
  ASSUME IInv, NEW r \in Requests, SubIssues(r)
  PROVE  Kept
<1>1. CASE BeginUpdateIssue(r)
  BY <1>1, PatchKeeps DEF BeginUpdateIssue
<1>2. CASE UpdateIssue(r)
  <2>1. Serving(r, "sub-issue", "write") /\ slipped' = slipped
    BY <1>2 DEF UpdateIssue
  <2>2. CASE Store(r, {"one", "two"}, Idle)
    BY <2>1, <2>2, Columns, LastWriteKeeps
  <2>3. CASE req' = [req EXCEPT ![r] = Idle] /\ UNCHANGED <<row, asked, doubtful>>
    <3>1. req'[r] = Idle
      BY <2>3, Parts
    <3>2. req[r].at # "target"
      BY <2>1 DEF Serving
    <3>3. ReqOK(r)'
      BY <3>1, IdleOK
    <3> QED BY <2>1, <2>3, <3>2, <3>3, ReadKeeps
  <2> QED BY <1>2, <2>2, <2>3 DEF UpdateIssue
<1>3. CASE SetIssueParent
  <2>1. PICK i \in {j \in Rows : row[j].kind = "sub-issue"}, key \in Keys :
          MergeUnnoticed(i, [row[i] EXCEPT !.key = key], {"key"})
    BY <1>3 DEF SetIssueParent
  <2>2. i \in Rows /\ row[i] \in Real /\ row[i].kind = "sub-issue"
    <3>1. Blank.kind # "sub-issue"
      BY NoneIsNoKind DEF Blank, Kinds
    <3> QED BY <3>1, Parts DEF RowOK
  <2>3. "sub-issue" \notin Indexed /\ "key" \in Fields
    BY DEF Indexed, Fields
  <2> DEFINE new == [row[i] EXCEPT !.key = key]
  <2>4. new \in Real
    BY <2>2, WithIsReal
  <2>5. /\ new.kind = row[i].kind /\ new.status = row[i].status
        /\ \A f \in Fields \ {"key"} : new[f] = row[i][f]
    BY <2>2 DEF Real, Fields
  <2>6. MergeUnnoticed(i, new, {"key"})
    BY <2>1
  <2> HIDE DEF new
  <2>7. new.kind \notin Indexed /\ new.kind \notin {"draft", "issue"}
    BY <2>2, <2>3, <2>5
  <2> QED BY <2>2, <2>3, <2>4, <2>5, <2>6, <2>7, MergeUnnoticedKeeps
<1>4. CASE SoftDeleteIssue
  BY <1>4, RemoveKeeps DEF SoftDeleteIssue
<1>5. CASE BulkSoftDeleteIssues
  BY <1>5, RemoveUnnoticedKeeps DEF BulkSoftDeleteIssues
<1> QED BY <1>1, <1>2, <1>3, <1>4, <1>5 DEF SubIssues

\* Drafts and issue dates.
LEMMA AskedDates ==
  ASSUME NEW i \in Rows, row[i] \in Real, NEW fields \in DateFields,
         NEW start \in Dates, NEW target \in Dates
  PROVE  LET new == DatesAsked(i, fields, start, target) IN
         /\ new \in Real /\ new.kind = row[i].kind /\ fields \in SUBSET Fields
         /\ \A f \in Fields \ fields : new[f] = row[i][f]
BY DEF DatesAsked, Real, Dates, DateFields, Fields

LEMMA DraftReadsKeep ==
  ASSUME IInv, NEW r \in Requests, BeginUpdateDraft(r) \/ BeginPromote(r) \/ BeginBulkUpdateDates(r)
  PROVE  Kept
<1>1. CASE BeginUpdateDraft(r)
  <2>1. PICK i \in Live("draft"), fields \in DateFields, start \in Dates, target \in Dates :
          LET new == DatesAsked(i, fields, start, target)
          IN DatesOK(new) /\ Begin(r, "write", i, fields, new)
    BY <1>1 DEF BeginUpdateDraft
  <2> DEFINE new == DatesAsked(i, fields, start, target)
  <2>2. DatesOK(new) /\ Begin(r, "write", i, fields, new)
    BY <2>1
  <2>3. i \in Rows /\ row[i] \in Real
    BY LiveIsReal
  <2>4. /\ new \in Real /\ new.kind = row[i].kind /\ fields \in SUBSET Fields
        /\ \A f \in Fields \ fields : new[f] = row[i][f]
    BY <2>3, AskedDates
  <2> HIDE DEF new
  <2> QED BY <2>2, <2>3, <2>4, BeginKeeps
<1>2. CASE BeginPromote(r)
  <2>1. PICK i \in Live("draft") : Begin(r, "promote", i, {}, row[i])
    BY <1>2 DEF BeginPromote
  <2>2. i \in Rows /\ row[i] \in Real /\ row[i].kind = "draft"
    BY LiveIsReal
  <2>3. \A q \in Requests : req[q].at = "target" => req[q].id # i
    BY <2>2, Parts DEF ReqOK, Holds
  <2>4. i \in slipped \/ DatesOK(row[i])
    BY <2>2, <2>3 DEF IInv, DatesInOrder
  <2> DEFINE new == row[i]
  <2>5. new \in Real /\ new.kind = row[i].kind /\ \A f \in Fields \ {} : new[f] = row[i][f]
    BY <2>2
  <2>6. Begin(r, "promote", i, {}, new) /\ (i \in slipped \/ DatesOK(new)) /\ {} \in SUBSET Fields
    BY <2>1, <2>4
  <2> HIDE DEF new
  <2> QED BY <2>2, <2>5, <2>6, BeginKeeps
<1>3. CASE BeginBulkUpdateDates(r)
  <2>1. PICK i \in Live("issue"), fields \in DateFields, start \in Dates, target \in Dates :
          LET new == DatesAsked(i, fields, start, target)
          IN DatesOK(new) /\ Begin(r, IF "one" \in fields THEN "start" ELSE "target", i, fields, new)
    BY <1>3 DEF BeginBulkUpdateDates
  <2> DEFINE new == DatesAsked(i, fields, start, target)
  <2>2. DatesOK(new) /\ Begin(r, IF "one" \in fields THEN "start" ELSE "target", i, fields, new)
    BY <2>1
  <2>3. i \in Rows /\ row[i] \in Real /\ row[i].kind = "issue"
    BY LiveIsReal
  <2>4. /\ new \in Real /\ new.kind = row[i].kind /\ fields \in SUBSET Fields
        /\ \A f \in Fields \ fields : new[f] = row[i][f]
    BY <2>3, AskedDates
  <2> HIDE DEF new
  <2>5. CASE "one" \in fields
    <3>1. Begin(r, "start", i, fields, new)
      BY <2>2, <2>5
    <3> QED BY <2>2, <2>3, <2>4, <3>1, BeginKeeps
  <2>6. CASE "one" \notin fields
    <3>1. Begin(r, "target", i, fields, new)
      BY <2>2, <2>6
    <3> QED BY <2>2, <2>3, <2>4, <2>6, <3>1, BeginKeeps
  <2> QED BY <2>5, <2>6
<1> QED BY <1>1, <1>2, <1>3

LEMMA PromoteKeeps ==
  ASSUME IInv, NEW r \in Requests, PromoteDraft(r)
  PROVE  Kept
<1> DEFINE new == New("issue", None, req[r].new.one, req[r].new.two)
<1>1. req[r].at = "promote" /\ req[r].new.kind = "draft" /\ doubtful' = doubtful
  BY DEF PromoteDraft, Serving
<1>2. PICK i \in Rows :
        /\ row[i] = Blank
        /\ row' = [row EXCEPT ![i] = new]
        /\ asked' = [asked EXCEPT ![i] = new]
        /\ slipped' = (IF req[r].id \in slipped THEN slipped \cup {i} ELSE slipped)
        /\ req' = [Noticed(i, new) EXCEPT ![r].at = "consume"]
  BY DEF PromoteDraft, Slip
<1>3. /\ req[r] \in Request /\ req[r].new \in Real /\ Holds(r)
      /\ req[r].id \in slipped \/ DatesOK(req[r].new)
  BY <1>1, Parts DEF ReqOK
<1>4. new \in Real /\ new.kind = "issue" /\ new.one = req[r].new.one /\ new.two = req[r].new.two
  <2>1. "issue" \in Kinds
    BY DEF Kinds
  <2>2. /\ req[r].new.one \in Values \cup {None} /\ req[r].new.two \in Values \cup {None}
        /\ None \in Keys \cup {None}
    BY <1>3, RealFields
  <2> DEFINE one == req[r].new.one
             two == req[r].new.two
  <2>3. new = New("issue", None, one, two)
    OBVIOUS
  <2> HIDE DEF new, one, two
  <2>4. New("issue", None, one, two).one = one /\ New("issue", None, one, two).two = two
    BY <2>1, <2>2, NewIsReal DEF one, two
  <2>5. New("issue", None, one, two) \in Real /\ New("issue", None, one, two).kind = "issue"
    BY <2>1, <2>2, NewIsReal DEF one, two
  <2> QED BY <2>3, <2>4, <2>5 DEF one, two
<1> HIDE DEF new
<1>5. req[r].id # i /\ doubtful \subseteq Rows \X Fields /\ \A f \in Fields : <<i, f>> \notin doubtful
  BY <1>2, <1>3, RealFields, Parts DEF Holds, RowOK, IInv
<1> DEFINE noticed == Noticed(i, new)
           then == [req[r] EXCEPT !.at = "consume"]
<1>6. /\ DOMAIN noticed = Requests /\ noticed[r] = req[r]
      /\ \A q \in Requests : req[q].at = "target" => noticed[q].at = "target" /\ noticed[q].id = req[q].id
  <2>1. \A q \in Requests : req[q] \in Request
    BY Parts DEF ReqOK
  <2> QED BY <1>1, <1>5, <2>1 DEF Noticed, Request
<1>7. req' = [noticed EXCEPT ![r].at = "consume"]
  BY <1>2
<1> HIDE DEF noticed
<1>8. /\ req'[r] = then /\ req' = [q \in Requests |-> req'[q]]
      /\ \A q \in Requests \ {r} : req'[q] = noticed[q]
  BY <1>6, <1>7
<1>9. then \in Request /\ then.at = "consume" /\ then.id = req[r].id /\ then.new = req[r].new
  BY <1>3 DEF Request
<1> HIDE DEF then
<1>10. row'[req[r].id] = row[req[r].id]
  BY <1>2, <1>5
<1>11. ReqOK(r)'
  BY <1>3, <1>8, <1>9, <1>10 DEF ReqOK, Holds
<1>12. DoubtKept(i, new, new) /\ KeyKept(i, new) /\ NameKept(i, new)
  BY <1>1, <1>4, <1>5 DEF DoubtKept, KeyKept, NameKept, Indexed
<1>13. DatesKept(i, new)
  BY <1>2, <1>3, <1>4 DEF DatesKept, DatesOK
<1>14. RequestsKept(i, new)
  BY <1>1, <1>6, <1>8, <1>11 DEF RequestsKept, noticed
<1>15. slipped \subseteq slipped' /\ slipped' \subseteq slipped \cup {i}
  BY <1>2
<1> QED BY <1>2, <1>4, <1>12, <1>13, <1>14, <1>15, WriteKeeps

LEMMA ConsumeKeeps ==
  ASSUME IInv, NEW r \in Requests, ConsumeDraft(r)
  PROVE  Kept
<1> DEFINE i == req[r].id
           new == [row[i] EXCEPT !.status = "gone"]
           want == [asked[i] EXCEPT !.status = "gone"]
<1>1. req[r].at = "consume" /\ req[r].new.kind = "draft" /\ slipped' = slipped
  BY DEF ConsumeDraft, Serving
<1>2. i \in Rows /\ row[i] \in Real /\ row[i].kind = "draft" /\ asked[i] \in Real /\ row[i] # Blank
  <2>1. i \in Rows /\ row[i] \in Real /\ row[i].kind = "draft"
    BY <1>1, Parts DEF ReqOK, Holds
  <2> QED BY <2>1, RealFields, Parts DEF RowOK
<1>3. new \in Real /\ want \in Real
  BY <1>2, WithIsReal
<1>4. /\ new.kind = row[i].kind /\ new.status = "gone" /\ want.status = "gone"
      /\ \A f \in Fields \ {"status"} : new[f] = row[i][f] /\ want[f] = asked[i][f]
  BY <1>2 DEF Real, Fields
<1>5. asked' = [asked EXCEPT ![i] = want]
  <2>1. asked' = [asked EXCEPT ![i] = [f \in DOMAIN asked[i] |-> IF f \in {"status"} THEN new[f]
                                                                ELSE asked[i][f]]]
    BY <1>2, Parts DEF ConsumeDraft, Ask
  <2>2. /\ DOMAIN want = DOMAIN asked[i]
        /\ \A f \in DOMAIN asked[i] : want[f] = IF f \in {"status"} THEN new[f] ELSE asked[i][f]
    BY <1>2 DEF Real
  <2>3. want = [f \in DOMAIN want |-> want[f]]
    OBVIOUS
  <2> HIDE DEF want, new, i
  <2>4. want = [f \in DOMAIN asked[i] |-> IF f \in {"status"} THEN new[f] ELSE asked[i][f]]
    BY <2>2, <2>3
  <2> QED BY <2>1, <2>4
<1>6. \/ /\ doubtful' = doubtful \cup {<<i, "status">>}
         /\ req' = [req EXCEPT ![r] = Idle]
         /\ row' = row
      \/ /\ row' = [row EXCEPT ![i] = new]
         /\ doubtful' = doubtful \ {<<i, "status">>}
         /\ req' = [Noticed(i, new) EXCEPT ![r] = Idle]
  BY DEF ConsumeDraft
<1>7. CASE /\ doubtful' = doubtful \cup {<<i, "status">>}
           /\ req' = [req EXCEPT ![r] = Idle]
           /\ row' = row
  <2> HIDE DEF want, new, i
  <2>1. /\ req'[r] = Idle /\ req' = [q \in Requests |-> req'[q]]
        /\ \A q \in Requests \ {r} : req'[q] = req[q]
    BY <1>7, Parts
  <2>2. \A q \in Requests : \/ req'[q] = req[q]
                            \/ ReqOK(q)' /\ (req[q].at = "target" => req[q].id \in slipped')
    BY <1>1, <2>1, IdleOK
  <2>3. slipped \subseteq slipped' /\ slipped' \subseteq Rows /\ "status" \in Fields
    BY <1>1 DEF IInv, Fields
  <2> QED BY <1>2, <1>3, <1>4, <1>5, <1>7, <2>1, <2>2, <2>3, UnnoticedKeeps
<1>8. CASE /\ row' = [row EXCEPT ![i] = new]
           /\ doubtful' = doubtful \ {<<i, "status">>}
           /\ req' = [Noticed(i, new) EXCEPT ![r] = Idle]
  <2> DEFINE noticed == Noticed(i, new)
  <2>4. req' = [noticed EXCEPT ![r] = Idle]
    BY <1>8
  <2> HIDE DEF new, want, i
  <2>5. /\ DOMAIN noticed = Requests
        /\ \A q \in Requests : req[q].at = "target" => noticed[q].at = "target" /\ noticed[q].id = req[q].id
    <3>1. \A q \in Requests : req[q] \in Request
      BY Parts DEF ReqOK
    <3> QED BY <3>1 DEF Noticed, Request
  <2> HIDE DEF noticed
  <2>6. /\ req'[r] = Idle /\ req' = [q \in Requests |-> req'[q]]
        /\ \A q \in Requests \ {r} : req'[q] = noticed[q]
    BY <2>4, <2>5
  <2>7. RequestsKept(i, new)
    BY <1>1, <2>5, <2>6, IdleOK DEF RequestsKept, noticed
  <2>8. DoubtKept(i, new, want)
    BY <1>2, <1>4, <1>8, SafeAreFields, Parts DEF DoubtKept, RowOK, IInv
  <2>9. KeyKept(i, new) /\ NameKept(i, new)
    BY <1>2, <1>4 DEF KeyKept, NameKept, Indexed
  <2>10. \A q \in Requests : req[q].at = "target" => req[q].id # i
    BY <1>2, Parts DEF ReqOK, Holds
  <2>11. "one" \in Fields \ {"status"} /\ "two" \in Fields \ {"status"}
    BY DEF Fields
  <2>12. DatesKept(i, new)
    <3>1. i \notin slipped => DatesOK(row[i])
      BY <1>2, <2>10 DEF IInv, DatesInOrder
    <3>2. new.one = row[i].one /\ new.two = row[i].two
      BY <1>4, <2>11
    <3> QED BY <1>1, <3>1, <3>2 DEF DatesKept, DatesOK
  <2>13. slipped \subseteq slipped' /\ slipped' \subseteq slipped \cup {i}
    BY <1>1
  <2> QED BY <1>2, <1>3, <1>4, <1>5, <1>8, <2>7, <2>8, <2>9, <2>12, <2>13, WriteKeeps
<1> QED BY <1>6, <1>7, <1>8

\* A date is written, or the statement fails and nobody is told.
LEMMA SetDateKeeps ==
  ASSUME IInv, NEW r \in Requests, NEW f \in {"one", "two"}, NEW then, SetDate(r, f, then),
         f = "one" => req[r].at = "start", f = "two" => req[r].at = "target",
         Serving(r, "issue", req[r].at),
         then = IF f = "one" /\ "two" \in req[r].fields THEN [req[r] EXCEPT !.at = "target"] ELSE Idle
  PROVE  Kept
<1> DEFINE i == req[r].id
           new == [row[i] EXCEPT ![f] = req[r].new[f]]
           want == [asked[i] EXCEPT ![f] = new[f]]
           v == req[r].new[f]
<1>1. /\ req[r] \in Request /\ req[r].new \in Real /\ DatesOK(req[r].new)
      /\ i \in Rows /\ row[i] \in Real /\ row[i].kind = "issue"
      /\ req[r].new.kind = "issue" /\ asked[i] \in Real
      /\ req[r].at = "start" => "two" \in req[r].fields \/ Fresh(r, "two")
      /\ req[r].at = "target" => i \in slipped \/ Fresh(r, "one")
  <2>1. /\ req[r] \in Request /\ req[r].new \in Real /\ Holds(r) /\ DatesOK(req[r].new)
        /\ req[r].new.kind = "issue"
        /\ req[r].at = "start" => "two" \in req[r].fields \/ Fresh(r, "two")
        /\ req[r].at = "target" => i \in slipped \/ Fresh(r, "one")
    BY Parts DEF ReqOK, Serving
  <2>2. i \in Rows /\ row[i] \in Real /\ row[i].kind = "issue"
    BY <2>1 DEF Holds
  <2>3. asked[i] \in Real
    BY <2>2, RealFields, Parts DEF RowOK
  <2> QED BY <2>1, <2>2, <2>3
<1>2. v \in Values \cup {None} /\ f \in Fields
  BY <1>1, RealFields DEF Fields
<1> HIDE DEF v
<1>3. new = [row[i] EXCEPT ![f] = v]
  BY DEF v
<1>4. new \in Real
  BY <1>1, <1>2, <1>3, WithIsReal
<1>5. /\ new.kind = row[i].kind /\ new.status = row[i].status /\ new.key = row[i].key /\ new[f] = v
      /\ \A g \in Fields \ {f} : new[g] = row[i][g]
  BY <1>1, <1>2, <1>3 DEF Real, Fields
<1> HIDE DEF new
<1>6. want = [asked[i] EXCEPT ![f] = v]
  BY <1>5
<1>7. want \in Real
  BY <1>1, <1>2, <1>6, WithIsReal
<1>8. want[f] = v /\ \A g \in Fields \ {f} : want[g] = asked[i][g]
  BY <1>1, <1>2, <1>6 DEF Real, Fields
<1>9. asked' = [asked EXCEPT ![i] = want]
  BY DEF SetDate, new
<1>10. \/ /\ row' = [row EXCEPT ![i] = new]
          /\ doubtful' = doubtful \ {<<i, f>>}
          /\ slipped' = (IF req[r].old \cap {"one", "two"} # {} THEN slipped \cup {i} ELSE slipped)
          /\ req' = [Noticed(i, new) EXCEPT ![r] = then]
       \/ /\ doubtful' = doubtful \cup {<<i, f>>}
          /\ slipped' = slipped \cup {i}
          /\ req' = [req EXCEPT ![r] = then]
          /\ row' = row
  BY DEF SetDate, Slip, new
<1> HIDE DEF want
<1>11. "issue" \notin Indexed /\ "one" \in Fields /\ "two" \in Fields
  BY DEF Indexed, Fields
<1>12. \/ then = Idle
       \/ /\ f = "one" /\ "two" \in req[r].fields
          /\ then \in Request /\ then.at = "target" /\ then.id = i /\ then.new = req[r].new
          /\ then.old = req[r].old
  BY <1>1 DEF Request
<1>15. f = "one" /\ "two" \in req[r].fields => then.at = "target" /\ then.id = i
  BY <1>1 DEF Request
<1>13. CASE /\ doubtful' = doubtful \cup {<<i, f>>}
            /\ slipped' = slipped \cup {i}
            /\ req' = [req EXCEPT ![r] = then]
            /\ row' = row
  <2>1. /\ req'[r] = then /\ req' = [q \in Requests |-> req'[q]]
        /\ \A q \in Requests \ {r} : req'[q] = req[q]
    BY <1>13, Parts
  <2>2. ASSUME then # Idle PROVE ReqOK(r)'
    <3>1. Holds(r)'
      BY <1>1, <1>12, <1>13, <2>1, <2>2 DEF Holds
    <3>2. ReqOK(r)'
      BY <1>1, <1>12, <1>13, <2>1, <2>2, <3>1 DEF ReqOK, DatesOK
    <3> QED BY <3>2
  <2>3. ASSUME then = Idle PROVE ReqOK(r)'
    BY <2>1, <2>3, IdleOK
  <2>4. ReqOK(r)'
    BY <2>2, <2>3
  <2>5. \A q \in Requests : \/ req'[q] = req[q]
                            \/ ReqOK(q)' /\ (req[q].at = "target" => req[q].id \in slipped')
    BY <1>13, <2>1, <2>4
  <2>6. slipped \subseteq slipped' /\ slipped' \subseteq Rows
    BY <1>1, <1>13 DEF IInv
  <2>8. \A g \in Fields \ {f} : want[g] = asked[i][g] \/ want[g] = row[i][g]
    BY <1>8
  <2>9. f \in Fields /\ i \in Rows /\ row[i] \in Real /\ want \in Real
    BY <1>1, <1>2, <1>7
  <2>10. asked' = [asked EXCEPT ![i] = want] /\ row' = row /\ doubtful' = doubtful \cup {<<i, f>>}
    BY <1>9, <1>13
  <2> HIDE DEF i, want
  <2> QED BY <2>1, <2>5, <2>6, <2>8, <2>9, <2>10, UnnoticedKeeps
<1>14. CASE /\ row' = [row EXCEPT ![i] = new]
            /\ doubtful' = doubtful \ {<<i, f>>}
            /\ slipped' = (IF req[r].old \cap {"one", "two"} # {} THEN slipped \cup {i} ELSE slipped)
            /\ req' = [Noticed(i, new) EXCEPT ![r] = then]
  <2> DEFINE noticed == Noticed(i, new)
  <2>1. req' = [noticed EXCEPT ![r] = then]
    BY <1>14
  <2>2. /\ DOMAIN noticed = Requests
        /\ \A q \in Requests : req[q].at = "target" => noticed[q].at = "target" /\ noticed[q].id = req[q].id
    <3>1. \A q \in Requests : req[q] \in Request
      BY Parts DEF ReqOK
    <3> QED BY <3>1 DEF Noticed, Request
  <2> HIDE DEF noticed
  <2>3. /\ req'[r] = then /\ req' = [q \in Requests |-> req'[q]]
        /\ \A q \in Requests \ {r} : req'[q] = noticed[q]
    BY <2>1, <2>2
  <2>4. slipped \subseteq slipped' /\ slipped' \subseteq slipped \cup {i}
        /\ (i \notin slipped' => i \notin slipped /\ "one" \notin req[r].old /\ "two" \notin req[r].old)
    BY <1>14
  <2>5. row'[i] = new
    BY <1>1, <1>14, Parts
  <2>6. ASSUME then # Idle PROVE ReqOK(r)'
    <3>1. Holds(r)'
      BY <1>1, <1>4, <1>5, <1>12, <2>3, <2>5, <2>6 DEF Holds
    <3>2. Fresh(r, "one")'
      BY <1>5, <1>12, <2>3, <2>5, <2>6 DEF Fresh, v
    <3> QED BY <1>1, <1>12, <2>3, <2>6, <3>1, <3>2 DEF ReqOK, DatesOK
  <2>7. ASSUME then = Idle PROVE ReqOK(r)'
    BY <2>3, <2>7, IdleOK
  <2>8. RequestsKept(i, new)
    BY <2>2, <2>3, <2>6, <2>7 DEF RequestsKept, noticed
  <2>9. DoubtKept(i, new, want)
    <3>1. \A g \in Fields : <<i, g>> \in doubtful' <=> <<i, g>> \in doubtful /\ g # f
      BY <1>14
    <3>2. \A j \in Rows \ {i}, g \in Fields : <<j, g>> \in doubtful' <=> <<j, g>> \in doubtful
      BY <1>14
    <3>3. doubtful' \subseteq Rows \X Fields
      BY <1>14 DEF IInv
    <3>4. \A g \in Fields : <<i, g>> \notin doubtful' => new[g] = want[g]
      BY <1>1, <1>5, <1>8, <3>1, Parts DEF RowOK
    <3>5. \A g \in SafeFields(new.kind) : new[g] = row[i][g] \/ new[g] = want[g]
      BY <1>5, <1>8, SafeAreFields
    <3> QED BY <3>2, <3>3, <3>4, <3>5 DEF DoubtKept
  <2>10. KeyKept(i, new) /\ NameKept(i, new)
    BY <1>1, <1>5, <1>11 DEF KeyKept, NameKept
  <2>11. DatesKept(i, new)
    <3>1. SUFFICES ASSUME i \notin slipped', ~HalfDone(i)' PROVE DatesOK(new)
      BY DEF DatesKept
    <3>2. CASE f = "one"
      <4>1. "two" \notin req[r].fields
        BY <1>15, <2>3, <3>1, <3>2 DEF HalfDone
      <4>2. req[r].new.two = row[i].two
        BY <1>1, <2>4, <3>1, <3>2, <4>1 DEF Fresh
      <4>3. new.one = req[r].new.one /\ new.two = req[r].new.two
        BY <1>5, <1>11, <3>2, <4>2 DEF v
      <4> QED BY <1>1, <4>3 DEF DatesOK
    <3>3. CASE f = "two"
      <4>1. req[r].new.one = row[i].one
        BY <1>1, <2>4, <3>1, <3>3 DEF Fresh
      <4>2. new.one = req[r].new.one /\ new.two = req[r].new.two
        BY <1>5, <1>11, <3>3, <4>1 DEF v
      <4> QED BY <1>1, <4>2 DEF DatesOK
    <3> QED BY <3>2, <3>3
  <2>12. row' = [row EXCEPT ![i] = new] /\ new.kind = row[i].kind
    BY <1>5, <1>14
  <2> HIDE DEF i
  <2> QED BY <1>1, <1>4, <1>7, <1>9, <2>4, <2>8, <2>9, <2>10, <2>11, <2>12, WriteKeeps
<1> QED BY <1>10, <1>13, <1>14

LEMMA DraftsAndDatesKeep ==
  ASSUME IInv, NEW r \in Requests, DraftsAndDates(r)
  PROVE  Kept
<1>1. CASE CreateDraft
  <2>1. PICK one \in Dates, two \in Dates :
          DatesOK(New("draft", None, one, two)) /\ Create(New("draft", None, one, two))
    BY <1>1 DEF CreateDraft
  <2> DEFINE new == New("draft", None, one, two)
  <2>2. "draft" \in Kinds
    BY DEF Kinds
  <2>3. new \in Real /\ new.kind = "draft"
    BY <2>2, NewIsReal DEF Dates
  <2>4. DatesOK(new) /\ Create(new)
    BY <2>1
  <2> HIDE DEF new
  <2> QED BY <2>3, <2>4, CreateKeeps
<1>2. CASE BeginUpdateDraft(r) \/ BeginPromote(r) \/ BeginBulkUpdateDates(r)
  BY <1>2, DraftReadsKeep
<1>3. CASE UpdateDraft(r)
  <2>1. req[r].fields \in SUBSET Fields
    BY <1>3, Parts DEF UpdateDraft, Serving, ReqOK, Request
  <2> DEFINE fields == req[r].fields
  <2>2. Serving(r, "draft", "write") /\ Store(r, fields, Idle)
        /\ slipped' = IF req[r].old \cap {"one", "two"} # {} THEN slipped \cup {req[r].id} ELSE slipped
    BY <1>3 DEF UpdateDraft, Slip
  <2>3. /\ slipped \subseteq slipped' /\ slipped' \subseteq slipped \cup {req[r].id}
        /\ (req[r].id \notin slipped' => req[r].old \cap {"one", "two"} = {})
    BY <2>2
  <2>4. fields \in SUBSET Fields /\ fields = req[r].fields
        /\ \A f \in fields : f \in req[r].fields \/ f \notin SafeFields("draft")
    BY <2>1
  <2> HIDE DEF fields
  <2>5. req'[r] = Idle
    BY <2>2, StoreAnswers
  <2>6. ReqOK(r)'
    BY <2>5, IdleOK
  <2> QED BY <2>2, <2>3, <2>4, <2>6, StoreKeeps
<1>4. CASE DestroyDraft
  BY <1>4, RemoveKeeps DEF DestroyDraft
<1>5. CASE PromoteDraft(r)
  BY <1>5, PromoteKeeps
<1>6. CASE ConsumeDraft(r)
  BY <1>6, ConsumeKeeps
<1>7. CASE SetStartDate(r)
  <2> DEFINE then == IF "two" \in req[r].fields THEN [req[r] EXCEPT !.at = "target"] ELSE Idle
  <2>1. req[r].at = "start" /\ Serving(r, "issue", req[r].at) /\ SetDate(r, "one", then)
    BY <1>7 DEF SetStartDate, Serving
  <2>2. then = IF "one" = "one" /\ "two" \in req[r].fields THEN [req[r] EXCEPT !.at = "target"] ELSE Idle
    OBVIOUS
  <2> HIDE DEF then
  <2> QED BY <2>1, <2>2, SetDateKeeps
<1>8. CASE SetTargetDate(r)
  <2>1. req[r].at = "target" /\ Serving(r, "issue", req[r].at) /\ SetDate(r, "two", Idle)
    BY <1>8 DEF SetTargetDate, Serving
  <2>2. Idle = IF "two" = "one" /\ "two" \in req[r].fields THEN [req[r] EXCEPT !.at = "target"] ELSE Idle
    OBVIOUS
  <2> QED BY <2>1, <2>2, SetDateKeeps
<1> QED BY <1>1, <1>2, <1>3, <1>4, <1>5, <1>6, <1>7, <1>8 DEF DraftsAndDates

-----------------------------------------------------------------------------
(* The theorems of Catalog.                                                *)

LEMMA InitInv == RecordsInit(Elsewhere) => IInv
<1> SUFFICES ASSUME RecordsInit(Elsewhere) PROVE IInv
  OBVIOUS
<1>1. /\ row \in [Rows -> Elsewhere \cup {Blank}] /\ asked = row
      /\ req = [r \in Requests |-> Idle] /\ doubtful = {} /\ slipped = {}
  BY DEF RecordsInit
<1>2. ASSUME NEW i \in Rows
      PROVE  /\ row[i] \in Real \/ row[i] = Blank
             /\ row[i].kind \notin Indexed
             /\ row[i].kind \in {"draft", "issue"} => DatesOK(row[i])
  <2>1. row[i] \in Elsewhere \cup {Blank}
    BY <1>1, <1>2
  <2>2. CASE row[i] = Blank
    <3>1. None \notin Indexed
      BY NoneIsNoKind DEF Indexed, Kinds
    <3>2. None \notin {"draft", "issue"}
      BY NoneIsNoKind DEF Kinds
    <3>3. Blank.kind = None
      BY DEF Blank
    <3> QED BY <2>2, <3>1, <3>2, <3>3
  <2>3. CASE row[i] \in Elsewhere
    <3>1. /\ row[i] \in Record /\ row[i].status = "live"
          /\ row[i].kind \in {"workspace", "names", "profile", "issue", "sub-issue"}
          /\ row[i].kind = "issue" => DatesOK(row[i])
      BY <2>3 DEF Elsewhere
    <3>2. row[i] # Blank
      BY <3>1 DEF Blank
    <3>3. row[i] \in Real
      BY <3>1, <3>2 DEF Record, Real
    <3>4. \A kind \in {"workspace", "names", "profile", "issue", "sub-issue"} :
            kind \notin Indexed /\ kind # "draft"
      BY DEF Indexed
    <3>5. row[i].kind \notin Indexed /\ row[i].kind # "draft"
      BY <3>1, <3>4
    <3> QED BY <3>1, <3>3, <3>5
  <2> QED BY <2>1, <2>2, <2>3
<1>3. \A i \in Rows : RowOK(i)
  BY <1>1, <1>2 DEF RowOK
<1>4. \A r \in Requests : ReqOK(r)
  BY <1>1 DEF ReqOK, Idle, Request, Record
<1>5. KeysDistinct /\ DatesInOrder
  BY <1>2 DEF KeysDistinct, DatesInOrder
<1> QED BY <1>1, <1>3, <1>4, <1>5 DEF IInv

LEMMA NextKeeps ==
  ASSUME IInv, [CatalogNext]_recordVars
  PROVE  Kept
<1>1. CASE UNCHANGED recordVars
  <2>1. row' = row /\ req' = req /\ asked' = asked /\ doubtful' = doubtful /\ slipped' = slipped
    BY <1>1 DEF recordVars
  <2>2. IInv'
    BY <2>1 DEF IInv, RowOK, ReqOK, Holds, Fresh, NameFree, Live, KeysDistinct, DatesInOrder
  <2> QED BY <2>1, <2>2 DEF Kept, SafeStep
<1>2. CASE CatalogNext
  <2>1. PICK r \in Requests :
          \/ Labels(r) \/ States(r) \/ Views(r) \/ Webhooks(r) \/ Tokens(r) \/ Themes(r)
          \/ SavedAnalytics(r) \/ Estimates(r) \/ Names(r) \/ UserProps(r) \/ EntityProps(r)
          \/ DraftsAndDates(r)
          \/ SubIssues(r) \/ Favorites \/ Details(r) \/ Refused(r)
    BY <1>2 DEF CatalogNext
  <2> QED BY <2>1, LabelsKeep, StatesKeep, ViewsKeep, WebhooksKeep, TokensKeep, ThemesKeep,
             SavedAnalyticsKeep, EstimatesKeep, NamesKeep, UserPropsKeep, EntityPropsKeep,
             DraftsAndDatesKeep, SubIssuesKeep, FavoritesKeep, DetailsKeep, RefusedKeeps
<1> QED BY <1>1, <1>2

\* The inductive invariant holds in every state that the handlers of these tables can reach,
\* however their statements interleave.
THEOREM Invariant == CatalogSpec => []IInv
<1>1. RecordsInit(Elsewhere) => IInv
  BY InitInv
<1>2. IInv /\ [CatalogNext]_recordVars => IInv'
  BY NextKeeps DEF Kept
<1> QED BY <1>1, <1>2, PTL DEF CatalogSpec

LEMMA IInvCatalogOK == IInv => CatalogOK
<1> SUFFICES ASSUME IInv PROVE CatalogOK
  OBVIOUS
<1>1. \A i \in Rows : row[i] \in Record /\ asked[i] \in Record
  BY Parts, RealFields DEF RowOK, Record
<1>2. \A r \in Requests : req[r] \in Request
  BY Parts DEF ReqOK
<1> QED BY <1>1, <1>2 DEF IInv, CatalogOK, RecordsOK

\* Names stay apart regardless of their case and start dates stay before target dates, for
\* every row that no overtaken or failed lookup, and no half-done bulk update, has touched; no
\* two rows ever share what a unique index covers (the create and PATCH handlers of labels,
\* states, drafts and issue dates).
THEOREM NamesAndDates == CatalogSpec => []CatalogOK
<1>1. CatalogSpec => []IInv
  BY Invariant
<1>2. IInv => CatalogOK
  BY IInvCatalogOK
<1> QED BY <1>1, <1>2, PTL

\* A PATCH leaves alone what it was not asked for: each field is as the last request that
\* asked for it left it, unless a handler has written an older value back over it.
THEOREM FieldsAreAsAsked == CatalogSpec => []AsLastAsked
<1>1. CatalogSpec => []IInv
  BY Invariant
<1>2. IInv => AsLastAsked
  BY DEF IInv, RowOK, AsLastAsked
<1> QED BY <1>1, <1>2, PTL

\* A rotated webhook secret, a block merged by the database and a deletion (of anything but
\* a theme) are never undone, however PATCHes overlap: such a field only ever changes to what
\* was last asked for it.
THEOREM SafeFromOverlaps == CatalogSpec => OverlapsKeep
<1>1. CatalogSpec => []IInv
  BY Invariant
<1>2. IInv /\ [CatalogNext]_recordVars
        => [\A i \in Rows : \A f \in SafeFields(row'[i].kind) :
              row'[i][f] # row[i][f] => row'[i][f] = asked'[i][f]]_recordVars
  BY NextKeeps DEF Kept, SafeStep
<1> QED BY <1>1, <1>2, PTL DEF CatalogSpec, OverlapsKeep

-----------------------------------------------------------------------------
(* Assets.                                                                 *)

Row == [status : {"live", "deleted"}, uploaded : BOOLEAN]
Job == [at : {"idle", "receive", "mark", "delete", "duplicate", "copy"},
        id : Assets \cup {NoAsset}, from : Assets \cup {NoAsset}, lost : BOOLEAN]
Awaited == [status |-> "live", uploaded |-> FALSE]

\* Nobody else works on the asset of g, unless it is excused.
Alone(g) == \A h \in Jobs : job[h].id = job[g].id => h = g

\* What a job knows of its asset as long as the asset is not excused.
JobOK(g) ==
  /\ job[g] \in Job
  /\ job[g].at = "idle" => job[g] = NoJob
  /\ job[g].at = "duplicate" => job[g].id = NoAsset
  /\ job[g].at \in {"receive", "mark", "delete", "copy"} => job[g].id \in Assets /\ GetAsset(job[g].id)
  /\ job[g].at \in {"duplicate", "copy"} => job[g].from \in Assets
  /\ job[g].id \in Assets \ excused =>
       /\ Alone(g)
       /\ job[g].at = "receive" => /\ asset[job[g].id] = Awaited /\ ~job[g].lost
                                    /\ file[job[g].id] = "partial"
       /\ job[g].at = "mark" /\ job[g].from = NoAsset => file[job[g].id] = "whole"
       /\ job[g].at = "copy" => asset[job[g].id] = Awaited /\ file[job[g].id] = "none"
       /\ job[g].at = "delete" => file[job[g].id] = "none"

\* What can be said of an asset that is not excused.
Leaving(a) == \E g \in Jobs : job[g].id = a /\ job[g].at = "delete"
AssetOK(a) ==
  /\ asset[a] \in Row \cup {NoRow}
  /\ file[a] \in {"none", "partial", "whole"}
  /\ asset[a].status = "none" => file[a] = "none"
  /\ a \notin excused => /\ asset[a].status = "live" /\ asset[a].uploaded
                              => Leaving(a) \/ file[a] = "whole"
                         /\ asset[a].status = "deleted" => file[a] = "none"

AInv ==
  /\ asset = [a \in Assets |-> asset[a]] /\ file = [a \in Assets |-> file[a]]
  /\ job = [g \in Jobs |-> job[g]] /\ excused \subseteq Assets
  /\ \A g \in Jobs : JobOK(g)
  /\ \A a \in Assets : AssetOK(a)

LEMMA RowStatus ==
  /\ \A x \in Row : x.status \in {"live", "deleted"} /\ x.status # "none"
  /\ NoRow.status = "none" /\ NoRow.uploaded = FALSE
  /\ Awaited \in Row /\ Awaited.status = "live" /\ Awaited.uploaded = FALSE
BY DEF Row, NoRow, Awaited

LEMMA AssetParts ==
  ASSUME AInv
  PROVE  /\ DOMAIN asset = Assets /\ DOMAIN file = Assets /\ DOMAIN job = Jobs
         /\ asset = [a \in Assets |-> asset[a]] /\ file = [a \in Assets |-> file[a]]
         /\ job = [g \in Jobs |-> job[g]]
         /\ \A a \in Assets : \/ asset[a] = NoRow /\ ~GetAsset(a)
                              \/ asset[a] \in Row /\ GetAsset(a)
         /\ \A a \in Assets : AssetOK(a)
         /\ \A g \in Jobs : JobOK(g)
         /\ excused \subseteq Assets /\ NoAsset \notin Assets
         /\ \A a \in Assets : At(a) = {} <=> \A g \in Jobs : job[g].id # a
<1>1. ASSUME NEW a \in Assets
      PROVE  \/ asset[a] = NoRow /\ ~GetAsset(a)
             \/ asset[a] \in Row /\ GetAsset(a)
  <2>1. asset[a] \in Row \cup {NoRow}
    BY DEF AInv, AssetOK
  <2>2. \A x \in Row : x.status # "none"
    BY DEF Row
  <2>3. NoRow.status = "none"
    BY DEF NoRow
  <2> QED BY <2>1, <2>2, <2>3 DEF GetAsset
<1>2. \A a \in Assets : At(a) = {} <=> \A g \in Jobs : job[g].id # a
  BY DEF At
<1> QED BY <1>1, <1>2, NoAssetIsNone DEF AInv

\* Rows are written, by no job: what the jobs know of them, and their files, still fits.
RowStep(b) ==
  /\ asset'[b] \in Row
  /\ b \notin excused' => /\ asset'[b].uploaded = asset[b].uploaded \/ file[b] = "whole"
                          /\ asset'[b].status = asset[b].status \/ asset[b] = NoRow
  /\ asset[b] = NoRow => asset'[b] = Awaited
LEMMA RowsKeep ==
  ASSUME AInv, asset' = [b \in Assets |-> asset'[b]], file' = file, job' = job,
         excused \subseteq excused', excused' \subseteq Assets,
         \A b \in Assets : asset'[b] = asset[b] \/ RowStep(b)
  PROVE  AInv'
<1>1. ASSUME NEW b \in Assets PROVE GetAsset(b) => GetAsset(b)'
  BY DEF GetAsset, Row, RowStep
<1>2. ASSUME NEW g \in Jobs PROVE JobOK(g)'
  <2>1. JobOK(g)
    BY AssetParts
  <2> DEFINE a == job[g].id
  <2>2. CASE a \in Assets /\ a \notin excused'
    <3>1. job[g].at \in {"receive", "copy"} => asset'[a] = asset[a]
      <4>1. SUFFICES ASSUME job[g].at \in {"receive", "copy"}, RowStep(a) PROVE asset'[a] = asset[a]
        BY <2>2
      <4>2. asset[a] = Awaited /\ file[a] # "whole"
        BY <2>1, <2>2, <4>1 DEF JobOK
      <4>3. asset'[a] = [status |-> asset'[a].status, uploaded |-> asset'[a].uploaded]
        BY <4>1 DEF Row, RowStep
      <4>4. Awaited.status = "live" /\ Awaited.uploaded = FALSE /\ Awaited # NoRow
        BY DEF Awaited, NoRow
      <4>5. asset'[a].status = "live" /\ asset'[a].uploaded = FALSE
        BY <2>2, <4>1, <4>2, <4>4 DEF RowStep
      <4> QED BY <4>2, <4>3, <4>5 DEF Awaited
    <3> QED BY <1>1, <2>1, <2>2, <3>1 DEF JobOK, Alone
  <2>3. CASE a \notin Assets \/ a \in excused'
    BY <1>1, <2>1, <2>3 DEF JobOK, Alone
  <2> QED BY <2>2, <2>3
<1>3. ASSUME NEW b \in Assets PROVE AssetOK(b)'
  <2>1. AssetOK(b)
    BY AssetParts
  <2>2. CASE asset'[b] = asset[b]
    BY <2>1, <2>2 DEF AssetOK, Leaving
  <2>3. CASE RowStep(b)
    BY <2>1, <2>3, RowStatus DEF AssetOK, Leaving, RowStep
  <2> QED BY <2>2, <2>3
<1>4. file' = [b \in Assets |-> file'[b]] /\ job' = [g \in Jobs |-> job'[g]]
  BY DEF AInv
<1> QED BY <1>2, <1>3, <1>4 DEF AInv

LEMMA MarkedRow ==
  ASSUME NEW a \in Assets, GetAsset(a)
  PROVE  asset[a] # NoRow /\ Uploaded(a) = [asset EXCEPT ![a].uploaded = TRUE]
<1>1. GetAsset(a) = TRUE
  BY DEF GetAsset
<1>2. NoRow.status = "none"
  BY DEF NoRow
<1>3. asset[a] # NoRow
  BY <1>2 DEF GetAsset
<1> QED BY <1>1, <1>3 DEF Uploaded

LEMMA NoRowChanged ==
  [NoRow EXCEPT !.status = "live"] = Awaited /\ [NoRow EXCEPT !.uploaded = FALSE] = NoRow
<1> DEFINE Any == [status : {"none", "live", "deleted"}, uploaded : BOOLEAN]
           x == [NoRow EXCEPT !.status = "live"]
           y == [NoRow EXCEPT !.uploaded = FALSE]
<1>1. NoRow \in Any /\ NoRow.status = "none" /\ NoRow.uploaded = FALSE
  BY DEF NoRow
<1>2. x \in Any /\ x.status = "live" /\ x.uploaded = FALSE
  BY <1>1
<1>3. y \in Any /\ y.status = "none" /\ y.uploaded = FALSE
  BY <1>1
<1> HIDE DEF x, y
<1>4. x = [status |-> x.status, uploaded |-> x.uploaded]
      /\ y = [status |-> y.status, uploaded |-> y.uploaded]
  BY <1>2, <1>3
<1>5. x = Awaited /\ y = NoRow
  BY <1>2, <1>3, <1>4 DEF Awaited, NoRow
<1> QED BY <1>5 DEF x, y

LEMMA RowActionsKeep ==
  ASSUME AInv, NEW a \in Assets, CreateAsset(a) \/ MarkUploaded(a) \/ RestoreAsset(a)
  PROVE  AInv'
<1> USE AssetParts
<1>1. CASE CreateAsset(a)
  <2>0. [NoRow EXCEPT !.status = "live"] = Awaited
    BY NoRowChanged
  <2>1. /\ asset' = [asset EXCEPT ![a] = Awaited]
        /\ asset[a] = NoRow /\ file' = file /\ job' = job /\ excused' = excused
    BY <1>1, <2>0 DEF CreateAsset
  <2>2. /\ asset' = [b \in Assets |-> asset'[b]]
        /\ asset'[a] = Awaited /\ \A b \in Assets \ {a} : asset'[b] = asset[b]
    BY <2>1
  <2>3. Awaited \in Row /\ Awaited.uploaded = NoRow.uploaded
    BY DEF Awaited, Row, NoRow
  <2>4. RowStep(a)
    BY <2>1, <2>2, <2>3 DEF RowStep
  <2> QED BY <2>1, <2>2, <2>4, RowsKeep
<1>2. CASE MarkUploaded(a)
  <2>0. GetAsset(a) /\ Uploaded(a) = [asset EXCEPT ![a].uploaded = TRUE] /\ asset[a] # NoRow
    BY <1>2, MarkedRow DEF MarkUploaded
  <2>1. /\ asset' = [asset EXCEPT ![a].uploaded = TRUE]
        /\ GetAsset(a) /\ asset[a] \in Row /\ asset[a] # NoRow
        /\ file' = file /\ job' = job
        /\ excused' = IF file[a] # "whole" THEN excused \cup {a} ELSE excused
    BY <1>2, <2>0 DEF MarkUploaded, Excuse
  <2>2. /\ asset' = [b \in Assets |-> asset'[b]]
        /\ asset'[a] = [asset[a] EXCEPT !.uploaded = TRUE]
        /\ \A b \in Assets \ {a} : asset'[b] = asset[b]
    BY <2>1
  <2>3. asset'[a] \in Row /\ asset'[a].status = asset[a].status
    BY <2>1, <2>2 DEF Row
  <2>4. RowStep(a)
    BY <2>1, <2>3 DEF RowStep
  <2> QED BY <2>1, <2>2, <2>4, RowsKeep
<1>3. CASE RestoreAsset(a)
  <2>0. GetAsset(a) /\ asset[a] # NoRow
    BY <1>3, MarkedRow DEF RestoreAsset
  <2>1. /\ asset' = [asset EXCEPT ![a].status = "live"]
        /\ asset[a] \in Row /\ asset[a] # NoRow
        /\ file' = file /\ job' = job
        /\ excused' = IF asset[a].status = "deleted" THEN excused \cup {a} ELSE excused
    BY <1>3, <2>0 DEF RestoreAsset, Excuse
  <2>2. /\ asset' = [b \in Assets |-> asset'[b]]
        /\ asset'[a] = [asset[a] EXCEPT !.status = "live"]
        /\ \A b \in Assets \ {a} : asset'[b] = asset[b]
    BY <2>1
  <2>3. /\ asset'[a] \in Row /\ asset'[a].uploaded = asset[a].uploaded /\ asset'[a].status = "live"
        /\ asset[a].status \in {"live", "deleted"}
    BY <2>1, <2>2 DEF Row
  <2>4. RowStep(a)
    BY <2>1, <2>3 DEF RowStep
  <2> QED BY <2>1, <2>2, <2>4, RowsKeep
<1> QED BY <1>1, <1>2, <1>3

LEMMA BulkKeeps ==
  ASSUME AInv, NEW ids \in SUBSET Assets, Bulk(ids)
  PROVE  AInv'
<1>1. /\ asset' = [a \in Assets |-> IF a \in ids THEN [asset EXCEPT ![a].uploaded = GetAsset(a)][a]
                                  ELSE asset[a]]
      /\ excused' = excused \cup {a \in ids : file[a] # "whole"}
      /\ file' = file /\ job' = job
  BY DEF Bulk, Uploaded
<1>2. ASSUME NEW a \in Assets PROVE asset'[a] = asset[a] \/ RowStep(a)
  <2>1. CASE a \in ids
    <3>1. asset'[a] = [asset[a] EXCEPT !.uploaded = GetAsset(a)]
      BY <1>1, <2>1, AssetParts
    <3>2. CASE asset[a] = NoRow /\ ~GetAsset(a)
      <4>1. GetAsset(a) = FALSE
        BY <3>2 DEF GetAsset
      <4>2. [NoRow EXCEPT !.uploaded = FALSE] = NoRow
        BY NoRowChanged
      <4> QED BY <3>1, <3>2, <4>1, <4>2
    <3>3. CASE asset[a] \in Row /\ GetAsset(a)
      <4>0. GetAsset(a) = TRUE /\ asset[a] # NoRow
        BY <3>3, MarkedRow DEF GetAsset
      <4>1. asset'[a] \in Row /\ asset'[a].status = asset[a].status /\ asset[a] # NoRow
        BY <3>1, <3>3, <4>0 DEF Row
      <4> QED BY <1>1, <2>1, <4>1 DEF RowStep
    <3> QED BY <3>2, <3>3, AssetParts
  <2>2. CASE a \notin ids
    BY <1>1, <2>2
  <2> QED BY <2>1, <2>2
<1>3. asset' = [a \in Assets |-> asset'[a]] /\ excused \subseteq excused' /\ excused' \subseteq Assets
  BY <1>1, AssetParts
<1> QED BY <1>1, <1>2, <1>3, RowsKeep

\* A step of job g on asset a (on none when a is NoAsset): those who work on a as well are
\* excused.
JobStep(g, a) ==
  /\ asset' = [b \in Assets |-> asset'[b]] /\ file' = [b \in Assets |-> file'[b]]
  /\ job' = [h \in Jobs |-> job'[h]]
  /\ \A b \in Assets \ {a} : asset'[b] = asset[b] /\ file'[b] = file[b]
  /\ excused \subseteq excused' /\ excused' \subseteq excused \cup {a} /\ excused' \subseteq Assets
  /\ job[g].id \in {a, NoAsset} /\ job'[g].id \in {a, NoAsset}
  /\ \A h \in Jobs \ {g} :
       /\ job[h].id = a /\ a # NoAsset => a \in excused'
       /\ \/ job'[h] = job[h]
          \/ /\ job[h].id = a /\ a # NoAsset /\ job'[h] \in Job
             /\ job'[h].id = a /\ job'[h].at = job[h].at /\ job'[h].from = job[h].from
  /\ a \in Assets => GetAsset(a)'
LEMMA JobKeeps ==
  ASSUME AInv, NEW g \in Jobs, NEW a \in Assets \cup {NoAsset}, JobStep(g, a),
         JobOK(g)', a # NoAsset => AssetOK(a)'
  PROVE  AInv'
<1> USE DEF JobStep
<1>1. ASSUME NEW b \in Assets PROVE GetAsset(b) => GetAsset(b)'
  BY DEF GetAsset
<1>2. ASSUME NEW h \in Jobs, h # g PROVE JobOK(h)'
  <2>1. JobOK(h)
    BY AssetParts
  <2>2. job[h].id \in Assets \cup {NoAsset}
    BY <2>1 DEF JobOK, Job
  <2>3. CASE job[h].id = a /\ a # NoAsset
    <3>1. a \in excused' /\ a \in Assets
      BY <1>2, <2>3
    <3>2. /\ job'[h] \in Job /\ job'[h].id = a /\ job'[h].at = job[h].at /\ job'[h].from = job[h].from
      BY <1>2, <2>1, <2>3 DEF JobOK
    <3>3. job[h].at \notin {"idle", "duplicate"}
      BY <2>1, <2>3, AssetParts, <3>1 DEF JobOK, NoJob
    <3>4. GetAsset(a)'
      BY <3>1
    <3> QED BY <2>1, <3>1, <3>2, <3>3, <3>4 DEF JobOK
  <2>4. CASE job[h].id # a \/ a = NoAsset
    <3>1. job'[h] = job[h]
      BY <1>2, <2>4
    <3>2. CASE job[h].id \in Assets /\ job[h].id \notin excused'
      <4>1. job[h].id # a /\ job[h].id \notin excused /\ Alone(h)
        BY <2>1, <2>4, <3>2, AssetParts DEF JobOK
      <4>2. Alone(h)'
        <5>1. SUFFICES ASSUME NEW k \in Jobs, job'[k].id = job[h].id PROVE k = h
          BY <3>1 DEF Alone
        <5>2. k # g
          BY <3>2, <4>1, <5>1, AssetParts
        <5>3. job[k].id = job[h].id
          BY <4>1, <5>1, <5>2
        <5> QED BY <4>1, <5>3 DEF Alone
      <4>3. asset'[job[h].id] = asset[job[h].id] /\ file'[job[h].id] = file[job[h].id]
        BY <3>2, <4>1
      <4> QED BY <1>1, <2>1, <3>1, <3>2, <4>1, <4>2, <4>3 DEF JobOK
    <3>3. CASE job[h].id \notin Assets \/ job[h].id \in excused'
      BY <1>1, <2>1, <3>1, <3>3 DEF JobOK
    <3> QED BY <3>2, <3>3
  <2> QED BY <2>3, <2>4
<1>3. ASSUME NEW b \in Assets, b # a PROVE AssetOK(b)'
  <2>1. AssetOK(b) /\ b # NoAsset
    BY AssetParts
  <2>2. asset'[b] = asset[b] /\ file'[b] = file[b] /\ (b \notin excused' => b \notin excused)
    BY <1>3
  <2>3. Leaving(b) => Leaving(b)'
    <3>1. SUFFICES ASSUME NEW h \in Jobs, job[h].id = b, job[h].at = "delete" PROVE Leaving(b)'
      BY DEF Leaving
    <3>2. h # g
      BY <1>3, <2>1, <3>1
    <3>3. job'[h] = job[h]
      BY <1>3, <3>1, <3>2
    <3> QED BY <3>1, <3>3 DEF Leaving
  <2> QED BY <2>1, <2>2, <2>3 DEF AssetOK
<1>4. \A b \in Assets : AssetOK(b)'
  BY <1>3, AssetParts
<1>5. \A h \in Jobs : JobOK(h)'
  BY <1>2
<1> QED BY <1>4, <1>5 DEF AInv

LEMMA BeginReceiveKeeps ==
  ASSUME AInv, NEW g \in Jobs, NEW a \in Assets, BeginReceive(g, a)
  PROVE  AInv'
<1> DEFINE then == [NoJob EXCEPT !.at = "receive", !.id = a]
<1>1. /\ job[g] = NoJob /\ GetAsset(a) /\ asset' = asset
      /\ file' = [file EXCEPT ![a] = "partial"] /\ job' = [job EXCEPT ![g] = then]
      /\ excused' = IF asset[a].uploaded \/ asset[a].status = "deleted" \/ At(a) # {}
                    THEN excused \cup {a} ELSE excused
  BY DEF BeginReceive, Excuse
<1>2. then \in Job /\ then.at = "receive" /\ then.id = a /\ then.lost = FALSE
  BY DEF NoJob, Job
<1> HIDE DEF then
<1>3. /\ job' = [h \in Jobs |-> job'[h]] /\ job'[g] = then /\ \A h \in Jobs \ {g} : job'[h] = job[h]
      /\ file' = [b \in Assets |-> file'[b]] /\ file'[a] = "partial"
      /\ \A b \in Assets \ {a} : file'[b] = file[b]
  BY <1>1, AssetParts
<1>4. asset[a] \in Row /\ GetAsset(a)'
  BY <1>1, AssetParts DEF GetAsset
<1>5. a \notin excused' => asset[a] = Awaited /\ \A h \in Jobs : job[h].id # a
  <2>1. SUFFICES ASSUME a \notin excused' PROVE asset[a] = Awaited /\ \A h \in Jobs : job[h].id # a
    OBVIOUS
  <2>2. ~asset[a].uploaded /\ asset[a].status # "deleted" /\ At(a) = {}
    BY <1>1, <2>1
  <2>3. asset[a] = [status |-> asset[a].status, uploaded |-> asset[a].uploaded]
        /\ asset[a].status = "live" /\ asset[a].uploaded = FALSE
    BY <1>4, <2>2 DEF Row
  <2> QED BY <2>2, <2>3, AssetParts DEF Awaited
<1>6. JobOK(g)'
  <2>1. a \notin excused' => Alone(g)'
    BY <1>2, <1>3, <1>5 DEF Alone
  <2> QED BY <1>1, <1>2, <1>3, <1>4, <1>5, <2>1 DEF JobOK
<1>7. AssetOK(a)'
  <2>1. asset'[a] = asset[a] /\ asset[a].status # "none"
    BY <1>1, <1>4, RowStatus
  <2> QED BY <1>3, <1>4, <1>5, <2>1, RowStatus DEF AssetOK
<1>8. job[g].id = NoAsset
  BY <1>1 DEF NoJob
<1>9. JobStep(g, a)
  BY <1>1, <1>2, <1>3, <1>4, <1>5, <1>8, AssetParts DEF JobStep
<1> QED BY <1>6, <1>7, <1>9, JobKeeps

LEMMA ReceiveKeeps ==
  ASSUME AInv, NEW g \in Jobs, Receive(g)
  PROVE  AInv'
<1>0. PICK a : a = job[g].id
  OBVIOUS
<1> DEFINE then == [job[g] EXCEPT !.at = "mark"]
<1>1. /\ job[g].at = "receive" /\ asset' = asset /\ excused' = excused
      /\ \/ /\ file' = IF job[g].lost THEN file ELSE [file EXCEPT ![a] = "whole"]
            /\ job' = [job EXCEPT ![g] = then]
         \/ job' = [job EXCEPT ![g] = NoJob] /\ file' = file
  BY <1>0 DEF Receive
<1>2. JobOK(g) /\ a \in Assets /\ GetAsset(a) /\ job[g] \in Job /\ AssetOK(a)
  BY <1>0, <1>1, AssetParts DEF JobOK
<1>3. then \in Job /\ then.at = "mark" /\ then.id = a /\ then.from = job[g].from
  BY <1>0, <1>2 DEF Job
<1> HIDE DEF then
<1>4. /\ job' = [h \in Jobs |-> job'[h]] /\ \A h \in Jobs \ {g} : job'[h] = job[h]
      /\ file' = [b \in Assets |-> file'[b]] /\ \A b \in Assets \ {a} : file'[b] = file[b]
      /\ file'[a] \in {"whole", file[a]}
      /\ \/ job'[g] = NoJob
         \/ job'[g] = then /\ (job[g].lost \/ file'[a] = "whole")
  BY <1>1, <1>2, AssetParts
<1>5. NoJob.id = NoAsset /\ NoJob.at = "idle" /\ NoJob \in Job
  BY DEF NoJob, Job
<1>6. a \notin excused => Alone(g) /\ asset[a] = Awaited /\ ~job[g].lost
  BY <1>0, <1>1, <1>2 DEF JobOK
<1>7. GetAsset(a)'
  BY <1>1, <1>2 DEF GetAsset
<1>8. JobOK(g)'
  <2>1. CASE job'[g] = NoJob
    BY <1>5, <2>1, AssetParts DEF JobOK
  <2>2. CASE job'[g] = then /\ (job[g].lost \/ file'[a] = "whole")
    <3>1. a \notin excused => Alone(g)'
      BY <1>0, <1>3, <1>4, <1>6, <2>2 DEF Alone
    <3> QED BY <1>1, <1>2, <1>3, <1>6, <1>7, <2>2, <3>1 DEF JobOK
  <2> QED BY <1>4, <2>1, <2>2
<1>9. AssetOK(a)'
  <2>1. asset'[a] = asset[a] /\ asset[a] \in Row /\ asset[a].status # "none"
    BY <1>1, <1>2, RowStatus, AssetParts
  <2>2. file'[a] \in {"none", "partial", "whole"}
    BY <1>2, <1>4 DEF AssetOK
  <2> QED BY <1>1, <1>6, <2>1, <2>2, RowStatus DEF AssetOK
<1>10. JobStep(g, a)
  BY <1>1, <1>2, <1>3, <1>4, <1>5, <1>6, <1>7, <1>0, AssetParts DEF JobStep, Alone
<1> QED BY <1>2, <1>8, <1>9, <1>10, JobKeeps

\* The last step of a job, on its asset.
LastStep(g, a) ==
  /\ job[g].id = a /\ a \in Assets /\ file' = file
  /\ job' = [job EXCEPT ![g] = NoJob]
  /\ asset' = [b \in Assets |-> asset'[b]] /\ \A b \in Assets \ {a} : asset'[b] = asset[b]
  /\ excused \subseteq excused' /\ excused' \subseteq excused \cup {a}
LEMMA LastStepKeeps ==
  ASSUME AInv, NEW g \in Jobs, NEW a \in Assets, LastStep(g, a), GetAsset(a)', AssetOK(a)',
         a \notin excused' => Alone(g)
  PROVE  AInv'
<1>1. NoJob.id = NoAsset /\ NoJob.at = "idle" /\ NoJob \in Job
  BY DEF NoJob, Job
<1>2. /\ job' = [h \in Jobs |-> job'[h]] /\ job'[g] = NoJob /\ \A h \in Jobs \ {g} : job'[h] = job[h]
  BY AssetParts DEF LastStep
<1>3. JobOK(g)'
  BY <1>1, <1>2, AssetParts DEF JobOK
<1>4. file' = [b \in Assets |-> file'[b]] /\ excused \cup {a} \subseteq Assets
  BY AssetParts DEF LastStep, AInv
<1>5. JobStep(g, a)
  BY <1>1, <1>2, <1>4, AssetParts DEF JobStep, LastStep, Alone
<1> QED BY <1>3, <1>5, JobKeeps

LEMMA MarkKeeps ==
  ASSUME AInv, NEW g \in Jobs, MarkAssetUploaded(g)
  PROVE  AInv'
<1>1. PICK a : a = job[g].id
  OBVIOUS
<1>2. /\ job[g].at = "mark" /\ job' = [job EXCEPT ![g] = NoJob] /\ file' = file
      /\ asset' \in {Uploaded(a), asset}
      /\ excused' = IF job[g].from # NoAsset /\ file[a] # "whole" THEN excused \cup {a} ELSE excused
  BY <1>1 DEF MarkAssetUploaded, Excuse
<1>3. JobOK(g) /\ a \in Assets /\ GetAsset(a)
  BY <1>1, <1>2, AssetParts DEF JobOK
<1>4. AssetOK(a) /\ asset[a] \in Row
  BY <1>3, AssetParts
<1>5. a \notin excused' => Alone(g) /\ file[a] = "whole"
  BY <1>1, <1>2, <1>3 DEF JobOK
<1>6. Uploaded(a) = [asset EXCEPT ![a].uploaded = TRUE]
  BY <1>3, MarkedRow
<1>7. /\ asset' = [b \in Assets |-> asset'[b]] /\ \A b \in Assets \ {a} : asset'[b] = asset[b]
      /\ asset'[a] = [asset[a] EXCEPT !.uploaded = TRUE] \/ asset'[a] = asset[a]
  BY <1>2, <1>3, <1>6, AssetParts
<1>8. asset'[a] \in Row /\ asset'[a].status = asset[a].status
  BY <1>4, <1>7 DEF Row
<1>9. GetAsset(a)'
  BY <1>3, <1>8 DEF GetAsset
<1>10. AssetOK(a)'
  BY <1>2, <1>4, <1>5, <1>8 DEF AssetOK
<1>11. LastStep(g, a)
  BY <1>1, <1>2, <1>3, <1>7 DEF LastStep
<1> QED BY <1>3, <1>5, <1>9, <1>10, <1>11, LastStepKeeps

LEMMA SoftDeleteAssetKeeps ==
  ASSUME AInv, NEW g \in Jobs, SoftDeleteAsset(g)
  PROVE  AInv'
<1>1. PICK a : a = job[g].id
  OBVIOUS
<1>2. /\ job[g].at = "delete" /\ job' = [job EXCEPT ![g] = NoJob] /\ file' = file
      /\ \/ asset' = [asset EXCEPT ![a].status = "deleted"] /\ excused' = excused
         \/ asset' = asset /\ excused' = excused \cup {a}
  BY <1>1 DEF SoftDeleteAsset
<1>3. JobOK(g) /\ a \in Assets /\ GetAsset(a)
  BY <1>1, <1>2, AssetParts DEF JobOK
<1>4. AssetOK(a) /\ asset[a] \in Row
  BY <1>3, AssetParts
<1>5. a \notin excused' => Alone(g) /\ file[a] = "none"
  BY <1>1, <1>2, <1>3 DEF JobOK
<1>6. /\ asset' = [b \in Assets |-> asset'[b]] /\ \A b \in Assets \ {a} : asset'[b] = asset[b]
      /\ \/ asset'[a] = [asset[a] EXCEPT !.status = "deleted"]
         \/ asset'[a] = asset[a] /\ a \in excused'
  BY <1>2, <1>3, AssetParts
<1>7. asset'[a] \in Row /\ (asset'[a].status = "deleted" \/ a \in excused')
  BY <1>4, <1>6 DEF Row
<1>8. GetAsset(a)'
  BY <1>7 DEF GetAsset, Row
<1>9. AssetOK(a)'
  BY <1>2, <1>4, <1>5, <1>7, RowStatus DEF AssetOK
<1>10. LastStep(g, a)
  BY <1>1, <1>2, <1>3, <1>6 DEF LastStep
<1> QED BY <1>3, <1>5, <1>8, <1>9, <1>10, LastStepKeeps

LEMMA BeginDeleteKeeps ==
  ASSUME AInv, NEW g \in Jobs, NEW a \in Assets, BeginDelete(g, a)
  PROVE  AInv'
<1> DEFINE then == [NoJob EXCEPT !.at = "delete", !.id = a]
<1>1. /\ job[g] = NoJob /\ GetAsset(a) /\ asset' = asset
      /\ \/ /\ file' = [file EXCEPT ![a] = "none"]
            /\ job' = [h \in Jobs |-> IF h = g THEN then
                                      ELSE [job[h] EXCEPT !.lost = job[h].lost \/ job[h].id = a]]
            /\ excused' = IF At(a) # {} THEN excused \cup {a} ELSE excused
         \/ /\ job' = [job EXCEPT ![g] = then]
            /\ excused' = IF file[a] # "none" \/ At(a) # {} THEN excused \cup {a} ELSE excused
            /\ file' = file
  BY DEF BeginDelete, Excuse
<1>2. then \in Job /\ then.at = "delete" /\ then.id = a
  BY DEF NoJob, Job
<1> HIDE DEF then
<1>3. /\ job' = [h \in Jobs |-> job'[h]] /\ job'[g] = then
      /\ \A h \in Jobs \ {g} : \/ job'[h] = job[h]
                               \/ job'[h] = [job[h] EXCEPT !.lost = job[h].lost \/ job[h].id = a]
  BY <1>1, AssetParts
<1>4. /\ file' = [b \in Assets |-> file'[b]] /\ \A b \in Assets \ {a} : file'[b] = file[b]
      /\ file'[a] \in {"none", file[a]} /\ (a \notin excused' => file'[a] = "none")
  BY <1>1, AssetParts
<1>5. a \notin excused' => a \notin excused /\ \A h \in Jobs : job[h].id # a
  BY <1>1, AssetParts
<1>6. ASSUME NEW h \in Jobs, h # g
      PROVE  /\ job'[h].id = job[h].id /\ job'[h].at = job[h].at /\ job'[h].from = job[h].from
             /\ job'[h] \in Job /\ (job[h].id # a => job'[h] = job[h])
  <2>1. job[h] \in Job
    BY AssetParts DEF JobOK
  <2>2. CASE job'[h] = job[h]
    BY <2>1, <2>2
  <2>3. CASE job'[h] = [job[h] EXCEPT !.lost = job[h].lost \/ job[h].id = a]
    <3>1. CASE job[h].id = a
      BY <2>1, <2>3, <3>1 DEF Job
    <3>2. CASE job[h].id # a
      <4>1. job'[h] = [job[h] EXCEPT !.lost = job[h].lost]
        BY <2>1, <2>3, <3>2 DEF Job
      <4>2. job'[h] = job[h]
        BY <2>1, <4>1 DEF Job
      <4> QED BY <2>1, <4>2
    <3> QED BY <3>1, <3>2
  <2> QED BY <1>3, <1>6, <2>2, <2>3
<1>7. GetAsset(a)'
  BY <1>1 DEF GetAsset
<1>8. JobOK(g)'
  <2>1. a \notin excused' => Alone(g)'
    BY <1>2, <1>3, <1>5, <1>6 DEF Alone
  <2> QED BY <1>2, <1>3, <1>4, <1>7, <2>1 DEF JobOK
<1>9. AssetOK(a)'
  <2>1. AssetOK(a)
    BY AssetParts
  <2>2. Leaving(a)'
    BY <1>2, <1>3 DEF Leaving
  <2>3. asset'[a] = asset[a] /\ file'[a] \in {"none", "partial", "whole"}
    BY <1>1, <1>4, <2>1 DEF AssetOK
  <2> QED BY <1>4, <2>1, <2>2, <2>3 DEF AssetOK
<1>10. job[g].id = NoAsset
  BY <1>1 DEF NoJob
<1>11. asset' = [b \in Assets |-> asset'[b]] /\ \A b \in Assets : asset'[b] = asset[b]
  BY <1>1, AssetParts
<1>12. excused \subseteq excused' /\ excused' \subseteq excused \cup {a} /\ excused' \subseteq Assets
  BY <1>1, AssetParts
<1>13. JobStep(g, a)
  BY <1>2, <1>3, <1>4, <1>5, <1>6, <1>7, <1>10, <1>11, <1>12, AssetParts DEF JobStep
<1> QED BY <1>8, <1>9, <1>13, JobKeeps

LEMMA BeginDuplicateKeeps ==
  ASSUME AInv, NEW g \in Jobs, NEW a \in Assets, BeginDuplicate(g, a)
  PROVE  AInv'
<1> DEFINE then == [NoJob EXCEPT !.at = "duplicate", !.from = a]
<1>1. /\ job[g] = NoJob /\ job' = [job EXCEPT ![g] = then]
      /\ asset' = asset /\ file' = file /\ excused' = excused
  BY DEF BeginDuplicate
<1>2. then \in Job /\ then.at = "duplicate" /\ then.id = NoAsset /\ then.from = a
  BY DEF NoJob, Job
<1> HIDE DEF then
<1>3. job' = [h \in Jobs |-> job'[h]] /\ job'[g] = then /\ \A h \in Jobs \ {g} : job'[h] = job[h]
  BY <1>1, AssetParts
<1>4. JobOK(g)'
  BY <1>2, <1>3, AssetParts DEF JobOK
<1>5. job[g].id = NoAsset
  BY <1>1 DEF NoJob
<1>6. JobStep(g, NoAsset)
  BY <1>1, <1>2, <1>3, <1>5, AssetParts DEF JobStep
<1> QED BY <1>4, <1>6, JobKeeps

LEMMA BusyHasRow ==
  ASSUME AInv, NEW g \in Jobs, job[g].id \in Assets
  PROVE  GetAsset(job[g].id)
<1>1. JobOK(g) /\ job[g].id # NoAsset /\ NoJob.id = NoAsset
  BY AssetParts DEF NoJob
<1>2. job[g].at \in {"idle", "receive", "mark", "delete", "duplicate", "copy"}
  BY <1>1 DEF JobOK, Job
<1> QED BY <1>1, <1>2 DEF JobOK

LEMMA DuplicateKeeps ==
  ASSUME AInv, NEW g \in Jobs, Duplicate(g)
  PROVE  AInv'
<1>1. PICK a \in Assets :
        /\ asset[a] = NoRow /\ asset' = [asset EXCEPT ![a].status = "live"]
        /\ job' = [job EXCEPT ![g].at = "copy", ![g].id = a]
  BY DEF Duplicate
<1>2. job[g].at = "duplicate" /\ file' = file /\ excused' = excused
  BY DEF Duplicate
<1> DEFINE then == [job[g] EXCEPT !.at = "copy", !.id = a]
<1>3. JobOK(g) /\ job[g] \in Job /\ job[g].id = NoAsset /\ job[g].from \in Assets
  BY <1>2, AssetParts DEF JobOK
<1>4. then \in Job /\ then.at = "copy" /\ then.id = a /\ then.from \in Assets
  BY <1>3 DEF Job
<1>5. job' = [job EXCEPT ![g] = then]
  BY <1>1
<1> HIDE DEF then
<1>6. job' = [h \in Jobs |-> job'[h]] /\ job'[g] = then /\ \A h \in Jobs \ {g} : job'[h] = job[h]
  BY <1>5, AssetParts
<1>7. asset' = [asset EXCEPT ![a] = Awaited]
  BY <1>1, NoRowChanged
<1>8. /\ asset' = [b \in Assets |-> asset'[b]] /\ asset'[a] = Awaited
      /\ \A b \in Assets \ {a} : asset'[b] = asset[b]
  BY <1>7, AssetParts
<1>9. ~GetAsset(a) /\ a # NoAsset /\ AssetOK(a)
  BY <1>1, AssetParts DEF GetAsset, NoRow
<1>10. \A h \in Jobs : job[h].id # a
  BY <1>9, BusyHasRow
<1>11. GetAsset(a)'
  BY <1>8 DEF GetAsset, Awaited
<1>12. AssetOK(a)'
  BY <1>2, <1>8, <1>9 DEF AssetOK, Awaited, Row
<1>13. JobOK(g)'
  <2>1. Alone(g)'
    BY <1>4, <1>6, <1>10 DEF Alone
  <2>2. a \notin excused' => file[a] = "none"
    BY <1>1, <1>2, <1>9, RowStatus DEF AssetOK
  <2> QED BY <1>2, <1>4, <1>6, <1>8, <1>11, <2>1, <2>2 DEF JobOK
<1>14. JobStep(g, a)
  BY <1>2, <1>3, <1>4, <1>6, <1>8, <1>10, <1>11, AssetParts DEF JobStep
<1> QED BY <1>12, <1>13, <1>14, JobKeeps

LEMMA CopyKeeps ==
  ASSUME AInv, NEW g \in Jobs, CopyFile(g)
  PROVE  AInv'
<1>1. PICK a : a = job[g].id
  OBVIOUS
<1> DEFINE then == [job[g] EXCEPT !.at = "mark"]
<1>2. /\ job[g].at = "copy" /\ job' = [job EXCEPT ![g] = then]
      /\ asset' = asset /\ excused' = excused
      /\ \/ file' = file
         \/ file' = [file EXCEPT ![a] = file[job[g].from]]
         \/ file' = [file EXCEPT ![a] = "partial"]
  BY <1>1 DEF CopyFile
<1>3. JobOK(g) /\ job[g] \in Job /\ a \in Assets /\ GetAsset(a) /\ job[g].from \in Assets
  BY <1>1, <1>2, AssetParts DEF JobOK
<1>4. then \in Job /\ then.at = "mark" /\ then.id = a /\ then.from # NoAsset
  BY <1>1, <1>3, AssetParts DEF Job
<1> HIDE DEF then
<1>5. job' = [h \in Jobs |-> job'[h]] /\ job'[g] = then /\ \A h \in Jobs \ {g} : job'[h] = job[h]
  BY <1>2, AssetParts
<1>6. /\ file' = [b \in Assets |-> file'[b]] /\ \A b \in Assets \ {a} : file'[b] = file[b]
      /\ file'[a] \in {"none", "partial", "whole"}
  BY <1>2, <1>3, AssetParts DEF AssetOK
<1>7. a \notin excused => Alone(g) /\ asset[a] = Awaited
  BY <1>1, <1>2, <1>3 DEF JobOK
<1>8. GetAsset(a)'
  BY <1>2, <1>3 DEF GetAsset
<1>9. AssetOK(a)'
  <2>1. asset'[a] = asset[a] /\ asset[a] \in Row /\ asset[a] # NoRow
    BY <1>2, <1>3, MarkedRow, AssetParts
  <2>2. asset[a].status # "none" /\ excused' = excused
    BY <1>2, <2>1, RowStatus
  <2>3. a \notin excused => asset[a].uploaded = FALSE /\ asset[a].status = "live"
    BY <1>7, RowStatus
  <2> QED BY <1>6, <2>1, <2>2, <2>3 DEF AssetOK
<1>10. JobOK(g)'
  <2>1. a \notin excused => Alone(g)'
    BY <1>1, <1>4, <1>5, <1>7 DEF Alone
  <2> QED BY <1>2, <1>3, <1>4, <1>5, <1>8, <2>1 DEF JobOK
<1>11. asset' = [b \in Assets |-> asset'[b]]
  BY <1>2, AssetParts
<1>12. \A h \in Jobs \ {g} : job[h].id = a => a \in excused
  BY <1>1, <1>7 DEF Alone
<1>13. JobStep(g, a)
  BY <1>1, <1>2, <1>3, <1>4, <1>5, <1>6, <1>8, <1>11, <1>12, AssetParts DEF JobStep
<1> QED BY <1>3, <1>9, <1>10, <1>13, JobKeeps

LEMMA StopKeeps ==
  ASSUME AInv, ServerStops
  PROVE  AInv'
<1>1. /\ job' = [g \in Jobs |-> NoJob] /\ asset' = asset /\ file' = file
      /\ excused' = excused \cup {job[g].id : g \in {h \in Jobs : job[h].at = "delete"}}
  BY DEF ServerStops
<1>2. NoJob \in Job /\ NoJob.at = "idle" /\ NoJob.id = NoAsset
  BY DEF NoJob, Job
<1>3. ASSUME NEW g \in Jobs PROVE JobOK(g)'
  <2>1. job'[g] = NoJob
    BY <1>1
  <2> QED BY <1>2, <2>1, AssetParts DEF JobOK
<1>4. ASSUME NEW a \in Assets PROVE AssetOK(a)'
  <2>1. AssetOK(a)
    BY AssetParts
  <2>2. a \notin excused' => a \notin excused /\ ~Leaving(a)
    BY <1>1 DEF Leaving
  <2> QED BY <1>1, <2>1, <2>2 DEF AssetOK
<1>5. excused' \subseteq Assets
  BY <1>1, AssetParts DEF JobOK
<1> QED BY <1>1, <1>3, <1>4, <1>5, AssetParts DEF AInv

-----------------------------------------------------------------------------
(* The theorems of Assets.                                                 *)

LEMMA AssetsInitInv == AssetsInit => AInv
<1> SUFFICES ASSUME AssetsInit PROVE AInv
  OBVIOUS
<1>1. NoJob \in Job /\ NoJob.at = "idle" /\ NoJob.id = NoAsset
  BY DEF NoJob, Job
<1>2. ASSUME NEW g \in Jobs PROVE JobOK(g)
  <2>1. job[g] = NoJob
    BY DEF AssetsInit
  <2> QED BY <1>1, <2>1, NoAssetIsNone DEF JobOK
<1>3. ASSUME NEW a \in Assets PROVE AssetOK(a)
  BY DEF AssetsInit, AssetOK, NoRow
<1> QED BY <1>2, <1>3 DEF AssetsInit, AInv

LEMMA AssetsNextInv == AInv /\ [AssetsNext]_assetVars => AInv'
<1> SUFFICES ASSUME AInv, [AssetsNext]_assetVars PROVE AInv'
  OBVIOUS
<1>1. CASE UNCHANGED assetVars
  <2>1. asset' = asset /\ file' = file /\ job' = job /\ excused' = excused
    BY <1>1 DEF assetVars
  <2> QED BY <2>1 DEF AInv, JobOK, AssetOK, Alone, Leaving, GetAsset
<1>2. CASE AssetsNext
  BY <1>2, RowActionsKeep, BulkKeeps, BeginReceiveKeeps, ReceiveKeeps, MarkKeeps, BeginDeleteKeeps,
     SoftDeleteAssetKeeps, BeginDuplicateKeeps, DuplicateKeeps, CopyKeeps, StopKeeps DEF AssetsNext
<1> QED BY <1>1, <1>2

LEMMA AInvAssets == AInv => AssetsInv
<1> SUFFICES ASSUME AInv PROVE AssetsInv
  OBVIOUS
<1>1. AssetsOK
  <2>1. \A g \in Jobs : job[g] \in Job
    BY AssetParts DEF JobOK
  <2>2. \A a \in Assets : asset[a] \in Row \cup {NoRow} /\ file[a] \in {"none", "partial", "whole"}
    BY AssetParts DEF AssetOK
  <2> QED BY <2>1, <2>2, AssetParts DEF AssetsOK, Row, Job
<1>2. UploadsServed
  <2>1. SUFFICES ASSUME NEW a \in Assets \ excused
                 PROVE  /\ asset[a] = [status |-> "live", uploaded |-> TRUE] /\ "delete" \notin At(a)
                           => Served(a) /\ file[a] = "whole"
                        /\ asset[a].status = "deleted" => ~Served(a)
    BY DEF UploadsServed
  <2>2. AssetOK(a)
    BY AssetParts
  <2>3. Leaving(a) => "delete" \in At(a)
    BY DEF Leaving, At
  <2>4. asset[a] = [status |-> "live", uploaded |-> TRUE]
          => asset[a].status = "live" /\ asset[a].uploaded
    OBVIOUS
  <2> QED BY <2>2, <2>3, <2>4 DEF AssetOK, Served, GetAsset
<1> QED BY <1>1, <1>2 DEF AssetsInv

\* What is marked uploaded is served whole, and what is deleted is not served, for every asset
\* that no failure, overlap or caller's word has set apart, wherever the process ends (the
\* handlers of uploads, copies and deletions).
THEOREM UploadsAreServed == AssetsSpec => []AssetsInv
<1>1. AssetsInit => AInv
  BY AssetsInitInv
<1>2. AInv /\ [AssetsNext]_assetVars => AInv'
  BY AssetsNextInv
<1>3. AInv => AssetsInv
  BY AInvAssets
<1> QED BY <1>1, <1>2, <1>3, PTL DEF AssetsSpec
=============================================================================
