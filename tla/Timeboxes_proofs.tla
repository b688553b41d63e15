--------------------------- MODULE Timeboxes_proofs ---------------------------
(***************************************************************************)
(* Theorems about cycles, modules, their archives and favorites, for any   *)
(* number of each and of the requests that work on them.                   *)
(***************************************************************************)
EXTENDS Timeboxes, TLAPS

-----------------------------------------------------------------------------
(* The inductive invariant, one part per property.                         *)

Values == Dates \cup Cycles \cup (Names \X {"open", "done"})
RowsOK ==
  /\ row \in [Boxes -> Rows]
  /\ archived \subseteq {b \in Boxes : row[b] # "absent"}
  /\ dates \in [Cycles -> Dates]
  /\ status \in [Modules -> {"open", "done"}]
  /\ name \in [Modules -> Names]
  /\ inside \subseteq Boxes \X Issues
  /\ favorites \subseteq Users \X Boxes /\ late \subseteq favorites
  /\ now \in Int
  /\ doubtful \subseteq Boxes /\ unsure \subseteq Boxes /\ drained \subseteq Cycles

RequestsOK == req \in [Requests -> [at : Steps, box : Boxes \cup {None}, val : Values,
                                    todo : SUBSET Issues, stale : BOOLEAN]]

\* Only checks are about boxes that do not exist, and each request carries what its next
\* statement needs.
Sound(r) ==
  /\ ValueAt(r)
  /\ req[r].at \notin {"idle", "checked", "insert"} =>
       req[r].box \in Boxes /\ row[req[r].box] # "absent"
  /\ req[r].at = "checked" => req[r].val # None
  /\ req[r].at = "transfer" => req[r].box \in Cycles
  /\ req[r].at = "remove" => req[r].box \in Modules
AllSound == \A r \in Requests : Sound(r)

\* A request about to insert a module, and told of no write, has a free name.
NameFree(r) == req[r].at = "insert" /\ ~req[r].stale =>
  \A m \in (Modules \cap Present) \ unsure : Folded[name[m]] # Folded[req[r].val[1]]
NamesOK == NamesDistinct /\ \A r \in Requests : NameFree(r)

\* A request that has checked its dates, and was told of no write, has free days.
DaysFree(r) == req[r].at = "checked" /\ ~req[r].stale =>
  \A c \in (Cycles \cap Present) \ unsure :
    ~Overlap(dates[c], <<Day(req[r].val[1]), Day(req[r].val[2])>>)
OverlapsOK == OverlapsExplained /\ \A r \in Requests : DaysFree(r)

\* Nobody is bringing an issue into a cycle that counts as drained.
DrainsOK == TransferDrains /\ \A c \in drained : Filling(c) = {}

\* A box that is archived, or about to be, is over unless there is a doubt, and there is
\* one as long as somebody is about to write it.
OpenOver == \A b \in Open \cap Present : Over(b) \/ b \in doubtful
WritersDoubted == \A r \in Requests : req[r].at = "write" /\ req[r].box \in Open => req[r].box \in doubtful
ArchiveOK == OpenOver /\ WritersDoubted

IInv == /\ RowsOK /\ RequestsOK /\ AllSound
        /\ NamesOK /\ OverlapsOK /\ DrainsOK /\ ArchivedNotFavorite /\ ArchiveOK

-----------------------------------------------------------------------------
(* What a step of the requests in R leaves alone.                          *)

Waits(q) == /\ req'[q].at = req[q].at /\ req'[q].box = req[q].box /\ req'[q].val = req[q].val
            /\ req[q].stale => req'[q].stale
Others(R) == /\ R \subseteq Requests /\ RequestsOK'
             /\ \A q \in Requests \ R : Waits(q)

\* A row is inserted once and deleted once.
RowsAge == \A b \in Boxes : row[b] # "absent" =>
             row'[b] # "absent" /\ (row'[b] = "present" => row[b] = "present")

\* One definition per part of the invariant: what the step may not touch, and what it must
\* see to in the requests of R.
RowsFrame(R) == RowsOK' /\ RowsAge /\ Others(R) /\ \A q \in R : Sound(q)'

SureModule(m) == m \in Modules /\ row[m] = "present" /\ m \notin unsure
NamesFrame(R) == /\ \A m \in Modules : SureModule(m)' => SureModule(m) /\ name'[m] = name[m]
                 /\ \A q \in R : NameFree(q)'

SureCycle(c) == c \in Cycles /\ row[c] = "present" /\ c \notin unsure
DatesFrame(R) == /\ \A c \in Cycles : SureCycle(c)' => SureCycle(c) /\ dates'[c] = dates[c]
                 /\ \A q \in R : DaysFree(q)'

DrainsFrame(R) == \A c \in drained' : /\ c \in drained /\ IssuesIn(c)' \subseteq IssuesIn(c)
                                      /\ \A q \in R : q \notin Filling(c)'

Kept(f) == f \in favorites \ late /\ f[2] \in archived
FavoritesFrame(R) == /\ \A f \in favorites' : Kept(f)' => Kept(f)
                     /\ \A q \in R : req[q].at # "unfavorite"

ArchivesOver(q) == req[q].at = "archive" => Over(req[q].box)
WritesOutside(q) == req[q].at = "write" => req[q].box \notin archived
ArchiveFrame(R) == /\ archived' \subseteq Open
                   /\ \A b \in Open : Over(b) => Over(b)' \/ b \in doubtful
                   /\ \A q \in R : ArchivesOver(q)' /\ WritesOutside(q)'
                   /\ Doubt

LEMMA SoundAlone ==
  ASSUME IInv, NEW R, RowsFrame(R)
  PROVE  AllSound'
<1> SUFFICES ASSUME NEW q \in Requests, q \notin R PROVE Sound(q)'
  BY DEF AllSound, RowsFrame
<1>1. Waits(q) /\ Sound(q) /\ RowsAge
  BY DEF RowsFrame, Others, IInv, AllSound
<1>2. ValueAt(q)'
  BY <1>1 DEF Waits, Sound, ValueAt, Steps, Dates
<1> QED BY <1>1, <1>2 DEF Sound, Waits, RowsAge

LEMMA NamesAlone ==
  ASSUME IInv, NEW R, Others(R), NamesFrame(R)
  PROVE  NamesOK'
<1>1. NamesOK /\ \A q \in Requests : NameFree(q)
  BY DEF IInv, NamesOK
<1>2. NamesDistinct'
  <2> SUFFICES ASSUME NEW m \in Modules, NEW k \in Modules, SureModule(m)', SureModule(k)',
                      Folded[name'[m]] = Folded[name'[k]]
               PROVE  m = k
    BY DEF NamesDistinct, SureModule, Present
  <2>1. SureModule(m) /\ SureModule(k) /\ name'[m] = name[m] /\ name'[k] = name[k]
    BY DEF NamesFrame
  <2> QED BY <1>1, <2>1 DEF NamesOK, NamesDistinct, SureModule, Present, Boxes
<1>3. ASSUME NEW q \in Requests, q \notin R PROVE NameFree(q)'
  <2> SUFFICES ASSUME req'[q].at = "insert", ~req'[q].stale, NEW m \in Modules, SureModule(m)'
               PROVE  Folded[name'[m]] # Folded[req'[q].val[1]]
    BY DEF NameFree, SureModule, Present
  <2>1. SureModule(m) /\ name'[m] = name[m] /\ Waits(q)
    BY <1>3 DEF NamesFrame, Others
  <2> QED BY <1>1, <2>1 DEF NameFree, SureModule, Present, Boxes, Waits
<1> QED BY <1>2, <1>3 DEF NamesOK, NamesFrame

LEMMA DatesAlone ==
  ASSUME IInv, NEW R, Others(R), DatesFrame(R)
  PROVE  OverlapsOK'
<1>1. OverlapsExplained /\ \A q \in Requests : DaysFree(q)
  BY DEF IInv, OverlapsOK
<1>2. OverlapsExplained'
  <2> SUFFICES ASSUME NEW b \in Cycles, NEW c \in Cycles, SureCycle(b)', SureCycle(c)', b # c,
                      Overlap(dates'[b], dates'[c])
               PROVE  Day(dates'[b][2]) < dates'[c][1] \/ Day(dates'[c][2]) < dates'[b][1]
    BY DEF OverlapsExplained, SureCycle, Present, Overlap
  <2>1. SureCycle(b) /\ SureCycle(c) /\ dates'[b] = dates[b] /\ dates'[c] = dates[c]
    BY DEF DatesFrame
  <2>2. b \in (Cycles \cap Present) \ unsure /\ c \in (Cycles \cap Present) \ unsure
    BY <2>1 DEF SureCycle, Present, Boxes
  <2> QED BY <1>1, <2>1, <2>2 DEF OverlapsExplained
<1>3. ASSUME NEW q \in Requests, q \notin R PROVE DaysFree(q)'
  <2> SUFFICES ASSUME req'[q].at = "checked", ~req'[q].stale, NEW c \in Cycles, SureCycle(c)'
               PROVE  ~Overlap(dates'[c], <<Day(req'[q].val[1]), Day(req'[q].val[2])>>)
    BY DEF DaysFree, SureCycle, Present, Overlap
  <2>1. SureCycle(c) /\ dates'[c] = dates[c] /\ Waits(q)
    BY <1>3 DEF DatesFrame, Others
  <2>2. c \in (Cycles \cap Present) \ unsure
    BY <2>1 DEF SureCycle, Present, Boxes
  <2> QED BY <1>1, <2>1, <2>2 DEF DaysFree, Waits
<1> QED BY <1>2, <1>3 DEF OverlapsOK, DatesFrame

LEMMA DrainsAlone ==
  ASSUME IInv, NEW R, Others(R), DrainsFrame(R)
  PROVE  DrainsOK'
<1> SUFFICES ASSUME NEW c \in drained' PROVE IssuesIn(c)' = {} /\ Filling(c)' = {}
  BY DEF DrainsOK, TransferDrains
<1>1. c \in drained /\ IssuesIn(c) = {} /\ Filling(c) = {}
  BY DEF DrainsFrame, IInv, DrainsOK, TransferDrains
<1>2. IssuesIn(c)' = {}
  BY <1>1 DEF DrainsFrame
<1>3. \A q \in Requests : q \notin Filling(c)'
  BY <1>1 DEF DrainsFrame, Others, Waits, Filling
<1> QED BY <1>2, <1>3 DEF Filling

LEMMA FavoritesAlone ==
  ASSUME IInv, NEW R, Others(R), FavoritesFrame(R)
  PROVE  ArchivedNotFavorite'
<1> SUFFICES ASSUME NEW f \in favorites', Kept(f)'
             PROVE  \E q \in Requests : req'[q].at = "unfavorite" /\ req'[q].box = f[2]
  BY DEF ArchivedNotFavorite, Kept
<1>1. PICK q \in Requests : req[q].at = "unfavorite" /\ req[q].box = f[2]
  BY DEF FavoritesFrame, Kept, IInv, ArchivedNotFavorite
<1> QED BY <1>1 DEF FavoritesFrame, Others, Waits

LEMMA ArchiveAlone ==
  ASSUME IInv, NEW R, RowsFrame(R), ArchiveFrame(R)
  PROVE  ArchiveOK'
<1>1. ASSUME NEW q \in Requests, req'[q].at = "write", req'[q].box \in Open'
      PROVE  req'[q].box \in doubtful'
  <2> DEFINE b == req'[q].box
  <2>1. b \in Boxes
    BY <1>1, SoundAlone DEF AllSound, Sound
  <2>2. doubtful' = (doubtful \cup Contended') \cap Open'
    BY DEF ArchiveFrame, Doubt
  <2>3. CASE \E p \in Requests : req'[p].at = "archive" /\ req'[p].box = b
    BY <1>1, <2>1, <2>2, <2>3 DEF Contended
  <2>4. CASE ~\E p \in Requests : req'[p].at = "archive" /\ req'[p].box = b
    <3>1. b \in archived'
      BY <1>1, <2>4 DEF Open
    <3>2. q \notin R /\ b \in Open
      BY <1>1, <3>1 DEF ArchiveFrame, WritesOutside
    <3>3. Waits(q)
      BY <3>2 DEF RowsFrame, Others
    <3>4. b \in doubtful
      BY <1>1, <3>2, <3>3 DEF IInv, ArchiveOK, WritersDoubted, Waits
    <3> QED BY <1>1, <2>2, <3>4
  <2> QED BY <2>3, <2>4
<1>2. ASSUME NEW b \in (Open \cap Present)'
      PROVE  Over(b)' \/ b \in doubtful'
  <2>1. doubtful' = (doubtful \cup Contended') \cap Open'
    BY DEF ArchiveFrame, Doubt
  <2>2. CASE b \in Open
    <3>1. row[b] # "absent" /\ b \in Boxes
      BY <2>2, <1>2 DEF IInv, RowsOK, AllSound, Sound, Open, Present
    <3>2. Over(b) \/ b \in doubtful
      BY <1>2, <2>2, <3>1 DEF RowsFrame, RowsAge, Present, IInv, ArchiveOK, OpenOver
    <3> QED BY <1>2, <2>1, <2>2, <3>2 DEF ArchiveFrame
  <2>3. CASE b \notin Open
    <3>1. PICK q \in Requests : req'[q].at = "archive" /\ req'[q].box = b
      BY <1>2, <2>3 DEF Open, ArchiveFrame
    <3>2. q \in R
      BY <2>3, <3>1 DEF RowsFrame, Others, Waits, Open
    <3>3. ArchivesOver(q)'
      BY <3>2 DEF ArchiveFrame
    <3> QED BY <3>1, <3>3 DEF ArchivesOver
  <2> QED BY <2>2, <2>3
<1> QED BY <1>1, <1>2 DEF ArchiveOK, OpenOver, WritersDoubted

\* A step that disturbs no part of the invariant.
LEMMA Framed ==
  ASSUME IInv, NEW R, RowsFrame(R), NamesFrame(R), DatesFrame(R), DrainsFrame(R),
         FavoritesFrame(R), ArchiveFrame(R)
  PROVE  IInv'
<1>1. Others(R) /\ RowsOK' /\ RequestsOK'
  BY DEF RowsFrame, Others
<1> QED BY <1>1, SoundAlone, NamesAlone, DatesAlone, DrainsAlone, FavoritesAlone, ArchiveAlone
           DEF IInv

-----------------------------------------------------------------------------
(* A request begins.                                                       *)

LEMMA IdleIs ==
  Idle.at = "idle" /\ Idle.box = None /\ Idle.val = None /\ Idle.todo = {} /\ Idle.stale = FALSE
BY DEF Idle

LEMMA SameOver ==
  ASSUME IInv, UNCHANGED <<rows, now>>, NEW b
  PROVE  Over(b)' = Over(b)
BY DEF Over, rows

\* What the first step of r leaves behind, in its own words.
Begun(r, step, b, val, is, old) ==
  /\ req[r] = Idle
  /\ req' = [req EXCEPT ![r] = [at |-> step, box |-> b, val |-> val, todo |-> is, stale |-> old]]
  /\ UNCHANGED <<rows, now, unsure, late>>

LEMMA BegunFrame ==
  ASSUME IInv, Doubt,
         NEW r \in Requests, NEW step \in Steps \ {"unfavorite"}, NEW b \in Boxes \cup {None},
         NEW val \in Values, NEW is \in SUBSET Issues, NEW old \in BOOLEAN,
         Begun(r, step, b, val, is, old),
         Sound(r)', NameFree(r)', DaysFree(r)',
         drained' \subseteq drained, \A c \in drained' : r \notin Filling(c)',
         step = "archive" => Over(b), step = "write" => b \notin archived
  PROVE  IInv'
<1>1. /\ req'[r].at = step /\ req'[r].box = b /\ req'[r].val = val /\ req'[r].stale = old
      /\ \A q \in Requests \ {r} : req'[q] = req[q]
  BY DEF Begun, IInv, RequestsOK
<1>2. RequestsOK'
  <2>1. [at |-> step, box |-> b, val |-> val, todo |-> is, stale |-> old]
          \in [at : Steps, box : Boxes \cup {None}, val : Values, todo : SUBSET Issues,
               stale : BOOLEAN]
    OBVIOUS
  <2>2. RequestsOK /\ Boxes' = Boxes
    BY DEF IInv, Boxes
  <2> QED BY <2>1, <2>2 DEF Begun, RequestsOK, Values, Steps
<1>3. Others({r})
  BY <1>1, <1>2 DEF Others, Waits
<1>4. /\ row' = row /\ archived' = archived /\ dates' = dates /\ status' = status
      /\ name' = name /\ inside' = inside /\ favorites' = favorites
      /\ now' = now /\ unsure' = unsure /\ late' = late
  BY DEF Begun, rows
<1>5. RowsOK'
  <2>1. doubtful' \subseteq Boxes
    BY DEF Doubt, Contended, IInv, RowsOK
  <2> QED BY <1>4, <2>1 DEF RowsOK, IInv, Boxes
<1>6. RowsFrame({r})
  BY <1>3, <1>4, <1>5 DEF RowsFrame, RowsAge
<1>7. NamesFrame({r}) /\ DatesFrame({r})
  BY <1>4 DEF NamesFrame, DatesFrame, SureModule, SureCycle
<1>8. DrainsFrame({r})
  BY <1>4 DEF DrainsFrame, IssuesIn
<1>9. FavoritesFrame({r})
  BY <1>4, IdleIs DEF FavoritesFrame, Kept, Begun
<1>10. ArchiveFrame({r})
  BY <1>1, <1>4, SameOver DEF ArchiveFrame, ArchivesOver, WritesOutside, Open, Begun
<1> QED BY <1>6, <1>7, <1>8, <1>9, <1>10, Framed

\* A first step other than a check, and what its request is sound for.
LEMMA BegunPlain ==
  ASSUME IInv, Doubt, NEW r \in Requests, NEW step \in {"write", "delete", "add", "remove", "archive"},
         NEW b \in Boxes, NEW val \in Values, NEW is \in SUBSET Issues,
         Begun(r, step, b, val, is, FALSE),
         row[b] # "absent",
         step \in {"delete", "add", "remove", "archive"} => val = None,
         step = "write" => IF b \in Cycles THEN val \in Dates ELSE val \in Names \X {"open", "done"},
         step = "remove" => b \in Modules,
         drained' \subseteq drained, step = "add" => b \notin drained',
         step = "archive" => Over(b), step = "write" => b \notin archived
  PROVE  IInv'
<1>1. req'[r].at = step /\ req'[r].box = b /\ req'[r].val = val /\ row' = row
  BY DEF Begun, IInv, RequestsOK, rows
<1>2. ValueAt(r)'
  BY <1>1 DEF ValueAt
<1>3. Sound(r)'
  BY <1>1, <1>2 DEF Sound
<1>4. NameFree(r)' /\ DaysFree(r)'
  BY <1>1 DEF NameFree, DaysFree
<1>5. \A c \in drained' : r \notin Filling(c)'
  BY <1>1 DEF Filling
<1>6. step \in Steps \ {"unfavorite"} /\ b \in Boxes \cup {None} /\ FALSE \in BOOLEAN
  BY DEF Steps
<1> QED BY <1>3, <1>4, <1>5, <1>6, BegunFrame

LEMMA NoneIsValue == None \in Values /\ {} \in SUBSET Issues
BY DEF Values, Dates

LEMMA ParseIsDates ==
  ASSUME NEW start, NEW end, NEW d \in ParseDatePair(start, end)
  PROVE  d \in Dates
BY DEF ParseDatePair

LEMMA BeginUpdateCycleKeeps ==
  ASSUME IInv, Doubt, UNCHANGED now, NEW r \in Requests, NEW c \in Cycles,
         NEW start, NEW end, BeginUpdateCycle(r, c, start, end)
  PROVE  IInv'
<1>1. PICK d \in {dates[c]} \cup ParseDatePair(start, end) : Begin(r, "write", c, d, {})
  BY DEF BeginUpdateCycle
<1>2. d \in Dates /\ d \in Values
  BY ParseIsDates DEF IInv, RowsOK, Values
<1>3. Begun(r, "write", c, d, {}, FALSE) /\ drained' = drained
  BY <1>1 DEF BeginUpdateCycle, Begin, Begun
<1>4. c \in Boxes /\ row[c] # "absent" /\ c \notin archived
  BY DEF BeginUpdateCycle, GetCycle, Present, Boxes
<1> QED BY <1>2, <1>3, <1>4, NoneIsValue, BegunPlain

LEMMA BeginDestroyKeeps ==
  ASSUME IInv, Doubt, UNCHANGED now, NEW r \in Requests, NEW b \in Boxes,
         BeginDestroyCycle(r, b) \/ BeginDestroyModule(r, b)
  PROVE  IInv'
<1>1. Begun(r, "delete", b, None, {}, FALSE) /\ drained' = drained
  BY DEF BeginDestroyCycle, BeginDestroyModule, Begin, Begun
<1>2. row[b] # "absent"
  BY DEF BeginDestroyCycle, BeginDestroyModule, GetCycle, GetModule, Present
<1> QED BY <1>1, <1>2, NoneIsValue, BegunPlain

LEMMA BeginAddKeeps ==
  ASSUME IInv, Doubt, UNCHANGED now, NEW r \in Requests, NEW b \in Boxes, NEW is \in SUBSET Issues,
         (b \in Cycles /\ BeginAddCycleIssues(r, b, is)) \/ (b \in Modules /\ BeginAddModuleIssues(r, b, is))
  PROVE  IInv'
<1>1. Begun(r, "add", b, None, is, FALSE)
  BY DEF BeginAddCycleIssues, BeginAddModuleIssues, Begin, Begun
<1>2. row[b] # "absent"
  BY DEF BeginAddCycleIssues, BeginAddModuleIssues, GetCycle, GetModule, Present
<1>3. drained' \subseteq drained /\ b \notin drained'
  BY BoxSets DEF BeginAddCycleIssues, BeginAddModuleIssues, IInv, RowsOK
<1> QED BY <1>1, <1>2, <1>3, NoneIsValue, BegunPlain

LEMMA BeginRemoveIssueKeeps ==
  ASSUME IInv, Doubt, UNCHANGED now, NEW r \in Requests, NEW m \in Modules, NEW i \in Issues,
         BeginRemoveIssue(r, m, i)
  PROVE  IInv'
<1>1. Begun(r, "remove", m, None, {i}, FALSE) /\ drained' = drained /\ m \in Boxes
  BY DEF BeginRemoveIssue, Begin, Begun, Boxes
<1>2. row[m] # "absent"
  BY DEF BeginRemoveIssue, GetModule, Present
<1>3. {i} \in SUBSET Issues
  OBVIOUS
<1> QED BY <1>1, <1>2, <1>3, NoneIsValue, BegunPlain

LEMMA ApplyUpdateKeeps ==
  ASSUME IInv, Doubt, UNCHANGED now, NEW r \in Requests, NEW m \in Modules,
         NEW n \in Names, NEW s \in {"open", "done"}, ApplyUpdate(r, m, n, s)
  PROVE  IInv'
<1>1. Begun(r, "write", m, <<n, s>>, {}, FALSE) /\ drained' = drained /\ m \in Boxes
  BY DEF ApplyUpdate, Begin, Begun, Boxes
<1>2. row[m] # "absent" /\ m \notin archived /\ m \notin Cycles
  BY BoxSets DEF ApplyUpdate, GetModule, Present
<1>3. <<n, s>> \in Names \X {"open", "done"} /\ <<n, s>> \in Values
  BY DEF Values
<1> QED BY <1>1, <1>2, <1>3, NoneIsValue, BegunPlain

LEMMA BeginArchiveKeeps ==
  ASSUME IInv, Doubt, UNCHANGED now, NEW r \in Requests, NEW b \in Boxes,
         BeginArchiveCycle(r, b) \/ BeginArchiveModule(r, b)
  PROVE  IInv'
<1>1. Begun(r, "archive", b, None, {}, FALSE) /\ drained' = drained
  BY DEF BeginArchiveCycle, BeginArchiveModule, Begin, Begun
<1>2. row[b] # "absent"
  BY DEF BeginArchiveCycle, BeginArchiveModule, Present
<1>3. Over(b)
  BY BoxSets DEF BeginArchiveCycle, BeginArchiveModule, Over
<1> QED BY <1>1, <1>2, <1>3, NoneIsValue, BegunPlain

LEMMA BeginTransferKeeps ==
  ASSUME IInv, Doubt, UNCHANGED now, NEW r \in Requests, NEW c \in Cycles, NEW target \in Cycles,
         BeginTransfer(r, c, target)
  PROVE  IInv'
<1>1. Begun(r, "transfer", c, target, {}, FALSE) /\ drained' = drained \ {target}
  BY DEF BeginTransfer, Begin, Begun
<1>2. row[c] # "absent" /\ c \in Boxes
  BY DEF BeginTransfer, GetCycle, Present, Boxes
<1>3. req'[r].at = "transfer" /\ req'[r].box = c /\ req'[r].val = target /\ row' = row
  BY <1>1 DEF Begun, IInv, RequestsOK, rows
<1>4. ValueAt(r)'
  BY <1>3 DEF ValueAt
<1>5. Sound(r)' /\ NameFree(r)' /\ DaysFree(r)'
  BY <1>2, <1>3, <1>4 DEF Sound, NameFree, DaysFree
<1>6. \A k \in drained' : r \notin Filling(k)'
  BY <1>1, <1>3 DEF Filling
<1>7. "transfer" \in Steps \ {"unfavorite"} /\ target \in Values
  BY DEF Steps, Values
<1> QED BY <1>1, <1>2, <1>5, <1>6, <1>7, BegunFrame

LEMMA DateCheckKeeps ==
  ASSUME IInv, Doubt, UNCHANGED now, NEW r \in Requests, NEW d \in Dates, DateCheck(r, d)
  PROVE  IInv'
<1>1. Begun(r, "checked", None, d, {}, FALSE) /\ drained' = drained
  BY DEF DateCheck, Begin, Begun
<1>2. /\ req'[r].at = "checked" /\ req'[r].val = d
      /\ row' = row /\ dates' = dates /\ unsure' = unsure
  BY <1>1 DEF Begun, IInv, RequestsOK, rows
<1>3. ValueAt(r)'
  BY <1>2 DEF ValueAt, Dates
<1>4. Sound(r)' /\ NameFree(r)'
  BY <1>2, <1>3 DEF Sound, NameFree, DateCheck
<1>5. DaysFree(r)'
  BY <1>2 DEF DaysFree, DateCheck, CountOverlappingCycles, Present, Boxes, Overlap
<1>6. \A c \in drained' : r \notin Filling(c)'
  BY <1>2 DEF Filling
<1>7. "checked" \in Steps \ {"unfavorite"} /\ d \in Values
  BY DEF Steps, Values
<1> QED BY <1>1, <1>4, <1>5, <1>6, <1>7, NoneIsValue, BegunFrame

LEMMA BeginCreateModuleKeeps ==
  ASSUME IInv, Doubt, UNCHANGED now, NEW r \in Requests, NEW n \in Names, NEW s \in {"open", "done"},
         BeginCreateModule(r, n, s) \/ NameLookupFails(r, n, s)
  PROVE  IInv'
<1>1. PICK old \in BOOLEAN : /\ Begun(r, "insert", None, <<n, s>>, {}, old)
                             /\ old \/ ~ModuleNameExists(n)
  <2>1. CASE BeginCreateModule(r, n, s)
    BY <2>1 DEF BeginCreateModule, Begin, Begun
  <2>2. CASE NameLookupFails(r, n, s)
    BY <2>2 DEF NameLookupFails, Begun
  <2> QED BY <2>1, <2>2
<1>2. drained' = drained
  BY DEF BeginCreateModule, NameLookupFails
<1>3. /\ req'[r].at = "insert" /\ req'[r].val = <<n, s>> /\ req'[r].stale = old
      /\ row' = row /\ name' = name /\ unsure' = unsure
  <2>1. req'[r] = [at |-> "insert", box |-> None, val |-> <<n, s>>, todo |-> {}, stale |-> old]
    BY <1>1 DEF Begun, IInv, RequestsOK
  <2>2. row' = row /\ name' = name /\ unsure' = unsure
    BY <1>1 DEF Begun, rows
  <2> QED BY <2>1, <2>2
<1>4. <<n, s>> \in Names \X {"open", "done"} /\ <<n, s>> \in Values /\ <<n, s>>[1] = n
  BY DEF Values
<1>5. ValueAt(r)'
  BY <1>3, <1>4 DEF ValueAt
<1>6. Sound(r)' /\ DaysFree(r)'
  BY <1>3, <1>5 DEF Sound, DaysFree
<1>7. NameFree(r)'
  BY <1>1, <1>3, <1>4 DEF NameFree, ModuleNameExists, Present, Boxes
<1>8. \A c \in drained' : r \notin Filling(c)'
  BY <1>3 DEF Filling
<1>9. "insert" \in Steps \ {"unfavorite"} /\ drained' \subseteq drained
  BY <1>2 DEF Steps
<1> QED BY <1>1, <1>4, <1>6, <1>7, <1>8, <1>9, NoneIsValue, BegunFrame

-----------------------------------------------------------------------------
(* Issues go in and out.                                                   *)

\* r returns or goes on with fewer issues left to add; nobody else moves.
Goes(r) == /\ RequestsOK'
           /\ \A q \in Requests \ {r} : req'[q] = req[q]
           /\ \/ req'[r] = Idle
              \/ /\ req[r].at = "add" /\ req'[r].at = "add" /\ req'[r].box = req[r].box
                 /\ req'[r].val = req[r].val

LEMMA ReturnGoes ==
  ASSUME IInv, NEW r \in Requests, Return(r)
  PROVE  Goes(r) /\ req'[r] = Idle
<1>1. Idle \in [at : Steps, box : Boxes \cup {None}, val : Values, todo : SUBSET Issues,
                stale : BOOLEAN]
  BY NoneIsValue DEF Idle, Steps
<1>2. RequestsOK'
  BY <1>1 DEF IInv, RequestsOK, Return, Boxes, Steps, Values
<1>3. req'[r] = Idle /\ \A q \in Requests \ {r} : req'[q] = req[q]
  BY DEF IInv, RequestsOK, Return
<1> QED BY <1>2, <1>3 DEF Goes

LEMMA DoneWithGoes ==
  ASSUME IInv, NEW r \in Requests, NEW i, req[r].at = "add", DoneWith(r, i)
  PROVE  Goes(r)
<1>1. CASE Return(r)
  BY <1>1, ReturnGoes
<1>2. CASE req' = [req EXCEPT ![r].todo = @ \ {i}]
  <2>1. RequestsOK'
    BY <1>2 DEF IInv, RequestsOK, Boxes
  <2>2. req'[r].at = req[r].at /\ req'[r].box = req[r].box /\ req'[r].val = req[r].val
    BY <1>2 DEF IInv, RequestsOK
  <2>3. \A q \in Requests \ {r} : req'[q] = req[q]
    BY <1>2 DEF IInv, RequestsOK
  <2> QED BY <2>1, <2>2, <2>3 DEF Goes
<1> QED BY <1>1, <1>2 DEF DoneWith

\* Such a step cares for everything about its request.
LEMMA GoesSound ==
  ASSUME IInv, NEW r \in Requests, Goes(r), RowsAge
  PROVE  /\ Others({r}) /\ Sound(r)' /\ NameFree(r)' /\ DaysFree(r)'
         /\ ArchivesOver(r)' /\ WritesOutside(r)'
         /\ \A c : r \in Filling(c)' => r \in Filling(c)
<1>1. Others({r})
  BY DEF Goes, Others, Waits
<1>2. CASE req'[r] = Idle
  <2>1. /\ req'[r].at = "idle" /\ req'[r].val = None
    BY <1>2, IdleIs
  <2>2. ValueAt(r)'
    BY <2>1 DEF ValueAt
  <2> QED BY <1>1, <2>1, <2>2 DEF Sound, NameFree, DaysFree, ArchivesOver, WritesOutside, Filling
<1>3. CASE /\ req[r].at = "add" /\ req'[r].at = "add" /\ req'[r].box = req[r].box
           /\ req'[r].val = req[r].val
  <2>1. Sound(r) /\ ValueAt(r)
    BY DEF IInv, AllSound, Sound
  <2>2. ValueAt(r)'
    BY <1>3, <2>1 DEF ValueAt
  <2>3. Sound(r)'
    BY <1>3, <2>1, <2>2 DEF Sound, RowsAge
  <2> QED BY <1>1, <1>3, <2>3 DEF NameFree, DaysFree, ArchivesOver, WritesOutside, Filling
<1> QED BY <1>2, <1>3 DEF Goes

LEMMA DoubtOK ==
  ASSUME IInv, Doubt
  PROVE  doubtful' \subseteq Boxes
BY DEF Doubt, Contended, IInv, RowsOK

LEMMA NoAging ==
  ASSUME row' = row
  PROVE  RowsAge
BY DEF RowsAge

\* Steps that change, of the rows, those of the issues in the boxes.
LEMMA IssuesFrame ==
  ASSUME IInv, Doubt, NEW r \in Requests, Goes(r), req[r].at # "unfavorite",
         UNCHANGED <<row, archived, dates, status, name, favorites, now, unsure, late>>,
         inside' \subseteq Boxes \X Issues, drained' \subseteq Cycles,
         DrainsOK'
  PROVE  IInv'
<1>1. /\ row' = row /\ archived' = archived /\ dates' = dates /\ status' = status
      /\ name' = name /\ favorites' = favorites
      /\ now' = now /\ unsure' = unsure /\ late' = late
  OBVIOUS
<1>2. RowsAge
  BY <1>1, NoAging
<1>3. /\ Others({r}) /\ Sound(r)' /\ NameFree(r)' /\ DaysFree(r)'
      /\ ArchivesOver(r)' /\ WritesOutside(r)'
  BY <1>2, GoesSound
<1>4. RowsOK'
  BY <1>1, DoubtOK DEF RowsOK, IInv, Boxes
<1>5. RowsFrame({r})
  BY <1>2, <1>3, <1>4 DEF RowsFrame
<1>6. NamesFrame({r}) /\ DatesFrame({r})
  BY <1>1, <1>3 DEF NamesFrame, DatesFrame, SureModule, SureCycle
<1>7. FavoritesFrame({r})
  BY <1>1 DEF FavoritesFrame, Kept
<1>8. \A b : Over(b) => Over(b)'
  BY <1>1 DEF Over
<1>9. ArchiveFrame({r})
  BY <1>1, <1>3, <1>8 DEF ArchiveFrame, Open
<1>10. RequestsOK'
  BY <1>3 DEF Others
<1> QED BY <1>3, <1>4, <1>5, <1>6, <1>7, <1>9, <1>10, SoundAlone, NamesAlone, DatesAlone,
           FavoritesAlone, ArchiveAlone DEF IInv

LEMMA AddIssueKeeps ==
  ASSUME IInv, Doubt, UNCHANGED now, NEW r \in Requests, NEW i \in Issues,
         AddCycleIssue(r, i) \/ AddModuleIssue(r, i)
  PROVE  IInv'
<1>1. /\ req[r].at = "add" /\ req[r].box \in Boxes /\ drained' = drained
      /\ inside' = inside \cup {<<req[r].box, i>>}
      /\ UNCHANGED <<row, archived, dates, status, name, favorites, now, unsure, late>>
  BY DEF AddCycleIssue, AddModuleIssue, Boxes
<1>2. Goes(r)
  BY <1>1, DoneWithGoes DEF AddCycleIssue, AddModuleIssue
<1>3. Others({r}) /\ \A c : r \in Filling(c)' => r \in Filling(c)
  BY <1>1, <1>2, NoAging, GoesSound
<1>4. ASSUME NEW c \in drained
      PROVE  IssuesIn(c)' \subseteq IssuesIn(c) /\ r \notin Filling(c)'
  <2>1. Filling(c) = {} /\ r \in Filling(req[r].box)
    BY <1>1 DEF IInv, DrainsOK, Filling
  <2>2. c # req[r].box
    BY <2>1
  <2> QED BY <1>1, <1>3, <2>1, <2>2 DEF IssuesIn
<1>5. DrainsFrame({r})
  BY <1>1, <1>4 DEF DrainsFrame
<1>6. DrainsOK'
  BY <1>3, <1>5, DrainsAlone
<1>7. inside' \subseteq Boxes \X Issues /\ drained' \subseteq Cycles
  BY <1>1 DEF IInv, RowsOK
<1>8. req[r].at # "unfavorite"
  BY <1>1
<1> QED BY <1>1, <1>2, <1>6, <1>7, <1>8, IssuesFrame

LEMMA RemoveModuleIssueKeeps ==
  ASSUME IInv, Doubt, UNCHANGED now, NEW r \in Requests, RemoveModuleIssue(r)
  PROVE  IInv'
<1>1. /\ req[r].at = "remove" /\ drained' = drained
      /\ inside' = inside \ ({req[r].box} \X req[r].todo)
      /\ UNCHANGED <<row, archived, dates, status, name, favorites, now, unsure, late>>
  BY DEF RemoveModuleIssue
<1>2. Goes(r)
  BY ReturnGoes DEF RemoveModuleIssue
<1>3. Others({r}) /\ \A c : r \in Filling(c)' => r \in Filling(c)
  BY <1>1, <1>2, NoAging, GoesSound
<1>4. DrainsFrame({r})
  BY <1>1, <1>3 DEF DrainsFrame, IssuesIn, Filling
<1>5. DrainsOK'
  BY <1>3, <1>4, DrainsAlone
<1>6. inside' \subseteq Boxes \X Issues /\ drained' \subseteq Cycles
  BY <1>1 DEF IInv, RowsOK
<1>7. req[r].at # "unfavorite"
  BY <1>1
<1> QED BY <1>1, <1>2, <1>5, <1>6, <1>7, IssuesFrame

\* The issues leave the cycle c; r brings them into the target, which does not count as
\* drained as long as r is about to.
LEMMA TransferKeeps ==
  ASSUME IInv, Doubt, UNCHANGED now, NEW r \in Requests, TransferCycleIssues(r)
  PROVE  IInv'
<1> DEFINE c == req[r].box
           target == req[r].val
<1>1. /\ req[r].at = "transfer" /\ c \in Cycles /\ target \in Cycles
  BY DEF TransferCycleIssues, IInv, AllSound, Sound, ValueAt
<1>2. UNCHANGED <<row, archived, dates, status, name, favorites, now, unsure, late>>
  BY DEF TransferCycleIssues
<1>3. Goes(r) /\ req'[r] = Idle
  BY ReturnGoes DEF TransferCycleIssues
<1>4. Others({r}) /\ \A k : r \in Filling(k)' => r \in Filling(k)
  BY <1>2, <1>3, NoAging, GoesSound
<1>5. \A k : r \notin Filling(k)'
  BY <1>3, IdleIs DEF Filling
<1>6. r \in Filling(target)
  BY <1>1 DEF Filling
<1>7. CASE UNCHANGED <<inside, drained>>
  <2>1. DrainsFrame({r})
    BY <1>5, <1>7 DEF DrainsFrame, IssuesIn
  <2>2. DrainsOK'
    BY <1>4, <2>1, DrainsAlone
  <2>3. inside' \subseteq Boxes \X Issues /\ drained' \subseteq Cycles
    BY <1>7 DEF IInv, RowsOK
  <2>4. req[r].at # "unfavorite"
    BY <1>1
  <2> QED BY <1>2, <1>3, <2>2, <2>3, <2>4, IssuesFrame
<1>8. CASE /\ inside' = Moved(c, target, IssuesIn(c))
           /\ drained' = IF Filling(c) = {} THEN drained \cup {c} ELSE drained
  <2>1. ASSUME NEW k \in drained'
        PROVE  IssuesIn(k)' = {} /\ Filling(k)' = {}
    <3>1. Filling(k) = {} /\ (k = c \/ IssuesIn(k) = {})
      BY <1>8, <2>1 DEF IInv, DrainsOK, TransferDrains
    <3>2. k # target
      BY <1>6, <3>1
    <3>3. IssuesIn(k)' = {}
      BY <1>8, <3>1, <3>2 DEF Moved, IssuesIn
    <3>4. \A q \in Requests : q \notin Filling(k)'
      BY <1>4, <1>5, <3>1 DEF Others, Waits, Filling
    <3> QED BY <3>3, <3>4 DEF Filling
  <2>2. DrainsOK'
    BY <2>1 DEF DrainsOK, TransferDrains
  <2>3. inside' \subseteq Boxes \X Issues
    BY <1>1, <1>8 DEF Moved, IssuesIn, IInv, RowsOK, Boxes
  <2>4. drained' \subseteq Cycles
    BY <1>1, <1>8 DEF IInv, RowsOK
  <2>5. req[r].at # "unfavorite"
    BY <1>1
  <2> QED BY <1>2, <1>3, <2>2, <2>3, <2>4, <2>5, IssuesFrame
<1> QED BY <1>7, <1>8 DEF TransferCycleIssues

-----------------------------------------------------------------------------
(* Rows are deleted, statements fail, time passes.                         *)

LEMMA SoftDeleteKeeps ==
  ASSUME IInv, Doubt, UNCHANGED now, NEW r \in Requests, SoftDeleteCycle(r) \/ SoftDeleteModule(r)
  PROVE  IInv'
<1>1. /\ req[r].at = "delete" /\ row' = [row EXCEPT ![req[r].box] = "deleted"]
      /\ archived' = archived /\ dates' = dates /\ status' = status
      /\ name' = name /\ inside' = inside /\ favorites' = favorites
      /\ now' = now /\ unsure' = unsure /\ late' = late /\ drained' = drained
  BY DEF SoftDeleteCycle, SoftDeleteModule
<1>2. Goes(r)
  BY ReturnGoes DEF SoftDeleteCycle, SoftDeleteModule
<1>3. row \in [Boxes -> Rows] /\ row' \in [Boxes -> Rows]
  BY <1>1 DEF IInv, RowsOK, Rows, Boxes
<1>4. \A b \in Boxes : row'[b] = row[b] \/ row'[b] = "deleted"
  BY <1>1, <1>3
<1>5. RowsAge
  <2>1. \A b \in Boxes : row[b] = "deleted" => row'[b] # "present"
    BY <1>4
  <2> QED BY <1>3, <1>4, <2>1 DEF RowsAge, Rows
<1>6. /\ Others({r}) /\ Sound(r)' /\ NameFree(r)' /\ DaysFree(r)'
      /\ ArchivesOver(r)' /\ WritesOutside(r)'
      /\ \A c : r \in Filling(c)' => r \in Filling(c)
  BY <1>2, <1>5, GoesSound
<1>7. archived' \subseteq {b \in Boxes : row'[b] # "absent"}
  BY <1>1, <1>5 DEF IInv, RowsOK, RowsAge
<1>8. RowsOK'
  BY <1>1, <1>3, <1>7, DoubtOK DEF RowsOK, IInv, Boxes
<1>9. RowsFrame({r})
  BY <1>5, <1>6, <1>8 DEF RowsFrame
<1>10. NamesFrame({r})
  BY <1>1, <1>4, <1>6 DEF NamesFrame, SureModule, Boxes
<1>11. DatesFrame({r})
  BY <1>1, <1>4, <1>6 DEF DatesFrame, SureCycle, Boxes
<1>12. DrainsFrame({r})
  BY <1>1, <1>6 DEF DrainsFrame, IssuesIn, Filling, IInv, DrainsOK
<1>13. FavoritesFrame({r})
  BY <1>1 DEF FavoritesFrame, Kept
<1>14. \A b : Over(b) => Over(b)'
  BY <1>1 DEF Over
<1>15. ArchiveFrame({r})
  BY <1>1, <1>6, <1>14 DEF ArchiveFrame, Open
<1> QED BY <1>9, <1>10, <1>11, <1>12, <1>13, <1>15, Framed

LEMMA StatementFailsKeeps ==
  ASSUME IInv, Doubt, UNCHANGED now, NEW r \in Requests, StatementFails(r)
  PROVE  IInv'
<1>1. /\ row' = row /\ archived' = archived /\ dates' = dates /\ status' = status
      /\ name' = name /\ inside' = inside /\ favorites' = favorites
      /\ now' = now /\ unsure' = unsure /\ drained' = drained
  BY DEF StatementFails, rows
<1>2. Goes(r)
  BY DoneWithGoes, ReturnGoes DEF StatementFails
<1>3. late' = IF req[r].at = "unfavorite"
              THEN late \cup (favorites \cap (Users \X {req[r].box})) ELSE late
  BY DEF StatementFails
<1>4. RowsAge
  BY <1>1, NoAging
<1>5. /\ Others({r}) /\ Sound(r)' /\ NameFree(r)' /\ DaysFree(r)'
      /\ ArchivesOver(r)' /\ WritesOutside(r)'
      /\ \A c : r \in Filling(c)' => r \in Filling(c)
  BY <1>2, <1>4, GoesSound
<1>6. RowsOK'
  BY <1>1, <1>3, DoubtOK DEF RowsOK, IInv, Boxes
<1>7. RowsFrame({r})
  BY <1>4, <1>5, <1>6 DEF RowsFrame
<1>8. NamesFrame({r}) /\ DatesFrame({r})
  BY <1>1, <1>5 DEF NamesFrame, DatesFrame, SureModule, SureCycle
<1>9. DrainsFrame({r})
  BY <1>1, <1>5 DEF DrainsFrame, IssuesIn, Filling, IInv, DrainsOK
<1>10. ArchivedNotFavorite'
  <2> SUFFICES ASSUME NEW f \in favorites', Kept(f)'
               PROVE  \E q \in Requests : req'[q].at = "unfavorite" /\ req'[q].box = f[2]
    BY DEF ArchivedNotFavorite, Kept
  <2>1. Kept(f)
    BY <1>1, <1>3 DEF Kept
  <2>2. PICK q \in Requests : req[q].at = "unfavorite" /\ req[q].box = f[2]
    BY <2>1 DEF Kept, IInv, ArchivedNotFavorite
  <2>3. f \in Users \X Boxes
    BY <2>1 DEF Kept, IInv, RowsOK
  <2>4. q # r
    <3> SUFFICES ASSUME q = r PROVE FALSE
      OBVIOUS
    <3>1. f \in Users \X {req[r].box}
      BY <2>2, <2>3
    <3> QED BY <1>3, <2>1, <2>2, <3>1 DEF Kept
  <2> QED BY <1>5, <2>2, <2>4 DEF Others, Waits
<1>11. \A b : Over(b) => Over(b)'
  BY <1>1 DEF Over
<1>12. ArchiveFrame({r})
  BY <1>1, <1>5, <1>11 DEF ArchiveFrame, Open
<1>13. RequestsOK'
  BY <1>5 DEF Others
<1> QED BY <1>5, <1>6, <1>7, <1>8, <1>9, <1>10, <1>12, <1>13, SoundAlone, NamesAlone, DatesAlone,
           DrainsAlone, ArchiveAlone DEF IInv

LEMMA TickKeeps ==
  ASSUME IInv, Doubt, Tick
  PROVE  IInv'
<1>1. /\ row' = row /\ archived' = archived /\ dates' = dates /\ status' = status
      /\ name' = name /\ inside' = inside /\ favorites' = favorites /\ req' = req
      /\ now' = now + 1 /\ unsure' = unsure /\ late' = late /\ drained' = drained
  BY DEF Tick, rows
<1>2. RequestsOK'
  BY <1>1 DEF IInv, RequestsOK, Boxes
<1>3. Others({})
  BY <1>1, <1>2 DEF Others, Waits
<1>4. now' \in Int
  BY <1>1 DEF IInv, RowsOK
<1>5. RowsOK'
  BY <1>1, <1>4, DoubtOK DEF RowsOK, IInv, Boxes
<1>6. RowsFrame({})
  BY <1>1, <1>3, <1>5, NoAging DEF RowsFrame
<1>7. NamesFrame({}) /\ DatesFrame({})
  BY <1>1 DEF NamesFrame, DatesFrame, SureModule, SureCycle
<1>8. DrainsFrame({})
  BY <1>1 DEF DrainsFrame, IssuesIn
<1>9. FavoritesFrame({})
  BY <1>1 DEF FavoritesFrame, Kept
<1>10. ASSUME NEW b, Over(b) PROVE Over(b)'
  <2>1. CASE b \in Cycles
    <3>1. dates[b] # None /\ dates[b][2] < now /\ dates[b] \in Dates
      BY <1>10, <2>1 DEF Over, IInv, RowsOK
    <3>2. dates[b][2] \in Int /\ now \in Int
      BY <3>1, TimeSet DEF Dates, IInv, RowsOK
    <3> QED BY <1>1, <2>1, <3>1, <3>2 DEF Over
  <2>2. CASE b \notin Cycles
    BY <1>1, <1>10, <2>2 DEF Over
  <2> QED BY <2>1, <2>2
<1>11. ArchiveFrame({})
  BY <1>1, <1>10 DEF ArchiveFrame, Open
<1> QED BY <1>6, <1>7, <1>8, <1>9, <1>11, Framed

-----------------------------------------------------------------------------
(* Favorites and archives.                                                 *)

LEMMA FavoriteKeeps ==
  ASSUME IInv, Doubt, UNCHANGED now, NEW u \in Users, NEW b \in Boxes,
         AddFavorite(u, b) \/ DeleteFavorite(u, b)
  PROVE  IInv'
<1>1. /\ row' = row /\ archived' = archived /\ dates' = dates /\ status' = status
      /\ name' = name /\ inside' = inside /\ req' = req
      /\ now' = now /\ unsure' = unsure /\ drained' = drained
  BY DEF AddFavorite, DeleteFavorite
<1>2. RequestsOK'
  BY <1>1 DEF IInv, RequestsOK, Boxes
<1>3. Others({})
  BY <1>1, <1>2 DEF Others, Waits
<1>4. favorites' \subseteq Users \X Boxes /\ late' \subseteq favorites'
  BY DEF AddFavorite, DeleteFavorite, IInv, RowsOK
<1>5. RowsOK'
  BY <1>1, <1>4, DoubtOK DEF RowsOK, IInv, Boxes
<1>6. RowsFrame({})
  BY <1>1, <1>3, <1>5, NoAging DEF RowsFrame
<1>7. NamesFrame({}) /\ DatesFrame({})
  BY <1>1 DEF NamesFrame, DatesFrame, SureModule, SureCycle
<1>8. DrainsFrame({})
  BY <1>1 DEF DrainsFrame, IssuesIn
<1>9. FavoritesFrame({})
  BY <1>1 DEF FavoritesFrame, Kept, AddFavorite, DeleteFavorite
<1>10. \A k : Over(k) => Over(k)'
  BY <1>1 DEF Over
<1>11. ArchiveFrame({})
  BY <1>1, <1>10 DEF ArchiveFrame, Open
<1> QED BY <1>6, <1>7, <1>8, <1>9, <1>11, Framed

LEMMA UnarchiveKeeps ==
  ASSUME IInv, Doubt, UNCHANGED now, NEW b \in Boxes, Unarchive(b)
  PROVE  IInv'
<1>1. /\ row' = row /\ archived' = archived \ {b} /\ dates' = dates /\ status' = status
      /\ name' = name /\ inside' = inside /\ req' = req /\ favorites' = favorites
      /\ now' = now /\ unsure' = unsure /\ drained' = drained
      /\ late' = late \ (Users \X {b})
  BY DEF Unarchive
<1>2. RequestsOK'
  BY <1>1 DEF IInv, RequestsOK, Boxes
<1>3. Others({})
  BY <1>1, <1>2 DEF Others, Waits
<1>4. RowsOK'
  BY <1>1, DoubtOK DEF RowsOK, IInv, Boxes
<1>5. RowsFrame({})
  BY <1>1, <1>3, <1>4, NoAging DEF RowsFrame
<1>6. NamesFrame({}) /\ DatesFrame({})
  BY <1>1 DEF NamesFrame, DatesFrame, SureModule, SureCycle
<1>7. DrainsFrame({})
  BY <1>1 DEF DrainsFrame, IssuesIn
<1>8. FavoritesFrame({})
  <2> SUFFICES ASSUME NEW f \in favorites', Kept(f)' PROVE Kept(f)
    BY DEF FavoritesFrame
  <2>1. f \in favorites /\ f[2] \in archived /\ f[2] # b
    BY <1>1 DEF Kept
  <2>2. f \notin Users \X {b}
    BY <2>1
  <2> QED BY <1>1, <2>1, <2>2 DEF Kept
<1>9. \A k : Over(k) => Over(k)'
  BY <1>1 DEF Over
<1>10. ArchiveFrame({})
  BY <1>1, <1>9 DEF ArchiveFrame, Open
<1> QED BY <1>5, <1>6, <1>7, <1>8, <1>10, Framed

LEMMA SetArchivedAtKeeps ==
  ASSUME IInv, Doubt, UNCHANGED now, NEW r \in Requests, SetArchivedAt(r)
  PROVE  IInv'
<1>1. /\ row' = row /\ archived' = archived \cup {req[r].box} /\ dates' = dates /\ status' = status
      /\ name' = name /\ inside' = inside /\ favorites' = favorites /\ req[r].at = "archive"
      /\ now' = now /\ unsure' = unsure /\ drained' = drained /\ late' = late
  BY DEF SetArchivedAt
<1>2. /\ req'[r].at = "unfavorite" /\ req'[r].box = req[r].box /\ req'[r].val = req[r].val
      /\ \A q \in Requests \ {r} : req'[q] = req[q]
  BY DEF SetArchivedAt, IInv, RequestsOK
<1>3. RequestsOK'
  BY DEF SetArchivedAt, IInv, RequestsOK, Boxes, Steps, Values
<1>4. Others({r})
  BY <1>2, <1>3 DEF Others, Waits
<1>5. req[r].box \in Boxes /\ row[req[r].box] # "absent" /\ req[r].val = None
  BY <1>1 DEF IInv, AllSound, Sound, ValueAt
<1>6. RowsOK'
  BY <1>1, <1>5, DoubtOK DEF RowsOK, IInv, Boxes
<1>7. ValueAt(r)'
  BY <1>2, <1>5 DEF ValueAt
<1>8. Sound(r)' /\ NameFree(r)' /\ DaysFree(r)' /\ ArchivesOver(r)' /\ WritesOutside(r)'
  BY <1>1, <1>2, <1>5, <1>7 DEF Sound, NameFree, DaysFree, ArchivesOver, WritesOutside
<1>9. RowsFrame({r})
  BY <1>1, <1>4, <1>6, <1>8, NoAging DEF RowsFrame
<1>10. NamesFrame({r}) /\ DatesFrame({r})
  BY <1>1, <1>8 DEF NamesFrame, DatesFrame, SureModule, SureCycle
<1>11. DrainsFrame({r})
  BY <1>1, <1>2 DEF DrainsFrame, IssuesIn, Filling
<1>12. ArchivedNotFavorite'
  <2> SUFFICES ASSUME NEW f \in favorites', Kept(f)'
               PROVE  \E q \in Requests : req'[q].at = "unfavorite" /\ req'[q].box = f[2]
    BY DEF ArchivedNotFavorite, Kept
  <2>1. CASE f[2] = req[r].box
    BY <1>2, <2>1
  <2>2. CASE f[2] # req[r].box
    <3>1. PICK q \in Requests : req[q].at = "unfavorite" /\ req[q].box = f[2]
      BY <1>1, <2>2 DEF Kept, IInv, ArchivedNotFavorite
    <3> QED BY <1>1, <1>4, <3>1 DEF Others, Waits
  <2> QED BY <2>1, <2>2
<1>13. \A k : Over(k) => Over(k)'
  BY <1>1 DEF Over
<1>14. ArchiveFrame({r})
  BY <1>1, <1>8, <1>13 DEF ArchiveFrame, Open
<1> QED BY <1>3, <1>6, <1>4, <1>9, <1>10, <1>11, <1>12, <1>14, SoundAlone, NamesAlone, DatesAlone,
           DrainsAlone, ArchiveAlone DEF IInv

LEMMA DropFavoritesKeeps ==
  ASSUME IInv, Doubt, UNCHANGED now, NEW r \in Requests, DropFavorites(r)
  PROVE  IInv'
<1> DEFINE dropped == Users \X {req[r].box}
<1>1. /\ row' = row /\ archived' = archived /\ dates' = dates /\ status' = status
      /\ name' = name /\ inside' = inside /\ req[r].at = "unfavorite"
      /\ favorites' = favorites \ dropped /\ late' = late \ dropped
      /\ now' = now /\ unsure' = unsure /\ drained' = drained
  BY DEF DropFavorites
<1>2. Goes(r)
  BY ReturnGoes DEF DropFavorites
<1>3. /\ Others({r}) /\ Sound(r)' /\ NameFree(r)' /\ DaysFree(r)'
      /\ ArchivesOver(r)' /\ WritesOutside(r)'
      /\ \A c : r \in Filling(c)' => r \in Filling(c)
  BY <1>1, <1>2, NoAging, GoesSound
<1>4. RowsOK'
  BY <1>1, DoubtOK DEF RowsOK, IInv, Boxes
<1>5. RowsFrame({r})
  BY <1>1, <1>3, <1>4, NoAging DEF RowsFrame
<1>6. NamesFrame({r}) /\ DatesFrame({r})
  BY <1>1, <1>3 DEF NamesFrame, DatesFrame, SureModule, SureCycle
<1>7. DrainsFrame({r})
  BY <1>1, <1>3 DEF DrainsFrame, IssuesIn, Filling, IInv, DrainsOK
<1>8. ArchivedNotFavorite'
  <2> SUFFICES ASSUME NEW f \in favorites', Kept(f)'
               PROVE  \E q \in Requests : req'[q].at = "unfavorite" /\ req'[q].box = f[2]
    BY DEF ArchivedNotFavorite, Kept
  <2>1. f \notin dropped /\ f \in favorites /\ Kept(f)
    BY <1>1 DEF Kept
  <2>2. PICK q \in Requests : req[q].at = "unfavorite" /\ req[q].box = f[2]
    BY <2>1 DEF Kept, IInv, ArchivedNotFavorite
  <2>3. q # r
    BY <2>1, <2>2 DEF IInv, RowsOK
  <2> QED BY <1>3, <2>2, <2>3 DEF Others, Waits
<1>9. \A k : Over(k) => Over(k)'
  BY <1>1 DEF Over
<1>10. ArchiveFrame({r})
  BY <1>1, <1>3, <1>9 DEF ArchiveFrame, Open
<1>11. RequestsOK'
  BY <1>3 DEF Others
<1> QED BY <1>3, <1>4, <1>5, <1>6, <1>7, <1>8, <1>10, <1>11, SoundAlone, NamesAlone, DatesAlone,
           DrainsAlone, ArchiveAlone DEF IInv

-----------------------------------------------------------------------------
(* Cycles are created and updated.                                         *)

\* Whoever has made a check hears of every write.
LEMMA WrittenGoes ==
  ASSUME IInv, NEW r \in Requests, ReturnWritten(r), RowsAge
  PROVE  /\ Others({r})
         /\ \A q \in Requests : Sound(q)' /\ NameFree(q)' /\ DaysFree(q)'
         /\ ArchivesOver(r)' /\ WritesOutside(r)' /\ \A c : r \notin Filling(c)'
<1>1. req'[r] = Idle
  BY DEF ReturnWritten
<1>2. ASSUME NEW q \in Requests, q # r
      PROVE  /\ req'[q].at = req[q].at /\ req'[q].box = req[q].box /\ req'[q].val = req[q].val
             /\ req'[q].todo = req[q].todo /\ req'[q].stale = (req[q] # Idle)
  <2>1. req'[q] = [req[q] EXCEPT !.stale = (req[q] # Idle)]
    BY <1>2 DEF ReturnWritten
  <2>2. req[q] \in [at : Steps, box : Boxes \cup {None}, val : Values, todo : SUBSET Issues,
                    stale : BOOLEAN]
    BY DEF IInv, RequestsOK
  <2> QED BY <2>1, <2>2
<1>3. ASSUME NEW q \in Requests
      PROVE  req'[q] \in [at : Steps, box : Boxes \cup {None}, val : Values,
                          todo : SUBSET Issues, stale : BOOLEAN]
  <2>1. CASE q = r
    <3>1. Idle \in [at : Steps, box : Boxes \cup {None}, val : Values,
                    todo : SUBSET Issues, stale : BOOLEAN]
      BY NoneIsValue DEF Idle, Steps
    <3> QED BY <1>1, <2>1, <3>1
  <2>2. CASE q # r
    <3>1. req'[q] = [req[q] EXCEPT !.stale = (req[q] # Idle)]
      BY <2>2 DEF ReturnWritten
    <3>2. req[q] \in [at : Steps, box : Boxes \cup {None}, val : Values, todo : SUBSET Issues,
                      stale : BOOLEAN]
      BY DEF IInv, RequestsOK
    <3>3. (req[q] # Idle) \in BOOLEAN
      OBVIOUS
    <3> QED BY <3>1, <3>2, <3>3
  <2> QED BY <2>1, <2>2
<1>4. RequestsOK'
  BY <1>3 DEF ReturnWritten, RequestsOK, Boxes, Steps, Values
<1>5. Others({r})
  <2>1. ASSUME NEW q \in Requests \ {r}, req[q].stale PROVE req'[q].stale
    <3>1. q \in Requests /\ q # r
      OBVIOUS
    <3>2. req[q] # Idle
      BY <2>1, IdleIs
    <3>3. req'[q].stale = (req[q] # Idle)
      BY <1>2, <3>1
    <3> QED BY <3>2, <3>3
  <2> QED BY <1>2, <1>4, <2>1 DEF Others, Waits
<1>6. ASSUME NEW q \in Requests
      PROVE  Sound(q)' /\ NameFree(q)' /\ DaysFree(q)'
  <2>1. CASE q = r
    <3>1. req'[q].at = "idle" /\ req'[q].val = None
      BY <1>1, <2>1, IdleIs
    <3>2. ValueAt(q)'
      BY <3>1 DEF ValueAt
    <3> QED BY <3>1, <3>2 DEF Sound, NameFree, DaysFree
  <2>2. CASE q # r
    <3>1. Sound(q) /\ ValueAt(q)
      BY DEF IInv, AllSound, Sound
    <3>2. req'[q].at = req[q].at /\ req'[q].box = req[q].box /\ req'[q].val = req[q].val
      BY <1>2, <2>2
    <3>3. ValueAt(q)'
      BY <3>1, <3>2 DEF ValueAt, Dates
    <3>4. Sound(q)'
      BY <3>1, <3>2, <3>3 DEF Sound, RowsAge
    <3>5. req[q].at # "idle" => req'[q].stale
      BY <1>2, <2>2, IdleIs
    <3> QED BY <3>2, <3>4, <3>5 DEF NameFree, DaysFree
  <2> QED BY <2>1, <2>2
<1>7. ArchivesOver(r)' /\ WritesOutside(r)' /\ \A c : r \notin Filling(c)'
  BY <1>1, IdleIs DEF ArchivesOver, WritesOutside, Filling
<1> QED BY <1>5, <1>6, <1>7

\* The part of the day before a moment belongs to its day.
LEMMA DayStarts ==
  ASSUME NEW t \in Int
  PROVE  Day(t) \in Int /\ Day(t) <= t
BY DEF Day

LEMMA DaysApart ==
  ASSUME NEW d \in Dates, NEW e \in Dates, d # None, e # None,
         ~Overlap(e, <<Day(d[1]), Day(d[2])>>)
  PROVE  Day(d[2]) < e[1] \/ Day(e[2]) < d[1]
<1> DEFINE day == <<Day(d[1]), Day(d[2])>>
<1>1. d \in Times \X Times /\ e \in Times \X Times
  BY DEF Dates
<1>2. d[1] \in Int /\ d[2] \in Int /\ e[1] \in Int /\ e[2] \in Int
  BY <1>1, TimeSet
<1>3. /\ Day(d[1]) \in Int /\ Day(d[1]) <= d[1] /\ Day(d[2]) \in Int
      /\ Day(e[2]) \in Int /\ Day(e[2]) <= e[2]
  BY <1>2, DayStarts
<1>4. day \in Int \X Int /\ day # None /\ day[1] = Day(d[1]) /\ day[2] = Day(d[2])
  BY <1>3, BoxSets
<1>5. day[2] < e[1] \/ e[2] < day[1]
  BY <1>2, <1>3, <1>4 DEF Overlap
<1> QED BY <1>2, <1>3, <1>4, <1>5

\* A row appears, and nothing is archived or about to be under its id.
LEMMA Appears ==
  ASSUME IInv, NEW b \in Boxes, row[b] = "absent", row' = [row EXCEPT ![b] = "present"]
  PROVE  /\ RowsAge /\ row' \in [Boxes -> Rows] /\ b \notin Open
         /\ \A k \in Boxes \ {b} : row'[k] = row[k]
<1>1. row \in [Boxes -> Rows]
  BY DEF IInv, RowsOK
<1>2. row' \in [Boxes -> Rows] /\ \A k \in Boxes \ {b} : row'[k] = row[k]
  BY <1>1 DEF Rows
<1>3. RowsAge
  BY <1>2 DEF RowsAge
<1>4. b \notin archived
  BY DEF IInv, RowsOK
<1>5. \A q \in Requests : req[q].at = "archive" => req[q].box # b
  BY DEF IInv, AllSound, Sound
<1> QED BY <1>2, <1>3, <1>4, <1>5 DEF Open

LEMMA NewCycleKeeps ==
  ASSUME IInv, Doubt, UNCHANGED now, NEW r \in Requests, NEW c \in Cycles,
         \/ CreateCheckedCycle(r, c)
         \/ \E start, end \in Times \cup {None} : CreateCycle(r, c, start, end)
  PROVE  IInv'
<1>1. PICK d \in Dates :
        /\ NewCycle(c, d)
        /\ \/ unsure' = unsure \cup {c}
           \/ /\ unsure' = unsure /\ req[r].at = "checked" /\ ~req[r].stale
              /\ req[r].val = d /\ d # None
  <2>1. CASE CreateCheckedCycle(r, c)
    <3>1. req[r].val \in Dates /\ req[r].val # None
      BY <2>1 DEF CreateCheckedCycle, IInv, AllSound, Sound, ValueAt
    <3> QED BY <2>1, <3>1 DEF CreateCheckedCycle
  <2>2. CASE \E start, end \in Times \cup {None} : CreateCycle(r, c, start, end)
    BY <2>2, ParseIsDates DEF CreateCycle
  <2> QED BY <2>1, <2>2
<1>2. /\ row[c] = "absent" /\ row' = [row EXCEPT ![c] = "present"]
      /\ dates' = [dates EXCEPT ![c] = d] /\ archived' = archived /\ status' = status
      /\ name' = name /\ inside' = inside /\ favorites' = favorites
      /\ late' = late /\ drained' = drained
  BY <1>1 DEF NewCycle
<1>3. ReturnWritten(r)
  BY DEF CreateCheckedCycle, CreateCycle
<1>4. c \in Boxes
  BY DEF Boxes
<1>5. /\ RowsAge /\ row' \in [Boxes -> Rows] /\ c \notin Open
      /\ \A k \in Boxes \ {c} : row'[k] = row[k]
  BY <1>2, <1>4, Appears
<1>6. /\ Others({r})
      /\ \A q \in Requests : Sound(q)' /\ NameFree(q)' /\ DaysFree(q)'
      /\ ArchivesOver(r)' /\ WritesOutside(r)' /\ \A k : r \notin Filling(k)'
  BY <1>3, <1>5, WrittenGoes
<1>7. dates' \in [Cycles -> Dates] /\ dates'[c] = d /\ \A k \in Cycles \ {c} : dates'[k] = dates[k]
  BY <1>2 DEF IInv, RowsOK
<1>8. archived' \subseteq {b \in Boxes : row'[b] # "absent"} /\ unsure' \subseteq Boxes
  BY <1>1, <1>2, <1>4, <1>5 DEF IInv, RowsOK, RowsAge
<1>9. RowsOK'
  BY <1>2, <1>5, <1>7, <1>8, DoubtOK DEF RowsOK, IInv, Boxes, Dates
<1>10. RowsFrame({r})
  BY <1>5, <1>6, <1>9 DEF RowsFrame
<1>11. NamesFrame({r})
  BY <1>1, <1>2, <1>5, <1>6, BoxSets DEF NamesFrame, SureModule, Boxes
<1>12. \A k \in Cycles : k # c /\ SureCycle(k)' => SureCycle(k) /\ dates'[k] = dates[k]
  BY <1>1, <1>5, <1>7 DEF SureCycle, Boxes
<1>13. OverlapsOK'
  <2>1. CASE unsure' = unsure \cup {c}
    <3>1. DatesFrame({r})
      BY <1>6, <1>12, <2>1 DEF DatesFrame, SureCycle
    <3> QED BY <1>6, <3>1, DatesAlone
  <2>2. CASE unsure' # unsure \cup {c}
    <3>1. /\ unsure' = unsure /\ req[r].at = "checked" /\ ~req[r].stale
          /\ req[r].val = d /\ d # None
      BY <1>1, <2>2
    <3>2. ASSUME NEW k \in Cycles, k # c, SureCycle(k)', dates[k] # None
          PROVE  Day(d[2]) < dates[k][1] \/ Day(dates[k][2]) < d[1]
      <4>1. SureCycle(k)
        BY <1>12, <3>2
      <4>2. ~Overlap(dates[k], <<Day(d[1]), Day(d[2])>>)
        BY <3>1, <4>1 DEF IInv, OverlapsOK, DaysFree, SureCycle, Present, Boxes
      <4>3. dates[k] \in Dates
        BY DEF IInv, RowsOK
      <4> QED BY <3>1, <3>2, <4>2, <4>3, DaysApart
    <3>3. OverlapsExplained'
      <4> SUFFICES ASSUME NEW b \in Cycles, NEW e \in Cycles, SureCycle(b)', SureCycle(e)', b # e,
                          Overlap(dates'[b], dates'[e])
                   PROVE  Day(dates'[b][2]) < dates'[e][1] \/ Day(dates'[e][2]) < dates'[b][1]
        BY DEF OverlapsExplained, SureCycle, Present, Overlap
      <4>1. dates'[b] # None /\ dates'[e] # None
        BY DEF Overlap
      <4>2. CASE b = c
        BY <1>7, <1>12, <3>2, <4>1, <4>2
      <4>3. CASE e = c
        BY <1>7, <1>12, <3>2, <4>1, <4>3
      <4>4. CASE b # c /\ e # c
        <5>1. SureCycle(b) /\ SureCycle(e) /\ dates'[b] = dates[b] /\ dates'[e] = dates[e]
          BY <1>12, <4>4
        <5>2. b \in (Cycles \cap Present) \ unsure /\ e \in (Cycles \cap Present) \ unsure
          BY <5>1 DEF SureCycle, Present, Boxes
        <5> QED BY <5>1, <5>2 DEF IInv, OverlapsOK, OverlapsExplained
      <4> QED BY <4>2, <4>3, <4>4
    <3> QED BY <1>6, <3>3 DEF OverlapsOK
  <2> QED BY <2>1, <2>2
<1>14. DrainsFrame({r})
  BY <1>2, <1>6 DEF DrainsFrame, IssuesIn
<1>15. req[r].at # "unfavorite"
  BY IdleIs DEF CreateCheckedCycle, CreateCycle
<1>16. FavoritesFrame({r})
  BY <1>2, <1>15 DEF FavoritesFrame, Kept
<1>17. \A b \in Open : Over(b) => Over(b)'
  BY <1>2, <1>5, <1>7 DEF Over
<1>18. ArchiveFrame({r})
  BY <1>2, <1>6, <1>17 DEF ArchiveFrame, Open
<1>19. RequestsOK'
  BY <1>6 DEF Others
<1> QED BY <1>6, <1>9, <1>10, <1>11, <1>13, <1>14, <1>16, <1>18, <1>19, SoundAlone, NamesAlone,
           DrainsAlone, FavoritesAlone, ArchiveAlone DEF IInv

LEMMA UpdateCycleKeeps ==
  ASSUME IInv, Doubt, UNCHANGED now, NEW r \in Requests, UpdateCycle(r)
  PROVE  IInv'
<1> DEFINE c == req[r].box
<1>1. /\ req[r].at = "write" /\ c \in Cycles
      /\ row' = row /\ dates' = [dates EXCEPT ![c] = req[r].val] /\ archived' = archived
      /\ status' = status /\ name' = name /\ inside' = inside /\ favorites' = favorites
      /\ late' = late /\ drained' = drained
      /\ unsure' = IF dates' = dates THEN unsure ELSE unsure \cup {c}
  BY DEF UpdateCycle
<1>2. ReturnWritten(r)
  BY DEF UpdateCycle
<1>3. /\ Others({r})
      /\ \A q \in Requests : Sound(q)' /\ NameFree(q)' /\ DaysFree(q)'
      /\ ArchivesOver(r)' /\ WritesOutside(r)' /\ \A k : r \notin Filling(k)'
  BY <1>1, <1>2, NoAging, WrittenGoes
<1>4. req[r].val \in Dates
  BY <1>1 DEF IInv, AllSound, Sound, ValueAt
<1>5. dates' \in [Cycles -> Dates] /\ \A k \in Cycles \ {c} : dates'[k] = dates[k]
  BY <1>1, <1>4 DEF IInv, RowsOK
<1>6. unsure' \subseteq Boxes
  BY <1>1 DEF IInv, RowsOK, Boxes
<1>7. RowsOK'
  BY <1>1, <1>5, <1>6, DoubtOK DEF RowsOK, IInv, Boxes, Dates
<1>8. RowsFrame({r})
  BY <1>1, <1>3, <1>7, NoAging DEF RowsFrame
<1>9. NamesFrame({r})
  BY <1>1, <1>3 DEF NamesFrame, SureModule
<1>10. DatesFrame({r})
  <2>1. CASE dates' = dates
    BY <1>1, <1>3, <2>1 DEF DatesFrame, SureCycle
  <2>2. CASE dates' # dates
    BY <1>1, <1>3, <1>5, <2>2 DEF DatesFrame, SureCycle
  <2> QED BY <2>1, <2>2
<1>11. DrainsFrame({r})
  BY <1>1, <1>3 DEF DrainsFrame, IssuesIn
<1>12. FavoritesFrame({r})
  BY <1>1 DEF FavoritesFrame, Kept
<1>13. ASSUME NEW b \in Open, Over(b) PROVE Over(b)' \/ b \in doubtful
  <2>1. CASE b = c
    BY <1>1, <2>1 DEF IInv, ArchiveOK, WritersDoubted
  <2>2. CASE b # c
    BY <1>1, <1>5, <1>13, <2>2 DEF Over
  <2> QED BY <2>1, <2>2
<1>14. ArchiveFrame({r})
  BY <1>1, <1>3, <1>13 DEF ArchiveFrame, Open
<1> QED BY <1>8, <1>9, <1>10, <1>11, <1>12, <1>14, Framed

-----------------------------------------------------------------------------
(* Modules are created and updated.                                        *)

\* The unique index refuses the name: r returns, nothing else happens.
LEMMA RefusedKeeps ==
  ASSUME IInv, Doubt, UNCHANGED now, NEW r \in Requests, req[r].at # "unfavorite", Return(r),
         UNCHANGED <<rows, unsure, late, drained>>
  PROVE  IInv'
<1>1. /\ row' = row /\ archived' = archived /\ dates' = dates /\ status' = status
      /\ name' = name /\ inside' = inside /\ favorites' = favorites
      /\ now' = now /\ unsure' = unsure /\ late' = late /\ drained' = drained
  BY DEF rows
<1>2. Goes(r)
  BY ReturnGoes
<1>3. Others({r}) /\ \A c : r \in Filling(c)' => r \in Filling(c)
  BY <1>1, <1>2, NoAging, GoesSound
<1>4. DrainsFrame({r})
  BY <1>1, <1>3 DEF DrainsFrame, IssuesIn, Filling, IInv, DrainsOK
<1>5. DrainsOK'
  BY <1>3, <1>4, DrainsAlone
<1>6. inside' \subseteq Boxes \X Issues /\ drained' \subseteq Cycles
  BY <1>1 DEF IInv, RowsOK
<1> QED BY <1>1, <1>2, <1>5, <1>6, IssuesFrame

LEMMA CreateModuleKeeps ==
  ASSUME IInv, Doubt, UNCHANGED now, NEW r \in Requests, NEW m \in Modules, CreateModule(r, m)
  PROVE  IInv'
<1> DEFINE n == req[r].val[1]
           s == req[r].val[2]
<1>1. CASE Taken(n, m)
  <2>1. Return(r) /\ UNCHANGED <<rows, unsure, late, drained>>
    BY <1>1 DEF CreateModule, rows
  <2>2. req[r].at # "unfavorite"
    BY DEF CreateModule
  <2> QED BY <2>1, <2>2, RefusedKeeps
<1>2. CASE ~Taken(n, m)
  <2>1. /\ req[r].at = "insert" /\ row[m] = "absent" /\ row' = [row EXCEPT ![m] = "present"]
        /\ name' = [name EXCEPT ![m] = n] /\ status' = [status EXCEPT ![m] = s]
        /\ unsure' = IF req[r].stale THEN unsure \cup {m} ELSE unsure
        /\ archived' = archived /\ dates' = dates /\ inside' = inside
        /\ favorites' = favorites /\ late' = late /\ drained' = drained
    BY <1>2 DEF CreateModule
  <2>2. ReturnWritten(r)
    BY <1>2 DEF CreateModule
  <2>3. m \in Boxes
    BY DEF Boxes
  <2>4. /\ RowsAge /\ row' \in [Boxes -> Rows] /\ m \notin Open
        /\ \A k \in Boxes \ {m} : row'[k] = row[k]
    BY <2>1, <2>3, Appears
  <2>5. /\ Others({r})
        /\ \A q \in Requests : Sound(q)' /\ NameFree(q)' /\ DaysFree(q)'
        /\ ArchivesOver(r)' /\ WritesOutside(r)' /\ \A k : r \notin Filling(k)'
    BY <2>2, <2>4, WrittenGoes
  <2>6. n \in Names /\ s \in {"open", "done"}
    <3>1. ValueAt(r)
      BY DEF IInv, AllSound, Sound
    <3>2. req[r].val \in Names \X {"open", "done"}
      BY <2>1, <3>1 DEF ValueAt
    <3> QED BY <3>2
  <2>7. name \in [Modules -> Names] /\ status \in [Modules -> {"open", "done"}]
    BY DEF IInv, RowsOK
  <2>8. /\ name' \in [Modules -> Names] /\ name'[m] = n
        /\ \A k \in Modules \ {m} : name'[k] = name[k]
    BY <2>1, <2>6, <2>7
  <2>9. /\ status' \in [Modules -> {"open", "done"}]
        /\ \A k \in Modules \ {m} : status'[k] = status[k]
    BY <2>1, <2>6, <2>7
  <2>10. archived' \subseteq {b \in Boxes : row'[b] # "absent"} /\ unsure' \subseteq Boxes
    BY <2>1, <2>3, <2>4 DEF IInv, RowsOK, RowsAge
  <2>11. RowsOK'
    BY <2>1, <2>4, <2>8, <2>9, <2>10, DoubtOK DEF RowsOK, IInv, Boxes, Dates
  <2>12. RowsFrame({r})
    BY <2>4, <2>5, <2>11 DEF RowsFrame
  <2>13. \A k \in Modules : k # m /\ SureModule(k)' => SureModule(k) /\ name'[k] = name[k]
    BY <2>1, <2>4, <2>8 DEF SureModule, Boxes
  <2>14. NamesOK'
    <3>1. CASE req[r].stale
      <4>1. NamesFrame({r})
        BY <2>1, <2>5, <2>13, <3>1 DEF NamesFrame, SureModule
      <4> QED BY <2>5, <4>1, NamesAlone
    <3>2. CASE ~req[r].stale
      <4>1. ASSUME NEW k \in Modules, k # m, SureModule(k)'
            PROVE  Folded[name[k]] # Folded[n]
        BY <2>1, <2>13, <3>2, <4>1 DEF IInv, NamesOK, NameFree, SureModule, Present, Boxes
      <4>2. NamesDistinct'
        <5> SUFFICES ASSUME NEW a \in Modules, NEW b \in Modules, SureModule(a)', SureModule(b)',
                            Folded[name'[a]] = Folded[name'[b]]
                     PROVE  a = b
          BY DEF NamesDistinct, SureModule, Present
        <5>1. CASE a = m \/ b = m
          BY <2>8, <2>13, <4>1, <5>1
        <5>2. CASE a # m /\ b # m
          BY <2>13, <5>2 DEF IInv, NamesOK, NamesDistinct, SureModule, Present, Boxes
        <5> QED BY <5>1, <5>2
      <4> QED BY <2>5, <4>2 DEF NamesOK
    <3> QED BY <3>1, <3>2
  <2>15. DatesFrame({r})
    BY <2>1, <2>4, <2>5, BoxSets DEF DatesFrame, SureCycle, Boxes
  <2>16. DrainsFrame({r})
    BY <2>1, <2>5 DEF DrainsFrame, IssuesIn
  <2>17. FavoritesFrame({r})
    BY <2>1 DEF FavoritesFrame, Kept
  <2>18. \A b \in Open : Over(b) => Over(b)'
    <3> SUFFICES ASSUME NEW b \in Open, Over(b) PROVE Over(b)'
      OBVIOUS
    <3>1. b # m /\ b \in Boxes
      BY <2>4 DEF Open, IInv, RowsOK, AllSound, Sound
    <3> QED BY <2>1, <2>9, <3>1 DEF Over, Boxes
  <2>19. ArchiveFrame({r})
    BY <2>1, <2>5, <2>18 DEF ArchiveFrame, Open
  <2>20. RequestsOK'
    BY <2>5 DEF Others
  <2> QED BY <2>5, <2>11, <2>12, <2>14, <2>15, <2>16, <2>17, <2>19, <2>20, SoundAlone, DatesAlone,
             DrainsAlone, FavoritesAlone, ArchiveAlone DEF IInv
<1> QED BY <1>1, <1>2

LEMMA UpdateModuleKeeps ==
  ASSUME IInv, Doubt, UNCHANGED now, NEW r \in Requests, UpdateModule(r)
  PROVE  IInv'
<1> DEFINE m == req[r].box
           n == req[r].val[1]
           s == req[r].val[2]
<1>1. CASE m \notin Present \/ Taken(n, m)
  <2>1. Return(r) /\ UNCHANGED <<rows, unsure, late, drained>>
    BY <1>1 DEF UpdateModule, rows
  <2>2. req[r].at # "unfavorite"
    BY DEF UpdateModule
  <2> QED BY <2>1, <2>2, RefusedKeeps
<1>2. CASE ~(m \notin Present \/ Taken(n, m))
  <2>1. /\ req[r].at = "write" /\ m \in Modules /\ row' = row
        /\ name' = [name EXCEPT ![m] = n] /\ status' = [status EXCEPT ![m] = s]
        /\ archived' = archived /\ dates' = dates /\ inside' = inside
        /\ favorites' = favorites /\ late' = late /\ drained' = drained
    BY <1>2 DEF UpdateModule
  <2>2. \/ n = name[m] /\ unsure' = unsure /\ Return(r)
        \/ unsure' = unsure \cup {m} /\ ReturnWritten(r)
    BY <1>2 DEF UpdateModule
  <2>3. /\ Others({r}) /\ Sound(r)' /\ NameFree(r)' /\ DaysFree(r)'
        /\ ArchivesOver(r)' /\ WritesOutside(r)'
        /\ \A k : r \in Filling(k)' => r \in Filling(k)
    BY <2>1, <2>2, NoAging, WrittenGoes, ReturnGoes, GoesSound
  <2>4. n \in Names /\ s \in {"open", "done"}
    <3>1. ValueAt(r)
      BY DEF IInv, AllSound, Sound
    <3>2. req[r].val \in Names \X {"open", "done"}
      BY <2>1, <3>1, BoxSets DEF ValueAt
    <3> QED BY <3>2
  <2>5. name \in [Modules -> Names] /\ status \in [Modules -> {"open", "done"}]
    BY DEF IInv, RowsOK
  <2>6. /\ name' \in [Modules -> Names] /\ name'[m] = n
        /\ \A k \in Modules \ {m} : name'[k] = name[k]
    BY <2>1, <2>4, <2>5
  <2>7. /\ status' \in [Modules -> {"open", "done"}]
        /\ \A k \in Modules \ {m} : status'[k] = status[k]
    BY <2>1, <2>4, <2>5
  <2>8. unsure' \subseteq Boxes
    BY <2>1, <2>2 DEF IInv, RowsOK, Boxes
  <2>9. RowsOK'
    BY <2>1, <2>6, <2>7, <2>8, DoubtOK DEF RowsOK, IInv, Boxes, Dates
  <2>10. RowsFrame({r})
    BY <2>1, <2>3, <2>9, NoAging DEF RowsFrame
  <2>11. NamesFrame({r})
    BY <2>1, <2>2, <2>3, <2>6 DEF NamesFrame, SureModule
  <2>12. DatesFrame({r})
    BY <2>1, <2>2, <2>3 DEF DatesFrame, SureCycle
  <2>13. DrainsFrame({r})
    BY <2>1, <2>3 DEF DrainsFrame, IssuesIn, Filling, IInv, DrainsOK
  <2>14. FavoritesFrame({r})
    BY <2>1 DEF FavoritesFrame, Kept
  <2>15. ASSUME NEW b \in Open, Over(b) PROVE Over(b)' \/ b \in doubtful
    <3>1. CASE b = m
      BY <2>1, <3>1 DEF IInv, ArchiveOK, WritersDoubted
    <3>2. CASE b # m
      <4>1. b \in Boxes
        BY DEF Open, IInv, RowsOK, AllSound, Sound
      <4> QED BY <2>1, <2>7, <2>15, <3>2, <4>1 DEF Over, Boxes
    <3> QED BY <3>1, <3>2
  <2>16. ArchiveFrame({r})
    BY <2>1, <2>3, <2>15 DEF ArchiveFrame, Open
  <2> QED BY <2>10, <2>11, <2>12, <2>13, <2>14, <2>16, Framed
<1> QED BY <1>1, <1>2

-----------------------------------------------------------------------------
(* The theorems.                                                           *)

LEMMA InitInv == ASSUME Init PROVE IInv
<1>1. RowsOK
  BY DEF Init, RowsOK, Rows, Dates
<1>2. \A r \in Requests : req[r] = Idle
  BY DEF Init
<1>3. RequestsOK
  <2>1. Idle \in [at : Steps, box : Boxes \cup {None}, val : Values, todo : SUBSET Issues,
                  stale : BOOLEAN]
    BY NoneIsValue DEF Idle, Steps
  <2> QED BY <2>1 DEF Init, RequestsOK
<1>4. \A r \in Requests : req[r].at = "idle" /\ req[r].val = None
  BY <1>2, IdleIs
<1>5. AllSound
  <2> SUFFICES ASSUME NEW r \in Requests PROVE Sound(r)
    BY DEF AllSound
  <2>1. ValueAt(r)
    BY <1>4 DEF ValueAt
  <2> QED BY <1>4, <2>1 DEF Sound
<1>6. Present = {}
  BY DEF Init, Present
<1>7. NamesOK /\ OverlapsOK
  BY <1>4, <1>6 DEF NamesOK, NamesDistinct, NameFree, OverlapsOK, OverlapsExplained, DaysFree
<1>8. DrainsOK /\ ArchivedNotFavorite
  BY DEF Init, DrainsOK, TransferDrains, ArchivedNotFavorite
<1>9. ArchiveOK
  BY <1>4, <1>6 DEF ArchiveOK, OpenOver, WritersDoubted
<1> QED BY <1>1, <1>3, <1>5, <1>7, <1>8, <1>9 DEF IInv

LEMMA CycleStepInv ==
  ASSUME IInv, Doubt, UNCHANGED now, CycleStep
  PROVE  IInv'
<1> USE DEF Boxes
<1>1. CASE \E r \in Requests, d \in Dates : DateCheck(r, d)
  BY <1>1, DateCheckKeeps
<1>2. ASSUME NEW r \in Requests, NEW c \in Cycles,
             \/ CreateCheckedCycle(r, c) \/ BeginDestroyCycle(r, c) \/ BeginArchiveCycle(r, c)
             \/ \E start, end \in Times \cup {None} :
                  CreateCycle(r, c, start, end) \/ BeginUpdateCycle(r, c, start, end)
             \/ \E is \in SUBSET Issues : BeginAddCycleIssues(r, c, is)
             \/ \E target \in Cycles : BeginTransfer(r, c, target)
      PROVE  IInv'
  <2>1. CASE CreateCheckedCycle(r, c) \/ \E start, end \in Times \cup {None} :
                                           CreateCycle(r, c, start, end)
    BY <2>1, NewCycleKeeps
  <2>2. CASE \E start, end \in Times \cup {None} : BeginUpdateCycle(r, c, start, end)
    BY <2>2, BeginUpdateCycleKeeps
  <2>3. CASE BeginDestroyCycle(r, c)
    BY <2>3, BeginDestroyKeeps
  <2>4. CASE BeginArchiveCycle(r, c)
    BY <2>4, BeginArchiveKeeps
  <2>5. CASE \E is \in SUBSET Issues : BeginAddCycleIssues(r, c, is)
    BY <2>5, BeginAddKeeps
  <2>6. CASE \E target \in Cycles : BeginTransfer(r, c, target)
    BY <2>6, BeginTransferKeeps
  <2> QED BY <1>2, <2>1, <2>2, <2>3, <2>4, <2>5, <2>6
<1>3. CASE \E r \in Requests : UpdateCycle(r) \/ SoftDeleteCycle(r) \/ TransferCycleIssues(r)
  BY <1>3, UpdateCycleKeeps, SoftDeleteKeeps, TransferKeeps
<1>4. CASE \E r \in Requests, i \in Issues : AddCycleIssue(r, i)
  BY <1>4, AddIssueKeeps
<1>5. CASE \E c \in Cycles : UnarchiveCycle(c)
  BY <1>5, UnarchiveKeeps DEF UnarchiveCycle
<1> QED BY <1>1, <1>2, <1>3, <1>4, <1>5 DEF CycleStep

LEMMA ModuleStepInv ==
  ASSUME IInv, Doubt, UNCHANGED now, ModuleStep
  PROVE  IInv'
<1> USE DEF Boxes
<1>1. ASSUME NEW r \in Requests, NEW n \in Names, NEW s \in {"open", "done"},
             \/ BeginCreateModule(r, n, s) \/ NameLookupFails(r, n, s)
             \/ \E m \in Modules : ApplyUpdate(r, m, n, s)
      PROVE  IInv'
  BY <1>1, BeginCreateModuleKeeps, ApplyUpdateKeeps
<1>2. ASSUME NEW r \in Requests, NEW m \in Modules,
             \/ CreateModule(r, m) \/ BeginDestroyModule(r, m) \/ BeginArchiveModule(r, m)
             \/ \E is \in SUBSET Issues : BeginAddModuleIssues(r, m, is)
             \/ \E i \in Issues : BeginRemoveIssue(r, m, i)
      PROVE  IInv'
  <2>1. CASE CreateModule(r, m)
    BY <2>1, CreateModuleKeeps
  <2>2. CASE BeginDestroyModule(r, m)
    BY <2>2, BeginDestroyKeeps
  <2>3. CASE BeginArchiveModule(r, m)
    BY <2>3, BeginArchiveKeeps
  <2>4. CASE \E is \in SUBSET Issues : BeginAddModuleIssues(r, m, is)
    BY <2>4, BeginAddKeeps
  <2>5. CASE \E i \in Issues : BeginRemoveIssue(r, m, i)
    BY <2>5, BeginRemoveIssueKeeps
  <2> QED BY <1>2, <2>1, <2>2, <2>3, <2>4, <2>5
<1>3. CASE \E r \in Requests : UpdateModule(r) \/ SoftDeleteModule(r) \/ RemoveModuleIssue(r)
  BY <1>3, UpdateModuleKeeps, SoftDeleteKeeps, RemoveModuleIssueKeeps
<1>4. CASE \E r \in Requests, i \in Issues : AddModuleIssue(r, i)
  BY <1>4, AddIssueKeeps
<1>5. CASE \E m \in Modules : UnarchiveModule(m)
  BY <1>5, UnarchiveKeeps DEF UnarchiveModule
<1> QED BY <1>1, <1>2, <1>3, <1>4, <1>5 DEF ModuleStep

LEMMA NextInv == ASSUME IInv, [Next]_vars PROVE IInv'
<1>1. CASE Next
  <2>1. Doubt
    BY <1>1 DEF Next
  <2>2. CASE Tick
    BY <2>1, <2>2, TickKeeps
  <2>3. CASE RequestStep /\ UNCHANGED now
    <3>1. CASE CycleStep
      BY <2>1, <2>3, <3>1, CycleStepInv
    <3>2. CASE ModuleStep
      BY <2>1, <2>3, <3>2, ModuleStepInv
    <3>3. CASE FavoriteStep
      BY <2>1, <2>3, <3>3, FavoriteKeeps
         DEF FavoriteStep, AddFavoriteCycle, AddFavoriteModule, DelFavoriteCycle, DelFavoriteModule
    <3>4. CASE \E r \in Requests : SetArchivedAt(r) \/ DropFavorites(r) \/ StatementFails(r)
      BY <2>1, <2>3, <3>4, SetArchivedAtKeeps, DropFavoritesKeeps, StatementFailsKeeps
    <3> QED BY <2>3, <3>1, <3>2, <3>3, <3>4 DEF RequestStep
  <2> QED BY <1>1, <2>2, <2>3 DEF Next
<1>2. CASE UNCHANGED vars
  <2>1. /\ row' = row /\ archived' = archived /\ dates' = dates /\ status' = status
        /\ name' = name /\ inside' = inside /\ favorites' = favorites /\ now' = now /\ req' = req
        /\ doubtful' = doubtful /\ unsure' = unsure /\ late' = late /\ drained' = drained
    BY <1>2 DEF vars, rows
  <2>2. RowsOK' /\ RequestsOK'
    BY <2>1 DEF IInv, RowsOK, RequestsOK, Boxes
  <2>3. AllSound'
    <3> SUFFICES ASSUME NEW r \in Requests PROVE Sound(r)'
      BY DEF AllSound
    <3>1. ValueAt(r)' = ValueAt(r)
      BY <2>1 DEF ValueAt
    <3> QED BY <2>1, <3>1 DEF IInv, AllSound, Sound
  <2>4. NamesOK' /\ OverlapsOK'
    BY <2>1 DEF IInv, NamesOK, NamesDistinct, NameFree, OverlapsOK, OverlapsExplained, DaysFree,
                Present, Overlap
  <2>5. DrainsOK' /\ ArchivedNotFavorite'
    BY <2>1 DEF IInv, DrainsOK, TransferDrains, ArchivedNotFavorite, IssuesIn, Filling
  <2>6. \A b : Over(b)' = Over(b)
    BY <2>1 DEF Over
  <2>7. Open' = Open /\ Present' = Present
    BY <2>1 DEF Open, Present
  <2>8. ArchiveOK'
    BY <2>1, <2>6, <2>7 DEF IInv, ArchiveOK, OpenOver, WritersDoubted
  <2> QED BY <2>2, <2>3, <2>4, <2>5, <2>8 DEF IInv
<1> QED BY <1>1, <1>2

\* What every reachable state of cycles, modules, archives and favorites satisfies.
THEOREM Invariant == Spec => []IInv
BY InitInv, NextInv, PTL DEF Spec

\* The types, that an archived box is nobody's favorite but one added while in the archive
\* or one whose removal failed (archive/handlers.go), and that the names of two modules
\* differ by more than their case unless a write went past the look-up (module/handlers.go).
THEOREM NamesAndFavorites == Spec => []TimeboxesInv
<1>1. ASSUME IInv PROVE TimeboxesInv
  <2>1. \A c \in Cycles : [row |-> row[c], archived |-> c \in archived, dates |-> dates[c]]
                            \in CycleRow
    BY <1>1 DEF IInv, RowsOK, CycleRow, Boxes
  <2>2. \A m \in Modules : [row |-> row[m], archived |-> m \in archived, status |-> status[m],
                            name |-> name[m]] \in ModuleRow
    BY <1>1 DEF IInv, RowsOK, ModuleRow, Boxes
  <2>3. \A r \in Requests : /\ req[r].at \in Steps /\ req[r].box \in Boxes \cup {None}
                            /\ req[r].todo \subseteq Issues /\ req[r].stale \in BOOLEAN
    BY <1>1 DEF IInv, RequestsOK
  <2>4. \A r \in Requests : ValueAt(r)
    BY <1>1 DEF IInv, AllSound, Sound
  <2>5. TypeOK
    BY <1>1, <2>1, <2>2, <2>3, <2>4 DEF TypeOK, IInv, RowsOK
  <2> QED BY <1>1, <2>5 DEF TimeboxesInv, IInv, NamesOK
<1> QED BY <1>1, Invariant, PTL

\* A box in the archive is over, whatever requests interleave, unless an update of it was in
\* progress when it was archived: the check of archive/handlers.go reads, another statement
\* writes.
THEOREM OnlyOverIsArchived == Spec => []ArchivedAreOver
<1>1. ASSUME IInv PROVE ArchivedAreOver
  BY <1>1 DEF IInv, ArchiveOK, OpenOver, ArchivedAreOver, Open
<1> QED BY <1>1, Invariant, PTL

\* A cycle whose issues were moved by transferIssues (cycle/handlers.go) has none until a
\* later request brings some in.
THEOREM TransfersDrain == Spec => []TransferDrains
<1>1. ASSUME IInv PROVE TransferDrains
  BY <1>1 DEF IInv, DrainsOK
<1> QED BY <1>1, Invariant, PTL

\* Every overlap of two cycles has one of the three explanations: no date-check, a write
\* between check and creation, or the hours of a last day (cycle/handlers.go).
THEOREM OverlapsAreExplained == Spec => []OverlapsExplained
<1>1. ASSUME IInv PROVE OverlapsExplained
  BY <1>1 DEF IInv, OverlapsOK
<1> QED BY <1>1, Invariant, PTL
=============================================================================
