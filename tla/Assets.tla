-------------------------------- MODULE Assets --------------------------------
(***************************************************************************)
(* Uploaded files: a row in assets and a file of the same id in a          *)
(* directory.  The two are written one after the other by handlers that    *)
(* may overlap, fail in between or end with the process.  Who may do what  *)
(* and to which entity an asset belongs are left out.                      *)
(***************************************************************************)
CONSTANTS Assets, \* ids of assets
          Jobs,   \* goroutines serving the requests of this module
          NoAsset \* no id

ASSUME NoAssetIsNone == NoAsset \notin Assets

VARIABLES asset,  \* asset[a]: a row of assets: its status and is_uploaded
          file,   \* file[a]: what the directory holds under the name a
          job,    \* job[g]: the step g takes next and the assets it works on
          excused \* history: assets whose row and file a failure, an overlap or a caller
                  \* that marks or restores without a file has set apart

assetVars == <<asset, file, job, excused>>

NoRow == [status |-> "none", uploaded |-> FALSE]
\* lost: the file that the job has open has been removed from the directory.
NoJob == [at |-> "idle", id |-> NoAsset, from |-> NoAsset, lost |-> FALSE]

AssetsOK ==
  /\ asset \in [Assets -> [status : {"live", "deleted"}, uploaded : BOOLEAN] \cup {NoRow}]
  /\ file \in [Assets -> {"none", "partial", "whole"}]
  /\ job \in [Jobs -> [at : {"idle", "receive", "mark", "delete", "duplicate", "copy"},
                       id : Assets \cup {NoAsset}, from : Assets \cup {NoAsset}, lost : BOOLEAN]]
  /\ excused \subseteq Assets

AssetsInit == /\ asset = [a \in Assets |-> NoRow]
              /\ file = [a \in Assets |-> "none"]
              /\ job = [g \in Jobs |-> NoJob]
              /\ excused = {}

At(a) == {job[g].at : g \in {h \in Jobs : job[h].id = a}} \* what goes on with a
Excuse(a, if) == excused' = IF if THEN excused \cup {a} ELSE excused
GetAsset(a) == asset[a].status # "none" \* deleted or not
Uploaded(a) == [asset EXCEPT ![a].uploaded = GetAsset(a)] \* an UPDATE may find no row

CreateAsset(a) == /\ asset[a] = NoRow
                  /\ asset' = [asset EXCEPT ![a].status = "live"]
                  /\ UNCHANGED <<file, job, excused>>

\* The upload target does not look at the row; it truncates a file that is there.  (Ids
\* are random: nobody names one that an asset is yet to get.)
BeginReceive(g, a) ==
  /\ job[g] = NoJob /\ GetAsset(a)
  /\ file' = [file EXCEPT ![a] = "partial"]
  /\ job' = [job EXCEPT ![g] = [NoJob EXCEPT !.at = "receive", !.id = a]]
  /\ Excuse(a, asset[a].uploaded \/ asset[a].status = "deleted" \/ At(a) # {})
  /\ UNCHANGED asset
\* Mutant: a storage error is dropped like that of the mark.
ReceiveIgnoringErrors(g) ==
  /\ job[g].at = "receive" /\ UNCHANGED <<asset, excused>>
  /\ \/ /\ file' = IF job[g].lost THEN file ELSE [file EXCEPT ![job[g].id] = "whole"]
        /\ job' = [job EXCEPT ![g].at = "mark"]
     \/ job' = [job EXCEPT ![g].at = "mark"] /\ UNCHANGED file
Receive(g) ==
  /\ job[g].at = "receive" /\ UNCHANGED <<asset, excused>>
  /\ \/ /\ file' = IF job[g].lost THEN file ELSE [file EXCEPT ![job[g].id] = "whole"]
        /\ job' = [job EXCEPT ![g].at = "mark"]
     \/ job' = [job EXCEPT ![g] = NoJob] /\ UNCHANGED file \* storage error
\* Also the end of a duplication, which has then copied what there was to copy.
MarkAssetUploaded(g) ==
  LET a == job[g].id IN
  /\ job[g].at = "mark"
  /\ job' = [job EXCEPT ![g] = NoJob]
  /\ asset' \in {Uploaded(a), asset} \* the error is dropped
  /\ Excuse(a, job[g].from # NoAsset /\ file[a] # "whole")
  /\ UNCHANGED file

\* Clients confirm uploads on their own word; Bulk does not look for the row.
MarkUploaded(a) == /\ GetAsset(a)
                   /\ asset' = Uploaded(a)
                   /\ Excuse(a, file[a] # "whole")
                   /\ UNCHANGED <<file, job>>
Bulk(ids) == /\ asset' = [a \in Assets |-> IF a \in ids THEN Uploaded(a)[a] ELSE asset[a]]
             /\ excused' = excused \cup {a \in ids : file[a] # "whole"}
             /\ UNCHANGED <<file, job>>

\* The file goes first, then the row; the errors of both are dropped.
BeginDelete(g, a) ==
  /\ job[g] = NoJob /\ GetAsset(a)
  /\ UNCHANGED asset
  /\ \/ /\ file' = [file EXCEPT ![a] = "none"]
        /\ job' = [h \in Jobs |-> IF h = g THEN [NoJob EXCEPT !.at = "delete", !.id = a]
                                  ELSE [job[h] EXCEPT !.lost = @ \/ job[h].id = a]]
        /\ Excuse(a, At(a) # {})
     \/ /\ job' = [job EXCEPT ![g] = [NoJob EXCEPT !.at = "delete", !.id = a]]
        /\ Excuse(a, file[a] # "none" \/ At(a) # {})
        /\ UNCHANGED file
SoftDeleteAsset(g) ==
  LET a == job[g].id IN
  /\ job[g].at = "delete"
  /\ job' = [job EXCEPT ![g] = NoJob]
  /\ \/ asset' = [asset EXCEPT ![a].status = "deleted"] /\ UNCHANGED excused
     \/ asset' = asset /\ excused' = excused \cup {a}
  /\ UNCHANGED file
RestoreAsset(a) == /\ GetAsset(a)
                   /\ asset' = [asset EXCEPT ![a].status = "live"]
                   /\ Excuse(a, asset[a].status = "deleted")
                   /\ UNCHANGED <<file, job>>

\* An uploaded asset, deleted or not, gets a second row, then a copy of its file if it has
\* one that can be read and written, then the mark whatever has been copied.
BeginDuplicate(g, a) ==
  /\ job[g] = NoJob /\ asset[a].uploaded
  /\ job' = [job EXCEPT ![g] = [NoJob EXCEPT !.at = "duplicate", !.from = a]]
  /\ UNCHANGED <<asset, file, excused>>
Duplicate(g) ==
  /\ job[g].at = "duplicate"
  /\ \E b \in Assets : asset[b] = NoRow
                       /\ asset' = [asset EXCEPT ![b].status = "live"]
                       /\ job' = [job EXCEPT ![g].at = "copy", ![g].id = b]
  /\ UNCHANGED <<file, excused>>
CopyFile(g) ==
  LET a == job[g].from IN
  /\ job[g].at = "copy"
  /\ file' \in {file, [file EXCEPT ![job[g].id] = file[a]]}
               \cup (IF file[a] = "none" THEN {} ELSE {[file EXCEPT ![job[g].id] = "partial"]})
  /\ job' = [job EXCEPT ![g].at = "mark"]
  /\ UNCHANGED <<asset, excused>>

\* The process ends: log.Fatal, or a signal when the server is done waiting.
ServerStops == /\ job' = [g \in Jobs |-> NoJob]
               /\ excused' = excused \cup {job[g].id : g \in {h \in Jobs : job[h].at = "delete"}}
               /\ UNCHANGED <<asset, file>>

AssetsNext ==
  \/ \E a \in Assets : CreateAsset(a) \/ MarkUploaded(a) \/ RestoreAsset(a)
  \/ \E ids \in SUBSET Assets : Bulk(ids)
  \/ \E g \in Jobs, a \in Assets : BeginReceive(g, a) \/ BeginDelete(g, a) \/ BeginDuplicate(g, a)
  \/ \E g \in Jobs : Receive(g) \/ MarkAssetUploaded(g) \/ SoftDeleteAsset(g)
                     \/ Duplicate(g) \/ CopyFile(g)
  \/ ServerStops

AssetsSpec == AssetsInit /\ [][AssetsNext]_assetVars

Served(a) == GetAsset(a) /\ file[a] # "none" \* what GET static answers
\* An asset that is marked uploaded can be served whole, and one that is deleted is not
\* served any more, whatever order the uploads, copies and deletions of different assets
\* take and wherever the process ends.  excused names what the code does not guard.
UploadsServed ==
  \A a \in Assets \ excused :
    /\ asset[a] = [status |-> "live", uploaded |-> TRUE] /\ "delete" \notin At(a)
       => Served(a) /\ file[a] = "whole"
    /\ asset[a].status = "deleted" => ~Served(a)

\* The types of the rows, files and jobs, and that the assets not excused are served as
\* their rows say (asset/handlers.go, receive, confirm, delete and duplicate).
AssetsInv == AssetsOK /\ UploadsServed
=============================================================================
