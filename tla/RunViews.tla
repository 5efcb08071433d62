------------------------------ MODULE RunViews ------------------------------
(***************************************************************************)
(* Reading a run while it is being written or deleted: the GET endpoints   *)
(* of engine/api/app.py over the builders of engine/api/dto.py, the export *)
(* of recommenders/qos/export.py and the report the command line prints    *)
(* (cli.py), composed with the runs of AnalysisRun.                        *)
(*                                                                         *)
(* No reader has a snapshot.  A view is built by two to four SELECTs, each *)
(* of which sees the latest commit (statestore.py:60-69: sqlite opens no   *)
(* transaction for a SELECT, postgres reads committed), so a commit or a   *)
(* deletion may fall between any two of them.  An action is one SELECT of  *)
(* a client.                                                               *)
(***************************************************************************)
EXTENDS AnalysisRun

CONSTANTS
  Clients,   \* readers: browsers, scripts, command lines
  Views      \* what they ask for

(* The export of a whole run, and the manifest of one workload of it, are  *)
(* one endpoint with scope=all and scope=workload.                         *)
AllViews == {"status", "cards", "groups", "evidence", "export", "manifest", "print"}

ASSUME ViewsAssumption == Views \subseteq AllViews

VARIABLES
  about,    \* the run a client reads, 0 before it has listed the runs
  told,     \* the status it was listed with
  view,     \* the view asked for
  only,     \* the workloads it is about: all, or the one of a manifest
  step,     \* the SELECT to come, or the outcome
  said,     \* the status get_run read, "none" before
  wanted,   \* the recommendation whose evidence is asked for, in a set
  cards,    \* the recommendations read
  lists,    \* the groups read
  parts,    \* the details found beside the wanted recommendation
  held      \* history: the recommendations earlier answers showed

viewer ==
  <<about, told, view, only, step, said, wanted, cards, lists, parts, held>>

-----------------------------------------------------------------------------
(***************************************************************************)
(* Which SELECT follows which.                                             *)
(***************************************************************************)

StatusView == [run |-> "ok"]
CardsView == [run |-> "recs", recs |-> "ok"]

(* Mutant: groups first, then what is in them.                             *)
GroupsFirst == [run |-> "groups", groups |-> "recs", recs |-> "ok"]

GroupsView == [run |-> "recs", recs |-> "groups", groups |-> "ok"]

EvidenceView ==
  [run |-> "recs", recs |-> "evidence", evidence |-> "peers", peers |-> "ok"]

(* The handler looks for the run, and so does render_export again. *)
ExportView == [run |-> "again", again |-> "recs", recs |-> "ok"]

(* The command line has just made the run and does not look for it; it     *)
(* reads the groups twice and prints the second answer.                    *)
PrintView == [recs |-> "titles", titles |-> "groups", groups |-> "ok"]

Course ==
  [status |-> StatusView, cards |-> CardsView, groups |-> GroupsView,
   evidence |-> EvidenceView, export |-> ExportView, manifest |-> ExportView,
   print |-> PrintView]

First(v) == IF v = "print" THEN "recs" ELSE "run"

Listing == {"cards", "groups", "export", "manifest", "print"}
Parts == {"evidence", "peers"}
Outcomes == {"ok", "missing", "empty"}
Resting == {"idle"} \union Outcomes

Reading(c, s) == step[c] = s

(* The next SELECT; the last one makes the answer.                         *)
Advance(c) == step' = [step EXCEPT ![c] = Course[view[c]][@]]

-----------------------------------------------------------------------------
ViewInit ==
  /\ Init
  /\ about = [c \in Clients |-> 0]
  /\ told = [c \in Clients |-> "none"]
  /\ view = [c \in Clients |-> "status"]
  /\ only = [c \in Clients |-> Workloads]
  /\ step = [c \in Clients |-> "idle"]
  /\ said = [c \in Clients |-> "none"]
  /\ wanted = [c \in Clients |-> {}]
  /\ cards = [c \in Clients |-> {}]
  /\ lists = [c \in Clients |-> {}]
  /\ parts = [c \in Clients |-> {}]
  /\ held = [c \in Clients |-> {}]

(* GET /runs: the client picks a run of the list. *)
ListRuns(c) ==
  /\ step[c] \in Resting
  /\ \E r \in runs :
       /\ about' = [about EXCEPT ![c] = r.id]
       /\ told' = [told EXCEPT ![c] = r.status]
       /\ held' = [held EXCEPT ![c] = IF r.id = about[c] THEN @ ELSE {}]
  /\ step' = [step EXCEPT ![c] = "idle"]
  /\ said' = [said EXCEPT ![c] = "none"]
  /\ cards' = [cards EXCEPT ![c] = {}]
  /\ lists' = [lists EXCEPT ![c] = {}]
  /\ parts' = [parts EXCEPT ![c] = {}]
  /\ UNCHANGED <<view, only, wanted>>

(* A request for a view of it; evidence is asked for by the id of a        *)
(* recommendation an earlier answer showed, a manifest for any workload,   *)
(* and what is printed is a run that has just been completed.              *)
Ask(c, v) ==
  /\ step[c] \in Resting
  /\ about[c] # 0
  /\ v = "print" => told[c] = "completed"
  /\ IF v = "evidence"
     THEN \E x \in held[c] : wanted' = [wanted EXCEPT ![c] = {x}]
     ELSE wanted' = [wanted EXCEPT ![c] = {}]
  /\ IF v = "manifest"
     THEN \E w \in Workloads : only' = [only EXCEPT ![c] = {w}]
     ELSE only' = [only EXCEPT ![c] = Workloads]
  /\ view' = [view EXCEPT ![c] = v]
  /\ step' = [step EXCEPT ![c] = First(v)]
  /\ said' = [said EXCEPT ![c] = "none"]
  /\ cards' = [cards EXCEPT ![c] = {}]
  /\ lists' = [lists EXCEPT ![c] = {}]
  /\ parts' = [parts EXCEPT ![c] = {}]
  /\ UNCHANGED <<about, told, held>>

(* SELECT ... WHERE r.id.  Mutant: only a run that is over is found.       *)
RowOfSettled(i) == {r \in runs : r.id = i /\ r.status # "running"}

RowOf(i) == {r \in runs : r.id = i}

(* get_run: without a row the answer is 404.                               *)
GetRun(c) ==
  /\ Reading(c, "run")
  /\ \/ \E r \in RowOf(about[c]) :
          /\ said' = [said EXCEPT ![c] = r.status]
          /\ Advance(c)
     \/ /\ RowOf(about[c]) = {}
        /\ step' = [step EXCEPT ![c] = "missing"]
        /\ UNCHANGED said
  /\ UNCHANGED <<about, told, view, only, wanted, cards, lists, parts, held>>

(* render_export looks again, and without a row the export is "".          *)
FindRunAgain(c) ==
  /\ Reading(c, "again")
  /\ IF RowOf(about[c]) = {} THEN step' = [step EXCEPT ![c] = "empty"]
     ELSE Advance(c)
  /\ UNCHANGED <<about, told, view, only, said, wanted, cards, lists, parts, held>>

(* The rows of a run. *)
RecsOfRun(i) == {x \in recs : x.run = i}
GroupsOfRun(i) == {g \in groups : g.run = i}

(* get_qos_recommendations, of which a manifest keeps those of its         *)
(* workload, and is "" when there is none; an answer that ends here shows  *)
(* them.                                                                   *)
GetRecs(c) ==
  LET found == {x \in RecsOfRun(about[c]) : x.uid \in only[c]} IN
  /\ Reading(c, "recs")
  /\ cards' = [cards EXCEPT ![c] = found]
  /\ \/ wanted[c] \subseteq found /\ ~ (view[c] = "manifest" /\ found = {}) /\ Advance(c)
     \/ ~ (wanted[c] \subseteq found) /\ step' = [step EXCEPT ![c] = "missing"]
     \/ view[c] = "manifest" /\ found = {} /\ step' = [step EXCEPT ![c] = "empty"]
  /\ held' = IF view[c] \in {"cards", "export", "manifest"}
             THEN [held EXCEPT ![c] = @ \union found] ELSE held
  /\ UNCHANGED <<about, told, view, only, said, wanted, lists, parts>>

(* get_qos_groups; the command line drops what it reads first. *)
GetGroups(c) ==
  /\ \/ /\ Reading(c, "titles")
        /\ UNCHANGED <<lists, held>>
     \/ /\ Reading(c, "groups")
        /\ lists' = [lists EXCEPT ![c] = GroupsOfRun(about[c])]
        /\ held' = [held EXCEPT ![c] = @ \union cards[c]]
  /\ Advance(c)
  /\ UNCHANGED <<about, told, view, only, said, wanted, cards, parts>>

(* get_qos_evidence and get_qos_peers: rows written and deleted with their *)
(* recommendation, where it has such details.                              *)
GetPart(c, p) ==
  /\ Reading(c, p)
  /\ parts' = [parts EXCEPT ![c] = @ \union
       {d \in {p} : \E x \in wanted[c] \intersect recs : d \in x.details}]
  /\ Advance(c)
  /\ UNCHANGED <<about, told, view, only, said, wanted, cards, lists, held>>

Select(c) ==
  \/ GetRun(c) \/ FindRunAgain(c) \/ GetRecs(c) \/ GetGroups(c)
  \/ \E p \in Parts : GetPart(c, p)

ViewNext ==
  \/ Next /\ UNCHANGED viewer
  \/ /\ \E c \in Clients :
          ListRuns(c) \/ (\E v \in Views : Ask(c, v)) \/ Select(c)
     /\ UNCHANGED vars

ViewSpec == ViewInit /\ [][ViewNext]_<<vars, viewer>>

-----------------------------------------------------------------------------
(***************************************************************************)
(* Properties.                                                             *)
(***************************************************************************)

ViewTypeOK ==
  /\ about \in [Clients -> Nat]
  /\ told \in [Clients -> {"none", "running", "completed", "failed"}]
  /\ said \in [Clients -> {"none", "running", "completed", "failed"}]
  /\ view \in [Clients -> AllViews] /\ only \in [Clients -> SUBSET Workloads]
  /\ step \in [Clients -> Resting \union {"run", "again", "recs", "titles", "groups"} \union Parts]
  /\ \A c \in Clients : step[c] \in Resting \union DOMAIN Course[view[c]]
  /\ wanted \in [Clients -> SUBSET RecRows] /\ cards \in [Clients -> SUBSET RecRows]
  /\ lists \in [Clients -> SUBSET GroupRows]
  /\ parts \in [Clients -> SUBSET Parts]
  /\ held \in [Clients -> SUBSET RecRows]

Gone(c) == about[c] \notin Ids(runs)
Answered(c, views) == step[c] = "ok" /\ view[c] \in views

(* groups_dto and the report of the command line (dto.py:114-129, cli.py:  *)
(* 90-131) put every recommendation they read under the group that counts  *)
(* it; none is dropped because its group was not read yet, unless the run  *)
(* is deleted meanwhile.                                                   *)
NothingReadIsDropped ==
  \A c \in Clients : Answered(c, {"groups", "print"}) =>
    \/ Gone(c)
    \/ \A x \in cards[c] : \E g \in lists[c] : g.id = x.group /\ x.uid \in g.members

(* A run listed as completed stays completed, and every view of it that is *)
(* answered (dto.py:80-129, export.py:20-39) shows all it promises: one    *)
(* recommendation for each workload analysed, or for the one asked for if  *)
(* it was analysed, in groups that are full.                               *)
CompletedViewsAreWhole ==
  \A c \in Clients : \A r \in runs :
    r.id = about[c] /\ told[c] = "completed" =>
      /\ said[c] \in {"none", "completed"}
      /\ Answered(c, Listing) \/ step[c] = "empty" =>
           {x.uid : x \in cards[c]} = uids[r.owner] \intersect only[c]
      /\ Answered(c, {"groups", "print"}) => \A g \in lists[c] :
           g.members = {x.uid : x \in {x \in cards[c] : x.group = g.id}}

(* 404 and the empty export of a run (dto.py:132-172, export.py:22-24)     *)
(* mean that the run was deleted, and so does evidence without the series  *)
(* or the peers its recommendation was stored with.  A manifest is empty   *)
(* (export.py:31-32) only for a workload no earlier answer recommended     *)
(* anything for, unless the run was deleted.                               *)
MissingMeansDeleted ==
  \A c \in Clients :
    /\ step[c] = "missing" => Gone(c)
    /\ step[c] = "empty" =>
         \/ Gone(c)
         \/ view[c] = "manifest" /\ \A x \in held[c] : x.uid \notin only[c]
    /\ Answered(c, {"evidence"}) =>
         Gone(c) \/ \A x \in wanted[c] : parts[c] = x.details

(* An answer shows at least what earlier answers about the run showed of   *)
(* the workloads it is about, unless the run is deleted.                   *)
ViewsOnlyGrow ==
  \A c \in Clients : Answered(c, Listing) =>
    {x \in held[c] : x.uid \in only[c]} \subseteq cards[c] \/ Gone(c)

(* Polling a run never loses ground: what a client was shown once, it can  *)
(* list and ask for as long as the run is there (app.py:336-382).          *)
WhatWasShownStays == MissingMeansDeleted /\ ViewsOnlyGrow

=============================================================================
