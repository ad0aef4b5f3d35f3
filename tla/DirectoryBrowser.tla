-------------------------- MODULE DirectoryBrowser --------------------------
(***************************************************************************)
(* The directory dialog of the New Project flow: two panes (a level and    *)
(* what its selected row holds), an editor for the path, a dialog to make  *)
(* a folder and a choice of the host. Listings are answered late; the      *)
(* operator does not wait.  Each action is one event handler, effect,      *)
(* timer or settled promise, with the render that follows.                 *)
(***************************************************************************)
EXTENDS Integers, FiniteSets

CONSTANTS Dirs, Up,        \* directories, 0 the home; the parent of each of the others
          PickHosts,
          MaxIntents       \* bound: listings launched

ASSUME PickerAssumption ==
  Dirs \subseteq Nat /\ 0 \in Dirs /\ Up \in [Dirs \ {0} -> Dirs] /\ MaxIntents \in Nat

VARIABLES
  dialog,           \* the state of the component, see NoDialog
  scans,            \* listings that have not settled, the superseded ones too
  requestSeq,       \* the newest intent
  openGeneration,
  creation,         \* the folder being made, with the generation it began in
  route, shownHost  \* the host calls go to, the one this flow shows

pickVars == <<dialog, scans, requestSeq, openGeneration, creation, route, shownHost>>

None == <<>>
NoDraft == [dir |-> -1, alias |-> FALSE]
Blank == [dir |-> -2, alias |-> FALSE]
NoDialog == [open |-> FALSE, busy |-> FALSE, parent |-> None, selected |-> None, child |-> None,
           loading |-> FALSE, error |-> FALSE, draft |-> NoDraft, timer |-> FALSE,
           previewSuspended |-> FALSE, scanned |-> None, folder |-> "closed"]

\* A listing, or a row: which host's directory it is.
Level(s) == <<s.host, s.dir>>
Below(level) == {<<level[1], d>> : d \in {x \in Dirs \ {0} : Up[x] = level[2]}}

\* targetPath: the selection, else the level.
Target == IF dialog.selected # None THEN dialog.selected ELSE dialog.parent
parentInert == dialog.busy \/ dialog.folder # "closed"
Gesture == dialog.open /\ ~parentInert /\ requestSeq < MaxIntents

-----------------------------------------------------------------------------
(* Listings. *)

supersede == requestSeq' = requestSeq + 1
Scan(leg, dir, submitted) ==
  [seq |-> requestSeq + 1, leg |-> leg, dir |-> dir, host |-> route', submitted |-> submitted,
   target |-> None, landed |-> FALSE]
launchListing(others, leg, dir, submitted) ==
  supersede /\ scans' = others \cup {Scan(leg, dir, submitted)}

\* Variant, not the code: whatever settles is taken.
AnyScan(s) == TRUE

\* seq === requestSeq.current
CurrentScan(s) == s.seq = requestSeq

\* land: a submitted path may fail aloud, one that the draft names may not.
land(d, dir, submitted) ==
  /\ launchListing(scans, "target", dir, submitted)
  /\ dialog' = [d EXCEPT !.loading = TRUE, !.error = @ /\ ~submitted]

\* navigate without a path: the home.
Home(d) == land(d, 0, TRUE)

settle(s, d) ==
  IF s.submitted THEN [d EXCEPT !.loading = FALSE, !.draft = NoDraft, !.timer = FALSE]
  ELSE [d EXCEPT !.loading = FALSE, !.error = FALSE]

landSingle(s, level) ==
  IF s.landed THEN dialog
  ELSE settle(s, [dialog EXCEPT !.parent = level, !.selected = None, !.child = None])

\* The target is there: it lands alone at the home, else its parent is listed too.
TargetListed(s) ==
  LET named == IF s.submitted THEN dialog.scanned ELSE <<dialog.draft, Level(s)>> IN
  IF s.dir = 0
  THEN dialog' = [landSingle(s, Level(s)) EXCEPT !.scanned = named] /\ scans' = scans \ {s}
  ELSE /\ dialog' = [dialog EXCEPT !.scanned = named]
       /\ scans' = (scans \ {s}) \cup {[s EXCEPT !.leg = "parent", !.dir = Up[s.dir], !.host = route,
                                                 !.target = Level(s)]}

\* Both panes at once, or later over the one that has landed; a level that was cut short
\* may lack the target.
ParentListed(s) ==
  /\ \E found \in BOOLEAN :
       dialog' = IF found
                 THEN settle(s, [dialog EXCEPT !.parent = Level(s), !.selected = s.target, !.child = s.target])
                 ELSE landSingle(s, s.target)
  /\ scans' = scans \ {s}

\* PARENT_LEG_WAIT_MS is over.
LegWaitOver(s) ==
  /\ s.leg = "parent" /\ s.submitted /\ ~s.landed /\ CurrentScan(s)
  /\ dialog' = landSingle(s, s.target)
  /\ scans' = (scans \ {s}) \cup {[s EXCEPT !.landed = TRUE]}
  /\ UNCHANGED <<requestSeq, openGeneration, creation, route, shownHost>>

select(others, d, row) ==
  /\ launchListing(others, "pick", row[2], FALSE)
  /\ dialog' = [d EXCEPT !.draft = NoDraft, !.timer = FALSE, !.selected = row, !.child = None,
                         !.loading = TRUE, !.error = FALSE]

PickListed(s) ==
  /\ dialog' = [dialog EXCEPT !.child = Level(s), !.loading = FALSE]
  /\ scans' = scans \ {s}

Dropped(s) == scans' = scans \ {s} /\ UNCHANGED <<dialog, requestSeq>>

\* Where a folder was made: it is selected.
Relisted(s) == select(scans \ {s}, [dialog EXCEPT !.parent = Level(s)], s.target)

Listed(s) ==
  /\ UNCHANGED <<openGeneration, creation, route, shownHost>>
  /\ \/ ~CurrentScan(s) /\ Dropped(s)
     \/ CurrentScan(s) /\ s.leg = "target" /\ TargetListed(s) /\ UNCHANGED requestSeq
     \/ CurrentScan(s) /\ s.leg = "parent" /\ ParentListed(s) /\ UNCHANGED requestSeq
     \/ CurrentScan(s) /\ s.leg = "pick" /\ PickListed(s) /\ UNCHANGED requestSeq
     \/ CurrentScan(s) /\ s.leg = "relist" /\ Relisted(s)

\* An abort too; the parent of a target fails silently.
ListingFails(s) ==
  /\ \/ ~CurrentScan(s) /\ Dropped(s)
     \/ /\ CurrentScan(s) /\ scans' = scans \ {s} /\ UNCHANGED requestSeq
        /\ dialog' = CASE s.leg = "parent" -> landSingle(s, s.target)
                       [] s.leg = "target" -> [dialog EXCEPT !.loading = FALSE, !.error = @ \/ s.submitted]
                       [] s.leg = "pick" -> [dialog EXCEPT !.loading = FALSE, !.error = TRUE, !.selected = None]
                       [] OTHER -> [dialog EXCEPT !.loading = FALSE, !.error = TRUE]
  /\ UNCHANGED <<openGeneration, creation, route, shownHost>>

-----------------------------------------------------------------------------
(* The operator. *)

Elsewhere == UNCHANGED <<openGeneration, creation, route, shownHost>>

Pick == Gesture /\ dialog.parent # None /\ Elsewhere /\ \E row \in Below(dialog.parent) : select(scans, dialog, row)

\* advance: a row of the right pane.
Advance ==
  /\ Gesture /\ dialog.child # None /\ Elsewhere
  /\ \E row \in Below(dialog.child) : select(scans, [dialog EXCEPT !.parent = dialog.child], row)

Shown == IF dialog.child # None THEN dialog.child ELSE dialog.parent

\* A crumb, while there is no draft; the roots and Up at any time.
Jump ==
  /\ Gesture /\ Shown # None /\ Elsewhere
  /\ \E dir \in Dirs : /\ dialog.draft = NoDraft \/ dir = 0 \/ (Shown[2] # 0 /\ dir = Up[Shown[2]])
                       /\ land(dialog, dir, TRUE)

\* A new text: the wait for it begins again.
Typed(d, text) == [d EXCEPT !.draft = text, !.timer = TRUE, !.loading = FALSE, !.previewSuspended = FALSE]

\* The editor opens with what is selected.
OpenEditor ==
  /\ Gesture /\ dialog.draft = NoDraft /\ supersede
  /\ dialog' = Typed(dialog, IF dialog.parent = None THEN Blank ELSE [NoDraft EXCEPT !.dir = Target[2]])
  /\ UNCHANGED scans /\ Elsewhere

\* onChange: a directory may be spelled as the host would not.
Type ==
  /\ Gesture /\ dialog.draft # NoDraft /\ supersede
  /\ \E text \in [dir : Dirs, alias : BOOLEAN] \cup {Blank} : dialog' = Typed(dialog, text)
  /\ UNCHANGED scans /\ Elsewhere

\* Enter: the directory that the draft names, or one of its rows.
Submit ==
  /\ Gesture /\ dialog.draft.dir \in Dirs /\ Elsewhere
  /\ \E dir \in {dialog.draft.dir} \cup {row[2] : row \in Below(<<route, dialog.draft.dir>>)} :
       land([dialog EXCEPT !.previewSuspended = TRUE], dir, TRUE)

\* Escape, or the focus leaves.
cancelPathEdit ==
  /\ Gesture /\ dialog.draft # NoDraft /\ Elsewhere
  /\ LET d == [dialog EXCEPT !.loading = FALSE, !.draft = NoDraft, !.timer = FALSE, !.error = FALSE,
                             !.selected = IF dialog.child = None THEN None ELSE @]
     IN IF d.parent = None THEN Home(d) ELSE supersede /\ dialog' = d /\ UNCHANGED scans

\* readDraft: the level is the one the draft names, however it is spelled.
Answers(level, text) == level[2] = text.dir /\ (~text.alias \/ dialog.scanned = <<text, level>>)

\* DRAFT_PREVIEW_DEBOUNCE_MS after the last key.
DraftRests ==
  /\ dialog.timer /\ requestSeq < MaxIntents /\ Elsewhere
  /\ LET d == [dialog EXCEPT !.timer = FALSE] IN
     IF d.previewSuspended \/ Shown = None \/ d.draft.dir \notin Dirs \/ Answers(Shown, d.draft)
     THEN dialog' = d /\ UNCHANGED <<scans, requestSeq>>
     ELSE land(d, d.draft.dir, FALSE)

-----------------------------------------------------------------------------
(* A new folder. *)

\* Variant, not the code: a listing that comes does not matter.
MayAct == Gesture /\ dialog.draft = NoDraft

MayCommit == Gesture /\ ~dialog.loading /\ dialog.draft = NoDraft

NewFolder ==
  /\ MayCommit /\ dialog.parent # None
  /\ dialog' = [dialog EXCEPT !.folder = "named"] /\ UNCHANGED <<scans, requestSeq>> /\ Elsewhere

LeaveFolder ==
  /\ dialog.folder = "named" /\ dialog' = [dialog EXCEPT !.folder = "closed"]
  /\ UNCHANGED <<scans, requestSeq>> /\ Elsewhere

confirmCreate ==
  /\ dialog.folder = "named" /\ creation = None
  /\ dialog' = [dialog EXCEPT !.folder = "creating"]
  /\ \E row \in Below(Target) : creation' = <<openGeneration, Target, row>>
  /\ UNCHANGED <<scans, requestSeq, openGeneration, route, shownHost>>

Mine == creation[1] = openGeneration

FolderMade ==
  /\ creation # None /\ creation' = None
  /\ UNCHANGED <<openGeneration, route, shownHost>>
  /\ IF Mine
     THEN /\ supersede /\ scans' = scans \cup {[Scan("relist", creation[2][2], TRUE) EXCEPT !.target = creation[3]]}
          /\ dialog' = [dialog EXCEPT !.folder = "closed", !.loading = TRUE, !.error = FALSE]
     ELSE UNCHANGED <<dialog, scans, requestSeq>>

FolderRefused ==
  /\ creation # None /\ creation' = None
  /\ dialog' = IF Mine THEN [dialog EXCEPT !.folder = "named"] ELSE dialog
  /\ UNCHANGED <<scans, requestSeq, openGeneration, route, shownHost>>

-----------------------------------------------------------------------------
(* The owner of the flow and the hosts. *)

\* The effect on open and on the host: all begins anew at the home.
Fresh == openGeneration' = openGeneration + 1 /\ Home([NoDialog EXCEPT !.open = TRUE])

OwnerOpens ==
  /\ ~dialog.open /\ requestSeq < MaxIntents /\ UNCHANGED <<creation, route, shownHost>> /\ Fresh

\* Panes are left as they are until the next time.
Shut == [dialog EXCEPT !.open = FALSE, !.busy = FALSE, !.loading = FALSE, !.error = FALSE, !.draft = NoDraft,
                       !.timer = FALSE, !.folder = "closed"]

OwnerCloses ==
  /\ dialog.open /\ requestSeq < MaxIntents /\ supersede /\ dialog' = Shut /\ openGeneration' = openGeneration + 1
  /\ UNCHANGED <<scans, creation, route, shownHost>>

\* Open: the owner makes the workspace, and closes the dialog or not.
Adopt ==
  /\ MayCommit /\ Target # None /\ dialog' = [dialog EXCEPT !.busy = TRUE]
  /\ UNCHANGED <<scans, requestSeq>> /\ Elsewhere

NotAdopted ==
  /\ dialog.busy /\ dialog' = [dialog EXCEPT !.busy = FALSE] /\ UNCHANGED <<scans, requestSeq>> /\ Elsewhere

\* choose: the picker is there unless the owner is busy.
ChooseHost ==
  /\ dialog.open /\ ~dialog.busy /\ requestSeq < MaxIntents
  /\ \E h \in PickHosts \ {shownHost} : route' = h /\ shownHost' = h
  /\ Fresh /\ UNCHANGED creation

\* The other flow of the page, or its host selector.
ChosenElsewhere ==
  /\ ~dialog.open /\ \E h \in PickHosts : route' = h
  /\ UNCHANGED <<dialog, scans, requestSeq, openGeneration, creation, shownHost>>

-----------------------------------------------------------------------------
PickInit ==
  /\ dialog = NoDialog /\ scans = {} /\ requestSeq = 0 /\ openGeneration = 0 /\ creation = None
  /\ route \in PickHosts /\ shownHost = route

PickNext ==
  \/ Pick \/ Advance \/ Jump \/ OpenEditor \/ Type \/ Submit \/ cancelPathEdit \/ DraftRests
  \/ NewFolder \/ LeaveFolder \/ confirmCreate \/ FolderMade \/ FolderRefused
  \/ OwnerOpens \/ OwnerCloses \/ Adopt \/ NotAdopted \/ ChooseHost \/ ChosenElsewhere
  \/ \E s \in scans : LegWaitOver(s) \/ Listed(s) \/ ListingFails(s)

PickSpec == PickInit /\ [][PickNext]_pickVars

-----------------------------------------------------------------------------
(* The right pane holds what the selected row of the left one does, and    *)
(* all is of the host that calls go to.                                    *)
PanesTrue ==
  dialog.open =>
    /\ dialog.child # None => dialog.child = dialog.selected
    /\ dialog.selected # None => dialog.selected \in Below(dialog.parent)
    /\ dialog.parent # None => dialog.parent[1] = route

(* The dialog is blank, or half empty, only while something comes or it    *)
(* says that nothing does.                                                 *)
SomethingComes ==
  /\ dialog.loading => \E s \in scans : CurrentScan(s) /\ ~s.landed
  /\ dialog.open /\ ~dialog.loading /\ dialog.draft = NoDraft /\ ~dialog.error =>
       dialog.parent # None /\ (dialog.selected # None => dialog.child # None)

(* A folder is made in the directory that is named, and the one the owner  *)
(* takes stays on the screen.                                              *)
TargetKept ==
  [][/\ dialog.folder # "closed" /\ dialog'.folder # "closed" => Target' = Target
     /\ dialog.busy /\ dialog'.busy => Target' = Target]_pickVars

PanesSound == PanesTrue /\ SomethingComes
=============================================================================
