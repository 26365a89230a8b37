---------------------------- MODULE StorePersist ----------------------------
(***************************************************************************)
(* What the explorer's store (store/index.ts) keeps across a reload, and   *)
(* the storage it keeps it in.  A verb changes memory at once and starts   *)
(* writes that nobody waits for; IndexedDB runs the writes of one object   *)
(* store in the order they were started, the three object stores           *)
(* independently, and any write may fail.  A page that goes away takes its *)
(* unfinished writes with it.  Saving the reload settings is the one write *)
(* that is waited for: the page reloads when it lands, and the settings    *)
(* are put back when it fails.                                             *)
(***************************************************************************)
EXTENDS Reconcile, FiniteSets

CONSTANTS
  BpId,          (* ids of breakpoints                                     *)
  DefaultBus,    (* DEFAULT_BUS_CONFIG                                     *)
  Staged,        (* the settings the user edits                            *)
  UiRecords, FileTables, BpLists,  (* what earlier sessions may have left  *)
  MaxVerbs,      (* bound: verbs of the user                               *)
  MaxFaults,     (* bound: writes that fail                                *)
  MaxBoots       (* bound: reloads                                         *)

(* A breakpoint; "unknown" is any kind that only another release knows.    *)
Breakpoint == [id : BpId, kind : KnownKinds \cup {"unknown"}, enabled : BOOLEAN]

(* What some release of this program has written: lists without            *)
(* repetitions.                                                            *)
Written(ui) ==
  /\ ui.sections \in Seq(Section) /\ Distinct(ui.sections)
  /\ ui.fileOrder \in Seq(Nat) /\ IsInjective(ui.fileOrder)

Tables == {t \in [FileId -> File \cup {Missing}] :
             \A id \in FileId : t[id] # Missing => t[id].id = id}

ASSUME PersistAssumption ==
  /\ \A ui \in UiRecords : Written(ui)
  /\ FileTables \subseteq Tables /\ BpLists \subseteq Seq(Breakpoint)
  /\ DefaultBus \in [Settings -> Byte]
  /\ Staged \subseteq Settings
  /\ {MaxVerbs, MaxFaults, MaxBoots} \subseteq Nat

VARIABLES
  paused,        (* the run loop's status, as the store mirrors it         *)
  sections, files, breakpoints, theme, flush,  (* the store's, in memory   *)
  pending,       (* pendingMemInit, pendingIoInit, pendingSplitIo          *)
  bus,           (* the settings the bus was built with                    *)
  backend,       (* "idb", or "memory" when IndexedDB did not open         *)
  uiTable, fileTable, bpTable,   (* what each backend holds                *)
  uiQueue, fileQueue, bpQueue,   (* IndexedDB writes started, oldest first *)
  lost,          (* history: what the last write of which failed           *)
  overtaken,     (* history: a save failed with newer writes behind it     *)
  verbs, faults, boots

look      == <<theme, flush>>
uiStore   == <<uiTable, uiQueue>>
fileStore == <<fileTable, fileQueue>>
bpStore   == <<bpTable, bpQueue>>
page      == <<bus, backend>>
history   == <<lost, overtaken>>
vars == <<paused, sections, files, breakpoints, look, pending, page,
          uiStore, fileStore, bpStore, history, verbs, faults, boots>>

Live    == [s \in Settings |-> SettingIn(sections, s, bus[s])]
Changed == {s \in Settings : pending[s] # Live[s]}    (* the dirty flags   *)
Folded(id) == ItemWith(sections, id).folded

-----------------------------------------------------------------------------
(* What a page that boots from these tables holds.  The bus is built from  *)
(* the same record that the store loads.                                   *)
Booted(ui, table, list) ==
  [sections    |-> ReconcileSections(ui.sections),
   files       |-> ReconcileFiles(table, ui),
   breakpoints |-> ReconcileBreakpoints(list),
   theme       |-> SanitizeTheme(ui.theme),
   flush       |-> SanitizeUiConfig(ui.flush),
   bus         |-> [s \in Settings |-> SettingIn(ui.sections, s, DefaultBus[s])]]

NoFiles == [id \in FileId |-> Missing]
NoSave  == [settings |-> <<>>]
NothingLost == [ui |-> FALSE, files |-> {}, breakpoints |-> FALSE]

Record(secs, fs, t, n) == [sections |-> secs, fileOrder |-> IdsOf(fs), theme |-> t, flush |-> n]
Unwaited(record) == [state |-> record, save |-> NoSave]

(* A theme that no release knows is written back at once.                  *)
Healing(ui, b) ==
  IF NeedsHealing(ui) THEN <<Unwaited(Record(b.sections, b.files, b.theme, b.flush))>> ELSE <<>>

Init ==
  \E ui \in UiRecords, table \in FileTables, list \in BpLists :
    LET b == Booted(ui, table, list)
    IN  /\ uiTable   = [idb |-> ui, memory |-> NoRecord]
        /\ fileTable = [idb |-> table, memory |-> NoFiles]
        /\ bpTable   = [idb |-> list, memory |-> <<>>]
        /\ backend = "idb" /\ paused = TRUE
        /\ sections = b.sections /\ files = b.files /\ breakpoints = b.breakpoints
        /\ theme = b.theme /\ flush = b.flush /\ bus = b.bus /\ pending = b.bus
        /\ uiQueue = Healing(ui, b) /\ fileQueue = <<>> /\ bpQueue = <<>>
        /\ lost = NothingLost /\ overtaken = FALSE
        /\ verbs = 0 /\ faults = 0 /\ boots = 0

(* A page goes away with the writes it has in flight, and another boots.   *)
(* IndexedDB holds ui, and may or may not open.                            *)
Reload(ui) ==
  /\ boots < MaxBoots /\ boots' = boots + 1
  /\ \E where \in {"idb", "memory"} :
       LET found == IF where = "idb" THEN ui ELSE NoRecord
           b == IF where = "idb" THEN Booted(ui, fileTable.idb, bpTable.idb)
                                 ELSE Booted(NoRecord, NoFiles, <<>>)
       IN  /\ backend' = where /\ paused' = TRUE
           /\ sections' = b.sections /\ files' = b.files /\ breakpoints' = b.breakpoints
           /\ theme' = b.theme /\ flush' = b.flush /\ bus' = b.bus /\ pending' = b.bus
           /\ uiTable'   = [idb |-> ui, memory |-> NoRecord]
           /\ fileTable' = [fileTable EXCEPT !.memory = NoFiles]
           /\ bpTable'   = [bpTable EXCEPT !.memory = <<>>]
           /\ uiQueue' = Healing(found, b) /\ fileQueue' = <<>> /\ bpQueue' = <<>>
  /\ lost' = NothingLost /\ overtaken' = FALSE

-----------------------------------------------------------------------------
(* Starting a write: IndexedDB queues it with the value it has now, the    *)
(* memory backend has stored its copy when the call returns.               *)

SaveUi(writes) ==
  IF backend = "idb"
    THEN uiQueue' = uiQueue \o writes /\ UNCHANGED uiTable
    ELSE uiTable' = [uiTable EXCEPT !.memory = Last(writes).state] /\ UNCHANGED uiQueue

PersistUi == SaveUi(<<Unwaited(Record(sections', files', theme', flush'))>>)

(* Variant: the write starts once an earlier one is out of the way.        *)
SaveFileLater(id, f) ==
  IF backend = "idb"
    THEN fileQueue' = <<[id |-> id, file |-> f]>> \o fileQueue /\ UNCHANGED fileTable
    ELSE fileTable' = [fileTable EXCEPT !.memory[id] = f] /\ UNCHANGED fileQueue

SaveFile(id, f) ==
  IF backend = "idb"
    THEN fileQueue' = Append(fileQueue, [id |-> id, file |-> f]) /\ UNCHANGED fileTable
    ELSE fileTable' = [fileTable EXCEPT !.memory[id] = f] /\ UNCHANGED fileQueue

SaveBreakpoints(list) ==
  IF backend = "idb"
    THEN bpQueue' = Append(bpQueue, list) /\ UNCHANGED bpTable
    ELSE bpTable' = [bpTable EXCEPT !.memory = list] /\ UNCHANGED bpQueue

-----------------------------------------------------------------------------
(* The verbs. *)

(* The frame of a section will not fold App-shell over staged edits.       *)
ToggleSectionFold(id) ==
  /\ ~(id = "appShell" /\ ~Folded(id) /\ Changed # {})
  /\ sections' = [sections EXCEPT ![IndexOf(sections, id)].folded = ~@]
  /\ UNCHANGED <<files, breakpoints, look, pending, fileStore, bpStore, paused>>
  /\ PersistUi

(* Dropping a section elsewhere. *)
ReorderSections(order) ==
  /\ sections' = InOrder(sections, order)
  /\ UNCHANGED <<files, breakpoints, look, pending, fileStore, bpStore, paused>>
  /\ PersistUi

(* A view choice of a section, of which there is one to make: it takes     *)
(* effect at once.                                                         *)
UpdateSectionConfig(id) ==
  /\ ItemWith(sections, id).config.view = Unset
  /\ sections' = [sections EXCEPT ![IndexOf(sections, id)].config.view = 1]
  /\ UNCHANGED <<files, breakpoints, look, pending, fileStore, bpStore, paused>>
  /\ PersistUi

SetTheme(t) ==
  /\ SanitizeTheme(t) # theme
  /\ theme' = SanitizeTheme(t)
  /\ UNCHANGED <<sections, files, flush>>
  /\ UNCHANGED <<breakpoints, pending, fileStore, bpStore, paused>>
  /\ PersistUi

SetUiConfig(n) ==
  /\ n \in Nat \ {0} /\ n # flush
  /\ flush' = n
  /\ UNCHANGED <<sections, files, theme>>
  /\ UNCHANGED <<breakpoints, pending, fileStore, bpStore, paused>>
  /\ PersistUi

(* shortId is fresh.                                                       *)
Fresh(id) ==
  /\ id \notin Ids(files) /\ fileTable.idb[id] = Missing
  /\ id \notin Ids(fileQueue)
  /\ \A r \in {uiTable.idb} \cup {uiQueue[i].state : i \in DOMAIN uiQueue} :
       id \notin ToSet(r.fileOrder)

AddFile(id) ==
  /\ Fresh(id)
  /\ LET f == [id |-> id, autoload |-> FALSE]
     IN  files' = Append(files, f) /\ SaveFile(id, f)
  /\ UNCHANGED <<sections, look>>
  /\ UNCHANGED <<breakpoints, pending, bpStore, paused>>
  /\ PersistUi

RemoveFile(id) ==
  /\ id \in Ids(files)
  /\ files' = RemoveAt(files, IndexOf(files, id))
  /\ SaveFile(id, Missing)
  /\ UNCHANGED <<sections, look>>
  /\ UNCHANGED <<breakpoints, pending, bpStore, paused>>
  /\ PersistUi

(* A click on the autoload box; setFileLoadAddr saves in the same way.     *)
SetFileAutoload(id) ==
  /\ id \in Ids(files)
  /\ files' = [files EXCEPT ![IndexOf(files, id)].autoload = ~@]
  /\ SaveFile(id, ItemWith(files', id))
  /\ UNCHANGED <<sections, breakpoints, look, pending, uiStore, bpStore, paused>>

ReorderFiles(order) ==
  /\ files' = InOrder(files, order)
  /\ UNCHANGED <<sections, look>>
  /\ UNCHANGED <<breakpoints, pending, fileStore, bpStore, paused>>
  /\ PersistUi

(* Each breakpoint verb ends by saving the whole list.                     *)
SyncBreakpoints(list) ==
  /\ breakpoints' = list
  /\ SaveBreakpoints(list)
  /\ UNCHANGED <<sections, files, look, pending, uiStore, fileStore, paused>>

ChangeBreakpoints(id) ==
  \/ /\ id \notin Ids(breakpoints)
     /\ SyncBreakpoints(Append(breakpoints, [id |-> id, kind |-> "pc-range", enabled |-> TRUE]))
  \/ /\ id \in Ids(breakpoints)
     /\ LET at == IndexOf(breakpoints, id)
        IN  \/ SyncBreakpoints(RemoveAt(breakpoints, at))
            \/ SyncBreakpoints([breakpoints EXCEPT ![at].enabled = ~@])

RunOrPause ==
  /\ paused' = ~paused
  /\ UNCHANGED <<sections, files, breakpoints, look, pending, uiStore, fileStore, bpStore>>

-----------------------------------------------------------------------------
(* App-shell's staged settings. *)

SetPending(s, v) ==
  /\ paused /\ ~Folded("appShell") /\ v # pending[s]
  /\ pending' = [pending EXCEPT ![s] = v]
  /\ UNCHANGED <<sections, files, breakpoints, look, uiStore, fileStore, bpStore, paused>>

WithFold(secs) == [secs EXCEPT ![IndexOf(secs, "appShell")].folded = TRUE]

Discard ==
  /\ Changed # {} /\ ~Folded("appShell")
  /\ pending' = Live
  /\ sections' = WithFold(sections)
  /\ UNCHANGED <<files, look>>
  /\ UNCHANGED <<breakpoints, fileStore, bpStore, paused>>
  /\ PersistUi

(* secs with the settings in set, at the given places, holding values.     *)
WithSettings(secs, set, places, values) ==
  [i \in DOMAIN secs |->
     [secs[i] EXCEPT !.config =
        [k \in DOMAIN @ |-> IF k \in set /\ places[SectionOf[k]] = i THEN values[k] ELSE @[k]]]]

(* Variant: the record is put together before the settings are in it.      *)
SavedEarly(set, places) == WithFold(sections)

SavedSections(set, places) == WithSettings(WithFold(sections), set, places, pending)

(* The Save button: App-shell folds, which writes on its own account, and  *)
(* then commitReloadSettings puts the staged values into the sections and  *)
(* saves.  The failure handler keeps the places of the two sections and    *)
(* the old values.                                                         *)
Save ==
  /\ paused /\ Changed # {} /\ ~Folded("appShell")
  /\ LET places == [memory |-> IndexOf(sections, "memory"), io |-> IndexOf(sections, "io")]
         folded == Unwaited(Record(WithFold(sections), files, theme, flush))
         saved  == SavedSections(Changed, places)
         commit == [state |-> Record(saved, files, theme, flush),
                    save  |-> [settings |-> pending, changed |-> Changed,
                               prev |-> Live, places |-> places]]
     IN  IF backend = "idb"
           THEN /\ sections' = WithSettings(WithFold(sections), Changed, places, pending)
                /\ SaveUi(<<folded, commit>>)
                /\ UNCHANGED <<files, breakpoints, look, pending, page, fileStore, bpStore,
                               history, paused, boots, faults>>
           ELSE Reload(uiTable.idb) /\ UNCHANGED faults

(* App-shell's button and Shift+R.                                         *)
ColdBoot == paused /\ Reload(uiTable.idb) /\ UNCHANGED <<verbs, faults>>

-----------------------------------------------------------------------------
(* IndexedDB. *)

UiWriteLands ==
  /\ uiQueue # <<>>
  /\ LET w == Head(uiQueue)
     IN  IF w.save # NoSave
           THEN Reload(w.state) /\ UNCHANGED <<verbs, faults>>
           ELSE /\ uiTable' = [uiTable EXCEPT !.idb = w.state]
                /\ uiQueue' = Tail(uiQueue)
                /\ lost' = [lost EXCEPT !.ui = FALSE]
                /\ UNCHANGED <<sections, files, breakpoints, look, pending, page, fileStore,
                               bpStore, overtaken, paused, verbs, faults, boots>>

(* Variant: the settings of the io section keep the staged values.         *)
UndoneMemory(save) == WithSettings(sections, save.changed \cap {"memInit"}, save.places, save.prev)

Undone(save) == WithSettings(sections, save.changed, save.places, save.prev)

(* A failed save puts the settings back where the sections were when it    *)
(* was started; any other failed write leaves memory ahead of the table.   *)
UiWriteFails ==
  /\ uiQueue # <<>> /\ faults < MaxFaults /\ faults' = faults + 1
  /\ uiQueue' = Tail(uiQueue)
  /\ LET w == Head(uiQueue)
     IN  IF w.save = NoSave
           THEN /\ lost' = [lost EXCEPT !.ui = TRUE]
                /\ UNCHANGED <<sections, pending, overtaken>>
           ELSE /\ sections' = Undone(w.save)
                /\ pending' = w.save.prev
                /\ overtaken' = (overtaken \/ Tail(uiQueue) # <<>>)
                /\ UNCHANGED lost
  /\ UNCHANGED <<uiTable, files, breakpoints, look, page, fileStore, bpStore, paused, verbs, boots>>

FileWriteEnds ==
  /\ fileQueue # <<>>
  /\ fileQueue' = Tail(fileQueue)
  /\ LET w == Head(fileQueue)
     IN  \/ /\ fileTable' = [fileTable EXCEPT !.idb[w.id] = w.file]
            /\ lost' = [lost EXCEPT !.files = @ \ {w.id}]
            /\ UNCHANGED faults
         \/ /\ faults < MaxFaults /\ faults' = faults + 1
            /\ lost' = [lost EXCEPT !.files = @ \cup {w.id}]
            /\ UNCHANGED fileTable
  /\ UNCHANGED <<sections, files, breakpoints, look, pending, page, uiStore, bpStore,
                 overtaken, paused, verbs, boots>>

BpWriteEnds ==
  /\ bpQueue # <<>>
  /\ bpQueue' = Tail(bpQueue)
  /\ \/ /\ bpTable' = [bpTable EXCEPT !.idb = Head(bpQueue)]
        /\ lost' = [lost EXCEPT !.breakpoints = FALSE]
        /\ UNCHANGED faults
     \/ /\ faults < MaxFaults /\ faults' = faults + 1
        /\ lost' = [lost EXCEPT !.breakpoints = TRUE]
        /\ UNCHANGED bpTable
  /\ UNCHANGED <<sections, files, breakpoints, look, pending, page, uiStore, fileStore,
                 overtaken, paused, verbs, boots>>

-----------------------------------------------------------------------------
Orders(items) == SetToSeqs(Ids(items))

Edit ==
  /\ \/ \E id \in Ids(sections) : ToggleSectionFold(id) \/ UpdateSectionConfig(id)
     \/ \E order \in Orders(sections) \ {IdsOf(sections)} : ReorderSections(order)
     \/ \E t \in Themes : SetTheme(t)
     \/ \E n \in 1 .. 2 : SetUiConfig(n)
     \/ \E id \in FileId : AddFile(id) \/ RemoveFile(id) \/ SetFileAutoload(id)
     \/ \E order \in Orders(files) \ {IdsOf(files)} : ReorderFiles(order)
     \/ \E id \in BpId : ChangeBreakpoints(id)
     \/ Discard
  /\ UNCHANGED <<page, history, faults, boots>>

(* What changes no table and needs no bound.                               *)
Stage ==
  /\ RunOrPause \/ \E s \in Staged, v \in Byte : SetPending(s, v)
  /\ UNCHANGED <<page, history, verbs, faults, boots>>

Verb == verbs < MaxVerbs /\ verbs' = verbs + 1 /\ (Edit \/ Save)

Next == Stage \/ Verb \/ ColdBoot \/ UiWriteLands \/ UiWriteFails \/ FileWriteEnds \/ BpWriteEnds

Spec == Init /\ [][Next]_vars

-----------------------------------------------------------------------------
(* Properties. *)

Saves(queue) == {i \in DOMAIN queue : queue[i].save # NoSave}

TypeOK ==
  /\ Live \in [Settings -> Byte] /\ bus \in [Settings -> Byte] /\ pending \in [Settings -> Byte]
  /\ \A i \in DOMAIN files : files[i].id \in FileId
  /\ \A i \in DOMAIN breakpoints : breakpoints[i].id \in BpId
  /\ theme \in Themes /\ flush \in Nat \ {0}
  /\ paused \in BOOLEAN /\ backend \in {"idb", "memory"}

(* Whatever an earlier release stored and however the user drags, the page *)
(* shows every section of the registry once.                               *)
EverySectionOnce == Len(sections) = Len(Registry) /\ Ids(sections) = ToSet(Registry)

(* A reload shows what the page shows: once the writes of a table have     *)
(* ended, and the last of them did not fail, booting from it gives back    *)
(* what memory holds.  A save that failed with newer writes behind it is   *)
(* the exception: they carry the settings it took back.                    *)
Shown(secs) == [i \in DOMAIN secs |->
  [id |-> secs[i].id, folded |-> secs[i].folded, view |-> secs[i].config.view]]

ReloadIsIdentity ==
  LET b == Booted(uiTable.idb, fileTable.idb, bpTable.idb)
      uiSettled   == uiQueue = <<>> /\ ~lost.ui /\ ~overtaken
      fileSettled == fileQueue = <<>> /\ lost.files = {}
  IN  backend = "idb" =>
        /\ uiSettled => /\ <<b.theme, b.flush, b.bus>> = <<theme, flush, Live>>
                        /\ Shown(b.sections) = Shown(sections)
        /\ uiSettled /\ fileSettled => b.files = files
        /\ bpQueue = <<>> /\ ~lost.breakpoints => b.breakpoints = breakpoints

(* A file and the order of the files are stored apart, and a page may go   *)
(* away between the two writes: the next one shows every stored file once. *)
TornSaveKeepsFiles ==
  LET b == ReconcileFiles(fileTable.idb, uiTable.idb)
  IN  /\ Ids(b) = {id \in FileId : fileTable.idb[id] # Missing}
      /\ Len(b) = Cardinality(Ids(b))

(* The page that a save reloads builds its bus from what the user saved,   *)
(* whatever was written before it and whatever is still in flight.         *)
SavedSettingsAreBooted ==
  [][(UiWriteLands /\ Head(uiQueue).save # NoSave /\ backend' = "idb")
       => bus' = Head(uiQueue).save.settings]_vars

(* A save that fails is undone: the settings shown are those of the bus    *)
(* again, and nothing is left to save.                                     *)
FailedSaveIsUndone ==
  [][(UiWriteFails /\ Head(uiQueue).save # NoSave /\ ~overtaken')
       => Live' = bus /\ Changed' = {}]_vars
=============================================================================
