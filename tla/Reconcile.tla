------------------------------ MODULE Reconcile ------------------------------
(***************************************************************************)
(* How a boot reads what an earlier session stored (boot.tsx, and the      *)
(* loaders of store/index.ts).  A record may come from an older release,   *)
(* may be damaged, and may have been written before or after the record it *)
(* refers to: the readers keep what is known and put defaults for the rest.*)
(***************************************************************************)
EXTENDS Naturals, Sequences, SequencesExt

CONSTANTS
  Registry,      (* DEFAULT_SECTION_ORDER, a sequence of section ids       *)
  FileIds,       (* ids of program files, in the order of the keys         *)
  Byte,          (* the values of a setting that a boot accepts            *)
  Themes, DefaultTheme,
  DefaultFlush,  (* DEFAULT_UI_CONFIG.flushEveryNFrames                    *)
  DefaultFolded  (* the sections that start collapsed                      *)

ASSUME ReconcileAssumption ==
  /\ Registry \in Seq(STRING) /\ IsInjective(Registry)
  /\ {"appShell", "memory", "io"} \subseteq ToSet(Registry)
  /\ FileIds \in Seq(Nat \ {0}) /\ IsInjective(FileIds)
  /\ Byte \subseteq 0 .. 255
  /\ DefaultTheme \in Themes
  /\ DefaultFlush \in Nat \ {0}

FileId == ToSet(FileIds)

(* The settings that only a boot can apply, and the sections whose config  *)
(* holds them.                                                             *)
Settings  == {"memInit", "ioInit", "splitIo"}
SectionOf == [memInit |-> "memory", ioInit |-> "io", splitIo |-> "io"]

Unset     == 256                                (* no byte *)
NoConfig  == [k \in Settings \cup {"view"} |-> Unset]
NoTheme   == "none"
Section   == [id : STRING, folded : BOOLEAN, config : [Settings \cup {"view"} -> Nat]]
File      == [id : FileId, autoload : BOOLEAN]
NoRecord  == [sections |-> <<>>, fileOrder |-> <<>>, theme |-> NoTheme, flush |-> 0]
Missing   == [id |-> 0, autoload |-> FALSE]

Ids(items)          == {items[i].id : i \in DOMAIN items}
IdsOf(items)        == [i \in DOMAIN items |-> items[i].id]
Distinct(items)     == IsInjective(IdsOf(items))
IndexOf(items, id)  == CHOOSE i \in DOMAIN items : items[i].id = id
ItemWith(items, id) == items[IndexOf(items, id)]

(* The elements of s that are in T, in their order. *)
Kept(s, T) ==
  LET out[i \in 0 .. Len(s)] ==
        IF i = 0 THEN <<>>
        ELSE IF s[i] \in T THEN Append(out[i - 1], s[i]) ELSE out[i - 1]
  IN  out[Len(s)]

(* Variant: files that the stored order does not name are dropped.         *)
NamedOnly(items, order) ==
  LET named == Kept(order, Ids(items))
  IN  [i \in DOMAIN named |-> ItemWith(items, named[i])]

(* The items in the given order, the ones it does not name behind them:    *)
(* what a drag (reorderById) and a boot (reconcileFiles) do.               *)
InOrder(items, order) ==
  LET ids == Kept(order, Ids(items)) \o Kept(IdsOf(items), Ids(items) \ ToSet(order))
  IN  [i \in DOMAIN ids |-> ItemWith(items, ids[i])]

Rank(id)       == CHOOSE i \in DOMAIN Registry : Registry[i] = id
NewSection(id) == [id |-> id, folded |-> id \in DefaultFolded, config |-> NoConfig]

(* Variant: the sections of the record are all there are.                  *)
KnownOnly(out, id) == out

(* A section that the record does not know goes before the first one that  *)
(* the registry lists after it.                                            *)
WithSection(out, id) ==
  LET after == SelectInSeq(out, LAMBDA s : Rank(s.id) > Rank(id))
  IN  IF id \in Ids(out) THEN out
      ELSE InsertAt(out, IF after = 0 THEN Len(out) + 1 ELSE after, NewSection(id))

ReconcileSections(stored) ==
  LET known == {s \in ToSet(stored) : s.id \in ToSet(Registry)}
      out[i \in 0 .. Len(Registry)] ==
        IF i = 0 THEN Kept(stored, known) ELSE WithSection(out[i - 1], Registry[i])
  IN  out[Len(Registry)]

(* The file table, in key order.                                           *)
ListFiles(table) ==
  LET present == Kept(FileIds, {id \in FileId : table[id] # Missing})
  IN  [i \in DOMAIN present |-> table[present[i]]]

ReconcileFiles(table, ui) == InOrder(ListFiles(table), ui.fileOrder)

KnownKinds == {"pc-range", "hc-count"}
ReconcileBreakpoints(list) == Kept(list, {b \in ToSet(list) : b.kind \in KnownKinds})

SanitizeTheme(t)    == IF t \in Themes THEN t ELSE DefaultTheme
SanitizeUiConfig(n) == IF n \in Nat \ {0} THEN n ELSE DefaultFlush

(* A loaded theme that is neither absent nor known is written back.        *)
NeedsHealing(ui) == ui.theme \notin Themes \cup {NoTheme}

(* A setting as the section list has it, or else the value given.          *)
ConfigOf(list, id) == IF id \in Ids(list) THEN ItemWith(list, id).config ELSE NoConfig
SettingIn(list, s, else) ==
  LET v == ConfigOf(list, SectionOf[s])[s] IN IF v \in Byte THEN v ELSE else
=============================================================================
