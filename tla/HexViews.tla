------------------------------ MODULE HexViews ------------------------------
(***************************************************************************)
(* The sections that show memory and ports: the hex grid with its in-place *)
(* editors (sections/hexGrid.tsx, hexCell.tsx, io/portGrid.tsx), the page  *)
(* buttons, and the instruction preview.  The bus's arrays are not         *)
(* reactive: a view re-reads them when a version counter of the store is   *)
(* bumped, and the CPU's own writes bump none.                             *)
(*                                                                         *)
(* Pixels are counted in rows.  One grid is followed at a time: the one of *)
(* memory, or the one of a plane of ports.                                 *)
(***************************************************************************)
EXTENDS Disasm, Z80Encoding

CONSTANTS
  Size,            (* ADDR_SPACE                                           *)
  Ports,           (* ports of the 8-bit view, a divisor of Size           *)
  PageSizes, RowSizes,
  ViewportRows, Overscan,
  PreviewCount,    (* PREVIEW_INSN_COUNT                                   *)
  Files,           (* the files of the Program section, in display order   *)
  Typed,           (* bytes the user types; NotAByte for anything else     *)
  Images,          (* initial contents of memory, with a number of verbs,  *)
                   (* the grids followed and how they were configured      *)
  Watches, Pcs     (* bounds: addresses watched, where the CPU may stop    *)

Addr == 0 .. Size - 1
Byte == 0 .. 255

NotAByte == 256
NoText   == -1
NoEditor == [row |-> -1]

ASSUME ViewAssumption ==
  /\ Size \in Nat \ {0} /\ Ports \in Nat \ {0} /\ Size % Ports = 0
  /\ PageSizes \subseteq Nat \ {0} /\ PageSizes # {}
  /\ RowSizes \subseteq Nat \ {0} /\ RowSizes # {}
  /\ \A ps \in PageSizes : Size % ps = 0 /\ ps < Size
  /\ \A ps \in PageSizes, n \in RowSizes : ps % n = 0 /\ Ports % n = 0
  /\ ViewportRows \in Nat \ {0} /\ Overscan \in Nat
  /\ PreviewCount \in Nat \ {0}
  /\ Files \in Seq([loadAddr : Addr, bytes : Seq(Byte)])
  /\ Typed \subseteq Byte \cup {NotAByte}
  /\ \A i \in Images : i.mem \in [Addr -> Byte] /\ i.pc \in Addr
                     /\ i.grids \subseteq {"mem", "rd", "wr"}
                     /\ i.columns \subseteq {"hex", "ascii"}
                     /\ i.pageSize \in PageSizes /\ i.bytesPerRow \in RowSizes
  /\ Watches \subseteq Addr /\ Pcs \subseteq Addr

VARIABLES
  planes,          (* mem, ioRead, ioWrite                                 *)
  status, pc,
  plane, splitIo,  (* what the followed grid shows; fixed                  *)
  viewMode,        (* 16bit, or 8bit for a grid of ports                   *)
  pageSize, bytesPerRow, watchAddr, viewPageBase,
  scrollTop,
  shown,           (* what the grid has read                               *)
  preview,         (* previewLines                                         *)
  columns,         (* showBytes, showAscii: the columns of the grid        *)
  edit,            (* the open editor that has the focus                   *)
  left,            (* the editors that are open without it: ASCII cells    *)
  failed,          (* a memo of the grid has thrown                        *)
  verbs            (* bound: user actions left                             *)

busVars  == <<planes, status, pc>>
pageVars == <<pageSize, bytesPerRow, watchAddr, viewPageBase, scrollTop>>
fixed    == <<plane, splitIo>>
editVars == <<columns, edit, left>>
viewVars == <<busVars, fixed, viewMode, pageVars, shown, preview, editVars, failed, verbs>>

-----------------------------------------------------------------------------
(* Paging. *)

pageBase(a, ps)     == a - (a % ps)
lastPageBase(ps)    == Size - ps
pageLastAddr(a, ps) == pageBase(a, ps) + ps - 1

nextPageBase(a, ps) == IF pageBase(a, ps) = lastPageBase(ps) THEN {} ELSE {pageBase(a, ps) + ps}
prevPageBase(a, ps) == IF pageBase(a, ps) = 0 THEN {} ELSE {pageBase(a, ps) - ps}

(* The rows that are mounted: first up to last, last not included. *)
computeVirtualWindow(top, total) ==
  [first |-> Max({0, top - Overscan}), last |-> Min({total, top + ViewportRows + Overscan})]

windowRange == computeVirtualWindow(scrollTop, pageSize \div bytesPerRow)

RowsMounted(top, ps, n) ==
  LET w == computeVirtualWindow(top, ps \div n) IN w.last - w.first

-----------------------------------------------------------------------------
(* Reading. *)

Aliases(p) == {a \in Addr : a % Ports = p}

(* pageData, or the rows of the port grid with their mismatch marks.       *)
PageData(bytes, mode, base, ps) ==
  IF mode = "8bit"
    THEN [start |-> 0, buf |-> [i \in 0 .. Ports - 1 |-> bytes[i]],
          mismatch |-> {p \in 0 .. Ports - 1 : \E a \in Aliases(p) : bytes[a] # bytes[p]}]
    ELSE [start |-> pageBase(base, ps),
          buf |-> [i \in 0 .. ps - 1 |-> bytes[(pageBase(base, ps) + i) % Size]],
          mismatch |-> {}]

(* The window of bytes a preview row is decoded from. *)
Window(mem, a) == [b \in 1 .. 4 |-> mem[(a + b - 1) % Size]]

previewLines(mem, origin) ==
  LET row[i \in 1 .. PreviewCount] ==
        LET a == IF i = 1 THEN origin
                 ELSE LET before == row[i - 1] IN (before.addr + before.length) % Size
        IN  [addr |-> a, length |-> disasm(Window(mem, a)).length]
  IN  [i \in 1 .. PreviewCount |-> row[i]]

Reread  == shown' = PageData(planes'[plane], viewMode', viewPageBase', pageSize')
Redraw  == preview' = IF status' = "paused" THEN previewLines(planes'.mem, pc') ELSE preview

(* Without a version bumped, a grid reads only for another page, and the   *)
(* 8-bit view for rows of another size.                                    *)
SamePage ==
  /\ viewMode' = viewMode
  /\ IF viewMode = "8bit" THEN bytesPerRow' = bytesPerRow
     ELSE pageSize' = pageSize /\ pageBase(viewPageBase', pageSize) = shown.start

RereadPage == IF SamePage THEN UNCHANGED shown ELSE Reread

(* A version is bumped: who shows the array reads it again.                *)
bumpMemVersion == Redraw /\ (IF plane = "mem" THEN Reread ELSE UNCHANGED shown)

-----------------------------------------------------------------------------
(* The verbs of the store that write.  They are paused-only. *)

Wrote(a, v) ==
  CASE plane = "mem" -> [planes EXCEPT !.mem[a] = v]
    [] plane = "rd" /\ viewMode = "16bit" -> [planes EXCEPT !.rd[a] = v]
    [] plane = "rd" /\ viewMode = "8bit"  ->
         [planes EXCEPT !.rd = [b \in Addr |-> IF b \in Aliases(a) THEN v ELSE planes.rd[b]]]
    [] plane = "wr" -> planes

(* The address of the cell under an editor is that of its row and column   *)
(* now, not the one it was opened at.                                      *)
CellAddr(row, col) ==
  IF viewMode = "8bit" THEN row * bytesPerRow + col
  ELSE (shown.start + (windowRange.first + row) * bytesPerRow + col) % Size

Rows == 0 .. (IF viewMode = "8bit" THEN Ports \div bytesPerRow
              ELSE RowsMounted(scrollTop, pageSize, bytesPerRow)) - 1

(* Printable characters stand for themselves, the rest are shown as '.'.   *)
Glyph(b) == IF b \in 32 .. 126 THEN b ELSE 46

Seed(lane, b) == IF lane = "hex" THEN b ELSE Glyph(b)

Editor(lane, row, col, a, b) ==
  [lane |-> lane, row |-> row, col |-> col, text |-> Seed(lane, b), opened |-> a, moved |-> FALSE]

Editing == edit # NoEditor

LeftAt(lane, row, col) == {e \in left : <<e.lane, e.row, e.col>> = <<lane, row, col>>}

ShownByte(a) == shown.buf[IF viewMode = "8bit" THEN a ELSE (a - shown.start) % Size]

(* What a commit writes bumps the version; while the CPU runs it does not  *)
(* write.                                                                  *)
Commit(a) ==
  IF edit.text \in Byte /\ status = "paused"
    THEN planes' = Wrote(a, edit.text) /\ Reread /\ Redraw
    ELSE UNCHANGED <<planes, preview>> /\ RereadPage

(* Cells are kept by position: an open editor stays at its row and column  *)
(* whatever is shown there, and goes when they are not mounted, before or  *)
(* after the scroll position follows.                                      *)
Moves == shown'.start # shown.start \/ windowRange'.first # windowRange.first
           \/ bytesPerRow' # bytesPerRow

Stays(e) ==
  /\ e.col < bytesPerRow'
  /\ \A top \in {scrollTop, scrollTop'} : e.row < RowsMounted(top, pageSize', bytesPerRow')

Kept == {[e EXCEPT !.moved = e.moved \/ Moves] : e \in {e \in left : Stays(e)}}

-----------------------------------------------------------------------------
(* The editor.  The two columns differ in what they seed the text with,    *)
(* and in what leaving an invalid text does.                               *)

User == ~failed /\ verbs > 0 /\ verbs' = verbs - 1

(* A click on a cell, or on an open editor again: it is seeded afresh.     *)
Click ==
  /\ User
  /\ status = "paused" /\ plane # "wr"
  /\ \E lane \in columns, row \in Rows, col \in 0 .. bytesPerRow - 1 :
       LET a == CellAddr(row, col) IN
       /\ Editing => <<edit.lane, edit.row, edit.col>> = <<lane, row, col>>
       /\ edit' = Editor(lane, row, col, a, ShownByte(a))
       /\ left' = left \ LeftAt(lane, row, col)
  /\ UNCHANGED <<busVars, fixed, viewMode, pageVars, shown, preview, columns, failed>>

(* The focus goes back to an editor that was left open, by the Tab key, or *)
(* by a click while the CPU runs: what is in it stays.                     *)
Focus ==
  /\ User /\ ~Editing
  /\ edit' \in left
  /\ left' = left \ {edit'}
  /\ UNCHANGED <<busVars, fixed, viewMode, pageVars, shown, preview, columns, failed>>

Type ==
  /\ User /\ Editing
  /\ \E t \in Typed \cup {NoText} : edit' = [edit EXCEPT !.text = t]
  /\ UNCHANGED <<busVars, fixed, viewMode, pageVars, shown, preview, left, columns, failed>>

(* The next cell is clicked once the grid has rendered, if it is mounted;  *)
(* an editor that is open there is seeded afresh, without the focus.       *)
ClickNext(a) ==
  LET mounted == IF viewMode = "8bit" THEN Ports \div bytesPerRow
                 ELSE RowsMounted(scrollTop', pageSize, bytesPerRow)
      first   == IF viewMode = "8bit" THEN 0 ELSE windowRange'.first
      cell    == (a - shown'.start) % Size
      row     == cell \div bytesPerRow - first
      opens   == Editor(edit.lane, row, cell % bytesPerRow, a, shown'.buf[cell])
      there   == {e \in Kept : <<e.lane, e.row, e.col>> = <<opens.lane, opens.row, opens.col>>}
  IN  IF status = "paused" /\ cell \in DOMAIN shown'.buf /\ row \in 0 .. mounted - 1
        THEN /\ edit' = IF there = {} THEN opens ELSE NoEditor
             /\ left' = (Kept \ there) \cup (IF there = {} THEN {} ELSE {opens})
        ELSE edit' = NoEditor /\ left' = Kept

space == IF viewMode = "8bit" THEN Ports ELSE Size

(* Variant: the watch follows, the page does not. *)
AdvanceWithoutPage(a) ==
  /\ watchAddr' = IF viewMode = "16bit" /\ a = pageLastAddr(viewPageBase, pageSize)
                    THEN (a + 1) % Size ELSE watchAddr
  /\ UNCHANGED <<viewPageBase, scrollTop>>

(* On the last cell of a page the watch and the page follow, from the last *)
(* page to the first one.                                                  *)
advance(a) ==
  IF viewMode = "16bit" /\ a = pageLastAddr(viewPageBase, pageSize)
    THEN /\ watchAddr' \in IF nextPageBase(viewPageBase, pageSize) = {} THEN {0}
                           ELSE nextPageBase(viewPageBase, pageSize)
         /\ viewPageBase' = watchAddr'
         /\ scrollTop' = 0
    ELSE UNCHANGED <<watchAddr, viewPageBase, scrollTop>>

(* Variant: the grid advances before the byte is committed. *)
AdvanceThenCommit(a) ==
  /\ advance(a)
  /\ Commit((a - shown.start + viewPageBase') % Size)
  /\ ClickNext((a + 1) % space)

CommitThenAdvance(a) ==
  /\ advance(a)
  /\ Commit(a)
  /\ ClickNext((a + 1) % space)

EnterCommits ==
  /\ edit.text \in Byte
  /\ UNCHANGED <<status, pc, viewMode, pageSize, bytesPerRow>>
  /\ CommitThenAdvance(CellAddr(edit.row, edit.col))

(* Invalid text is dropped and the editor stays; without text it closes.   *)
EnterRefuses ==
  /\ edit.text \notin Byte
  /\ edit' = IF edit.text = NotAByte THEN [edit EXCEPT !.text = NoText] ELSE NoEditor
  /\ UNCHANGED <<busVars, viewMode, pageVars, shown, preview, left>>

Enter ==
  /\ User /\ Editing
  /\ EnterCommits \/ EnterRefuses
  /\ UNCHANGED <<fixed, columns, failed>>

(* The blur that follows finds no text. *)
Escape ==
  /\ User /\ Editing
  /\ edit' = NoEditor
  /\ UNCHANGED <<busVars, fixed, viewMode, pageVars, shown, preview, left, columns, failed>>

(* Leaving the editor commits what is in it.  An ASCII cell drops a        *)
(* character that is no byte and stays open, without the focus.            *)
Blur ==
  /\ User /\ Editing
  /\ edit' = NoEditor
  /\ left' = IF edit.lane = "ascii" /\ edit.text = NotAByte
               THEN left \cup {[edit EXCEPT !.text = NoText]} ELSE left
  /\ UNCHANGED <<status, pc, fixed, viewMode, pageVars, columns, failed>>
  /\ Commit(CellAddr(edit.row, edit.col))

-----------------------------------------------------------------------------
(* Moving the view.  The wheel scrolls under an open editor; any button or *)
(* field takes the focus first, which does not close every editor.         *)

MaxTop(ps, n) == Max({0, ps \div n - ViewportRows})

(* An editor whose row is no longer mounted goes; some browsers blur it,   *)
(* and what it held is committed where it was, others do not.              *)
Scroll ==
  /\ User /\ viewMode = "16bit"
  /\ scrollTop' \in (0 .. MaxTop(pageSize, bytesPerRow)) \ {scrollTop}
  /\ UNCHANGED <<status, pc, fixed, viewMode, pageSize, bytesPerRow, watchAddr, viewPageBase>>
  /\ UNCHANGED <<columns, failed>>
  /\ \/ /\ Editing => Stays(edit)
        /\ UNCHANGED <<planes, shown, preview>>
        /\ edit' = IF Editing THEN [edit EXCEPT !.moved = edit.moved \/ Moves] ELSE edit
     \/ /\ Editing /\ ~Stays(edit)
        /\ UNCHANGED <<planes, shown, preview>> \/ Commit(CellAddr(edit.row, edit.col))
        /\ edit' = NoEditor
  /\ left' = Kept

(* A page other than the one shown starts at its top. *)
ShowPage(base) ==
  /\ viewPageBase' = base
  /\ scrollTop' = IF pageBase(base, pageSize') = pageBase(viewPageBase, pageSize)
                    THEN scrollTop ELSE 0

Unfocused == User /\ ~Editing /\ UNCHANGED <<fixed, edit>>

PageNav ==
  /\ Unfocused /\ viewMode = "16bit"
  /\ UNCHANGED <<busVars, viewMode, pageSize, bytesPerRow, watchAddr, preview, columns, failed>>
  /\ \E base \in {0, lastPageBase(pageSize), pageBase(watchAddr, pageSize)}
                   \cup prevPageBase(viewPageBase, pageSize)
                   \cup nextPageBase(viewPageBase, pageSize) :
       ShowPage(base)
  /\ RereadPage /\ left' = Kept

SetWatchAddr ==
  /\ Unfocused
  /\ UNCHANGED <<busVars, viewMode, pageSize, bytesPerRow, preview, columns, failed>>
  /\ watchAddr' \in IF viewMode = "8bit" THEN {a % Ports : a \in Watches} ELSE Watches
  /\ ShowPage(pageBase(watchAddr', pageSize))
  /\ RereadPage /\ left' = Kept

(* Fewer rows under an old scroll position: the window is computed before  *)
(* the browser clamps it, and the array of a negative length throws.       *)
Resized ==
  /\ failed' = (viewMode = "16bit" /\ RowsMounted(scrollTop, pageSize', bytesPerRow') < 0)
  /\ RereadPage /\ left' = Kept

SetPageSize ==
  /\ Unfocused
  /\ UNCHANGED <<busVars, viewMode, bytesPerRow, watchAddr, preview, columns>>
  /\ pageSize' \in PageSizes \ {pageSize}
  /\ ShowPage(pageBase(viewPageBase, pageSize'))
  /\ Resized

SetBytesPerRow ==
  /\ Unfocused
  /\ bytesPerRow' \in RowSizes \ {bytesPerRow}
  /\ UNCHANGED <<busVars, viewMode, pageSize, watchAddr, viewPageBase, scrollTop, preview, columns>>
  /\ Resized

(* The grid is mounted anew.  In the 8-bit view the watch is a port.       *)
SetIoViewMode ==
  /\ Unfocused
  /\ plane # "mem"
  /\ viewMode' \in {"16bit", "8bit"} \ {viewMode}
  /\ watchAddr' = IF viewMode' = "8bit" THEN watchAddr % Ports ELSE watchAddr
  /\ scrollTop' = 0
  /\ UNCHANGED <<busVars, pageSize, bytesPerRow, viewPageBase, preview, columns, failed>>
  /\ RereadPage /\ left' = {}

(* A column that is hidden takes its editors along. *)
SetColumns ==
  /\ Unfocused
  /\ plane = "mem"
  /\ \E c \in {"hex", "ascii"} :
       columns' = IF c \in columns THEN columns \ {c} ELSE columns \cup {c}
  /\ left' = {e \in left : e.lane \in columns'}
  /\ UNCHANGED <<busVars, viewMode, pageVars, shown, preview, failed>>

-----------------------------------------------------------------------------
(* The CPU, and the files of the Program section. *)

Run ==
  /\ Unfocused
  /\ status = "paused" /\ status' = "running"
  /\ UNCHANGED <<planes, pc, viewMode, pageVars, shown, preview, left, columns, failed>>

(* An OUT lands in the plane of its own when there is one. *)
CpuStep ==
  /\ User
  /\ status = "running"
  /\ pc' \in Pcs
  /\ \E a \in Watches, v \in Typed \cap Byte :
       planes' \in {[planes EXCEPT !.mem[a] = v],
                    IF splitIo THEN [planes EXCEPT !.wr[a] = v] ELSE [planes EXCEPT !.rd[a] = v]}
  /\ UNCHANGED <<status, fixed, viewMode, pageVars, shown, preview, editVars, failed>>

(* Variant: the write plane is not read again. *)
BumpMemAndRead == Redraw /\ (IF plane = "wr" THEN UNCHANGED shown ELSE Reread)

(* All three versions are bumped, whatever was written. *)
BumpAll == Redraw /\ Reread

(* By the button, or by a breakpoint under an open editor. *)
Pause ==
  /\ User
  /\ status = "running" /\ status' = "paused"
  /\ UNCHANGED <<planes, pc, fixed, viewMode, pageVars, editVars, failed>>
  /\ BumpAll

(* Files are written in display order, the last one wins, and what does    *)
(* not fit below the end of memory is dropped.                             *)
writeBytesToMem(chosen) ==
  LET Covering(a) == {i \in chosen : a - Files[i].loadAddr \in 0 .. Len(Files[i].bytes) - 1}
  IN  [a \in Addr |->
         IF Covering(a) = {} THEN planes.mem[a]
         ELSE LET f == Files[Max(Covering(a))] IN f.bytes[a - f.loadAddr + 1]]

(* One file, or all of them; not paused-only. *)
WriteFiles ==
  /\ Unfocused
  /\ \E chosen \in {DOMAIN Files} \cup {{i} : i \in DOMAIN Files} :
       planes' = [planes EXCEPT !.mem = writeBytesToMem(chosen)]
  /\ UNCHANGED <<status, pc, viewMode, pageVars, left, columns, failed>>
  /\ bumpMemVersion

-----------------------------------------------------------------------------
ViewInit ==
  /\ \E i \in Images :
       /\ planes = [mem |-> i.mem, rd |-> [a \in Addr |-> 0], wr |-> [a \in Addr |-> 0]]
       /\ verbs = i.verbs
       /\ pc = i.pc
       /\ plane \in i.grids
       /\ columns = IF plane = "mem" THEN i.columns ELSE {"hex"}
       /\ pageSize = i.pageSize /\ bytesPerRow = i.bytesPerRow
  /\ splitIo \in {plane = "wr", plane # "mem"}
  /\ status = "paused" /\ viewMode = "16bit"
  /\ watchAddr = 0 /\ viewPageBase = 0 /\ scrollTop = 0
  /\ shown = PageData(planes[plane], viewMode, viewPageBase, pageSize)
  /\ preview = previewLines(planes.mem, pc)
  /\ edit = NoEditor /\ left = {} /\ failed = FALSE

ViewNext ==
  \/ Click \/ Focus \/ Type \/ Enter \/ Escape \/ Blur
  \/ Scroll \/ PageNav \/ SetWatchAddr \/ SetPageSize \/ SetBytesPerRow
  \/ SetIoViewMode \/ SetColumns
  \/ Run \/ CpuStep \/ Pause \/ WriteFiles

ViewSpec == ViewInit /\ [][ViewNext]_viewVars

-----------------------------------------------------------------------------
(* Properties. *)

(* While the page is paused, the grid and the preview are the memory as it *)
(* is, whatever was written since they last looked, by the CPU, by a file, *)
(* or by hand through another alias; and the page the buttons navigate     *)
(* from is the page shown.                                                 *)
ViewsShowMemory ==
  status = "paused" /\ ~failed =>
    /\ \A i \in DOMAIN shown.buf : shown.buf[i] = planes[plane][shown.start + i]
    /\ \A p \in 0 .. Ports - 1 :
         p \in shown.mismatch => \E a \in Aliases(p) : planes[plane][a] # planes[plane][p]
    /\ viewMode = "8bit" => \A p \in (0 .. Ports - 1) \ shown.mismatch :
         \A a \in Aliases(p) : planes[plane][a] = shown.buf[p]
    /\ preview = previewLines(planes.mem, pc)
    /\ viewMode = "16bit" => viewPageBase = shown.start

(* A key or a blur writes only the byte that was typed, only while the CPU *)
(* is paused, and only where the editor was opened: not twice, and not on  *)
(* the page the grid has moved on to.  An editor whose rows were moved     *)
(* under it, by the wheel or, when it was left open, by a button, writes   *)
(* at the address that the grid shows for it (see the README).             *)
EditsLandWhereOpened ==
  [][Editing /\ planes' # planes =>
       \/ status = "running" /\ UNCHANGED edit
       \/ /\ status = "paused" /\ edit.text \in Byte
          /\ planes' = Wrote(IF edit.moved THEN CellAddr(edit.row, edit.col) ELSE edit.opened,
                             edit.text)]_viewVars

(* Bytes entered one after the other land at consecutive addresses, across *)
(* rows, pages and the end of the address space: the editor that follows   *)
(* another is at the next address, and when the page changes for it the    *)
(* watch is on it and, if the CPU is paused, it is open.                   *)
RapidEntryIsSequential ==
  [][Editing =>
       LET a == CellAddr(edit.row, edit.col) IN
       /\ edit' # NoEditor /\ edit'.opened \notin {edit.opened, a} =>
            edit'.opened = (a + 1) % space
       /\ watchAddr' # watchAddr =>
            /\ watchAddr' = (a + 1) % Size /\ shown'.start = watchAddr'
            /\ status = "paused" =>
                 \E e \in left' \cup ({edit'} \ {NoEditor}) : e.opened = watchAddr']_viewVars

(* A row of the preview starts where the CPU fetches an instruction, and   *)
(* none is skipped over: the rows step by the encoding of the CPU.  But    *)
(* after a row that has more wasted prefixes than its four bytes hold.     *)
FetchStarts(mem, origin) ==
  LET at[i \in 0 .. 4 * PreviewCount] ==
        IF i = 0 THEN origin
        ELSE LET a == at[i - 1]
             IN  (a + FetchLength(mem[a], mem[(a + 1) % Size])) % Size
  IN  {at[i] : i \in DOMAIN at}

Fits(mem, a) == disasm([b \in 1 .. 7 |-> mem[(a + b - 1) % Size]]).length <= 4

PreviewStartsInstructions ==
  \A i \in 1 .. PreviewCount :
    status = "paused" /\ (\A j \in 1 .. i - 1 : Fits(planes.mem, preview[j].addr)) =>
      preview[i].addr \in FetchStarts(planes.mem, pc)

(* The text and the annotations of a row come from the bytes of its own    *)
(* encoding: more bytes do not change them, the displacement is the third  *)
(* byte, and a documented prefix shows in every place of (HL) and in no    *)
(* other.  Of fewer bytes a jump or a word shows nothing, and an indexed   *)
(* opcode shows the displacement it has or, when that is what is missing,  *)
(* the zero it makes up for it (see the README).                           *)
PlaceOf == [b \in Prefix |-> IF b = 221 THEN {"IX", "(IX+d)"} ELSE {"IY", "(IY+d)"}]

IndexedAt(w) == {i \in 2 .. Len(w) : w[i] \in Indexed /\ \A j \in 1 .. i - 1 : w[j] \in Prefix}

CutDisplacement(w) == {IF i < Len(w) THEN Signed(w[i + 1]) ELSE 0 : i \in IndexedAt(w)}

WindowsAreDecoded ==
  LET w == Window(planes.mem, pc)
      d == disasm(w)
  IN  Fits(planes.mem, pc) =>
        /\ \A n \in 1 .. 4 :
             LET v == SubSeq(w, 1, n)
                 t == disasm(v)
             IN  IF n >= d.length THEN t = d
                 ELSE t.length = n /\ t.rel = {} /\ t.abs = {} /\ t.indexD = CutDisplacement(v)
        /\ Displaced(w[1], w[2]) => d.indexD = {Signed(w[3])}
        /\ w[1] \in Prefix /\ ~d.undocumented =>
             /\ d.names \cap PlaceOf[w[1]] # {}
             /\ d.names \cap {"HL", "(HL)", "IXH", "IXL", "IYH", "IYL"} = {}

-----------------------------------------------------------------------------
(* What the code promises and does not keep. *)

(* "Map a scroll position + viewport to the inclusive-exclusive            *)
(* `[first, last)` index range to render" (virtualWindow.ts).              *)
WindowIsARange ==
  viewMode = "16bit" => windowRange.first <= windowRange.last
=============================================================================
