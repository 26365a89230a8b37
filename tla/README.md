# Verification of the z80cpu explorer

This directory holds TLA+ models of the programs in this repository, the TLC
configurations that check them on small instances, and theorems about them
that TLAPS checks for every value of the constants.  Lines such as
`loop.ts:289` refer to the source files; short names stand for

| short | file |
|---|---|
| `loop.ts`, `breakpoints.ts`, `bus.ts`, `hwTrace.ts` | `src/apps/z80cpu-explorer/src/runloop/` |
| `boot.tsx` | `src/apps/z80cpu-explorer/src/boot.tsx` |
| `store` | `src/apps/z80cpu-explorer/src/store/index.ts` |
| `traceRing.ts` | `src/apps/z80cpu-explorer/src/store/traceRing.ts` |
| `sections/…`, `hotkeys/…`, `storage/…` | under `src/apps/z80cpu-explorer/src/` |
| `z80disasm.ts` | `src/packages/z80cpu-disasm/src/` |
| `z80dbg.ts`, `z80breakpoints.ts` | `src/packages/z80cpu-debug/src/` |
| `repl.ts` | `src/packages/z80cpu-cli/src/` |

## The system

The explorer clocks a cycle-exact Z80 core (the external package
`@dcorp80/z80cpu`) half a clock cycle (an *HC*) at a time in the browser, and
shows what it does.  All of it runs on one JavaScript thread: interleaving
happens between callbacks (animation frames, events, promises), never inside.

| component | state | operations | talks to |
|---|---|---|---|
| run loop (`loop.ts`) | status, two step counters, the queued frame, `hcBox` | run, pause, step N instructions, step N HC, zeroHC; runFrame | drives CPU, bus hooks, evaluator; calls the store's onPause, onTick, onInstruction |
| breakpoint evaluator (`breakpoints.ts`) | enabled ranges and targets, ids that fired, cached least target | setBreakpoints, checkAfterEdge, resetHcCutoff | fed by the store after every change of the list, asked by the loop after every edge |
| bus (`bus.ts`) | input pins, INT generator, memory and I/O planes, access versions | resolve before each edge; setInputPin, setIntGen, peek and poke | reads `hcBox`, writes `cpu.bus`, calls `cpu.nmi()` |
| hardware trace (`hwTrace.ts`) | parallel typed arrays with head, tail, size; enabled | record after each edge, rangeView, latestBefore, clear, setEnabled | written by boot's post-edge hook, read by the waveform section when paused |
| instruction trace (`traceRing.ts`) | a pool of records, write slot, filled | push with folding, at, findByHc, clear | written by the store's onInstruction, read by the section through a throttled mirror |
| debug tracer (`z80dbg.ts`) | two alternating traces, two flags, enabled | clockEdge hook, setEnabled | around `cpu.clockEdge()`, reports completed instructions |
| store (`store`) | reactive mirrors of all of these, cursors, configuration | the verbs the UI and hotkeys call; handlers of the loop's events | owns the rules of which verb may run when |
| persistence (`storage/`, `store`) | three object stores: the UI record, the files, the breakpoints; the staged settings | load and reconcile, save, commit of reload settings with rollback | asynchronous IndexedDB, or memory when it does not open; the boot, which builds the bus from what it reads |
| hex views (`sections/hexGrid.tsx`, `hexCell.tsx`, `io/portGrid.tsx`, preview) | page, watch, scroll position, the open editor, memos of what was read | paging, scrolling, typing, leaving a cell | peek and poke through the store; versions that the store bumps |
| other sections, hotkeys, shell | DOM, scroll positions, buttons and keys | user gestures | call the store's verbs, read its signals |
| breakpoint helper (`z80breakpoints.ts`) | ranges with callbacks, one half-cycle trigger | addPcBreak, stepHc, cancelStepHc, tickAfterEdge | turns the tracer on; used by the REPL |
| command-line REPL (`repl.ts`) | a queue of lines, a CPU, a bus, `Z80Breakpoints` | step, continue, break and skip commands | its own synchronous loops between `await`s of the input |
| disassembler (`z80disasm.ts`) | none | a window of bytes to a text, a length and annotations | used by the preview, the trace and the REPL |
| benchmark bus, preamble | none or fixed memory | pure functions | used by the REPL and the store |

What is hard in it:

* **ordering** – a verb meets a frame that is queued but has not run: a lost
  wake-up, a second frame, an edge after a pause;
* **cached decisions** – an edge costs one comparison because the evaluator and
  the generator keep a least target and a next edge; both must follow every
  edit and a clock that the user sets back to zero;
* **rings overwritten in place** – wrapped indices, stale slots, pool records
  that a row on screen still refers to, folding into the newest record;
* **mirrors** – the UI shows copies that are brought along at the end of a
  frame or at a pause, and must be true when the loop is paused;
* **half-cycle exactness** – a pulse, a step and a one-edge NMI have a length in
  edges, across frames, pauses and edits;
* **progress** – a step must end, a running loop must go on;
* **asynchronous writes** – settings and files are saved by promises whose
  order, failure and interruption by a reload matter; what a boot finds may be
  of an older release, or half of what was meant;
* **in-place editing** – Enter commits, advances and blurs, and the blur commits
  too; between the two the grid may have gone to another page, and which address a
  cell stands for is computed again each time;
* **prefix chains** – the length of an instruction decides where the next row of
  the preview starts.

## Modules

| module | models | state and actions |
|---|---|---|
| `CpuSteps` | what the loop relies on of CPU and tracer | `pos`, `len` place the CPU inside an M1 block; `ClockEdge` is one half cycle, WAIT repeats T2; `Trace` is the tracer's promotion of traces, so `InstructionCompletes` says when `onInstructionComplete` is called |
| `Breakpoints` | `breakpoints.ts` and the store's list | `bps` is the list, `enabledPc`, `enabledHc`, `firedHcIds`, `nextHcTarget` the evaluator; one action per verb ending in `SetBreakpoints` as `syncBreakpoints` does |
| `RunLoop` | `loop.ts` with both | `status`, counters, `frameScheduled`, `inFrame`; a frame executes an `Edge` per step, verbs are excluded while it is in progress |
| `OneShot` | *abstract*: what hc-count breakpoints promise | a list, the quiet ids, a clock; nothing cached |
| `IntGen` | pins and INT generator of `bus.ts`, `boot.tsx`'s hooks, the store's verbs and mirror | `gen` with its absolute `nextEdgeHc`, `pins`, `prevNmiLevel`, `mirror`; `Edge` is resolve, CPU edge, clock and post-edge hook |
| `PulseTrain` | *abstract*: the pulse train with a countdown and no clock | |
| `HwTrace` | `hwTrace.ts`, recording in `boot.tsx`, the store's verbs, `sections/hwTrace` | the arrays with `head`, `tail`, `size` as in the code; `Record` has the four exits of `record()`; `LeftEdge`, `Transitions` and `Level` are renderBounds, buildRowData and the renderer's carry-forward |
| `ChangeLog` | *abstract*: the last N changes of a value | a sequence |
| `InsnTrace` | `traceRing.ts`, the store's verbs and throttle, the section's rows | `buf` is the pool, `rows` the references the section keeps, `Push` folds or appends |
| `Z80Dbg` | `z80dbg.ts` | `curr` and `prev` with their bytes, `_inOpRd`, `_multicycle`; one action per hook of `clockEdge()`, all of them followed by the CPU's step; `SetEnabled` may happen before any edge |
| `Z80Breakpoints` | `z80breakpoints.ts` | the ranges and the trigger of `stepHc`; `TickAfterEdge` is the scan and the fire check |
| `Repl` | `repl.ts` with both | the queue of lines, `Ask`, one action per command, and the loops: `Clock` is `tickEdge()` up to the counter, `Tick` is `tickAfterEdge()` with the callbacks that set flags |
| `StoreRun` | the store's `onPause`, `onTick`, `onInstruction`, the verbs around the loop's, its throttled flush | the mirrors and counters of `store` that a run changes; each action is an action of `RunLoop` with what the callbacks in it do, and `FlushTick` is the store's own animation frame |
| `Reconcile` | the readers of a boot (`boot.tsx`, loaders of `store`) | pure: from a stored record to the sections, files, breakpoints, theme and settings it gives |
| `StorePersist` | the writers of `store`, `storage/`, the staged settings of App-shell | what the page holds, what the three tables hold, one queue of unfinished writes per table; `Save` is the button (it folds App-shell, which is a write of its own, and then commits), `UiWriteLands` and `UiWriteFails` continue it after its `await`; `Reload` drops the queues |
| `Disasm` | `z80disasm.ts` | pure: `disasm` is the whole decoder, a form per opcode table; `length`, what is missing, annotations and documentedness are exact, the text is the registers it names |
| `Z80Encoding` | *reference*: how many bytes the CPU fetches, opcode by opcode | sets of opcodes, not fields of them |
| `HexViews` | the hex grids with their editors and pages, `virtualWindow.ts`, the preview, the verbs that edit memory and ports | `planes` are the bus's arrays, `shown` and `preview` what the memos read last, `edit` the editor with the focus, `left` the ASCII editors that are open without it; one action per gesture |
| `MC…` | values of constants for TLC | |
| `…Proofs` | theorems about the module of that name; `RunLoopProofs` has those of `StoreRun`, too; `SectionProofs` has those of `HwTrace` and of `HexViews` with `Disasm`; those of `Reconcile` are lemmas of `StorePersistProofs` | |
| `LoopTheorems` | lemmas on loops and ascending tables | no state |

`RunLoop` EXTENDS `Breakpoints`, which EXTENDS `CpuSteps`: the loop, the evaluator
and the CPU take an edge together.  `IntGen`, `HwTrace` and `InsnTrace` see the
same loop through two facts only, proved for `RunLoop`: edges happen while it is
not paused, and the store's verbs happen between frames.  They therefore have
`paused`, `Resume` and an action that ends a frame in place of the whole loop.

`Z80Dbg` implements `CpuSteps`: with "has bytes" for `curr` and `prev`, every step of
the full tracer, and every assignment to `enabled`, is one of the reduced tracer
that `RunLoop` and `Repl` are composed with.  `Repl` EXTENDS `Z80Breakpoints`, which
EXTENDS `CpuSteps`.

`StoreRun` EXTENDS `RunLoop`, and `StoreSpec => Spec` is proved: the store
only watches, so all that is shown of the loop holds under it.  `StorePersist`
EXTENDS `Reconcile`: what a reload shows is computed by the readers from what the
writers stored.  `HexViews` EXTENDS `Disasm` and `Z80Encoding`, so that the preview
is decoded from the memory that the editors write.

In a module, "Variant" definitions are plausible mistakes in the definition
they stand beside (a dropped guard, a missing reset, an off-by-one).  Nothing
uses them; each is there to show that the property paired with it in
`PROJECT.json` would notice.

`ran`, `shown`, `wave`, `phase`, `nmiAsked`, `request`, in `StoreRun` `work`, `idle` and
`completed`, in `StorePersist` `lost` and `overtaken`, in `HexViews` the fields `opened` and
`moved` of an editor, in `Z80Dbg` `track`, `edges`, `due`, `stray`, `continues` and `off`,
and in `Repl` `arrived`, `taken`, `since`, `brokeAt` and the addresses of
the traces are history variables (`InsnTrace.shown`; in `HexViews` `shown` is the grid's memo):
no guard reads them (but for `Complete`, where `ran` tells at which address execution
goes on, and for the bounds on `off` and `arrived`), they exist so that a property can speak of the past.

### Abstractions worth knowing

* *CPU.* Instructions have arbitrary addresses and lengths out of small sets; a
  block is at least long enough to contain T3, an assumption named
  `BlockAssumption`.  The tracer is reduced to "is there a trace in `curr`,
  `prev`".
* *Bytes of an instruction.* What the tracer compares them with: `dd` (DD or FD),
  `ed`, `cb`, or no prefix.  All legal chains of prefixes are there, with operands
  that look like prefixes; wasted prefixes, HALT, special reset and acknowledge
  cycles too.  A machine cycle is reduced to the steps that a hook tells apart.
* *Acknowledge cycles.* They have fetch steps of their own and share the step at
  which an instruction is reported; this, and what they leave in
  `hasMoreMCycles`, is the external CPU's, so `AckMore` allows both.  The tracer records
  whatever the bus shows meanwhile (`z80dbg.ts:29`), which the user's INT vector or the byte at
  PC decides, so `AckByte` has every kind of byte.  When it is a prefix and cycles follow, the first fetch
  of the handler goes on with the trace of the acknowledge cycle, unless the one is `dd` and the other a prefix
  that overrides it.  `Belongs` says so on the CPU's side, `ReportsAreExact` says what is
  reported then, and in `CpuSteps` the handler's first block is `second`.
* *Edges the tracer misses.* `MaxOff` bounds how many in a row.  Turning it on
  resets both buffers and both flags, so nothing depends on how many there were.
* *Breakpoint list.* A function of ids; the list's order decides only which of
  two matching ranges a pause names.
* *Clock.* `hcBox` is a double; the models stop it at `HcMax`, in `RunLoop` by
  saturation (what a double does at 2^53), elsewhere by a guard.
* *Bus snapshots.* The thirteen control bits of the packed state are one value;
  address and data keep their slots and their "nobody drives it" bits, because
  the slots are left stale on purpose.
* *Time budget of a frame.* May have run out whenever it is looked at, every
  `BudgetCheckEvery` edges.
* *Scrolling* of a trace is the detaching of a cursor or its return, and in a grid a
  number of rows; pixels are not modelled.  The anchor of a cursor is read by nobody, so only whether the cursor
  is detached is kept.
* *Renderers* are reduced to the level of a cell; glyphs and text are left out.
* *IndexedDB* (external) runs the transactions of one object store in the order
  they were started and those of different stores independently; each lands or
  fails.  A page that goes away takes the unfinished ones with it, which is the worst
  case: a browser may finish some of them, and then the page that boots has read
  a state between two of the model's.
* *Files* have an id and the autoload flag; content and load address are saved by
  the same call.  The file picker and its errors are left out.
* *Settings.* `memInit`, `ioInit` and `splitIo` are bytes; one more setting, `view`,
  stands for every choice of a section that takes effect at once.
* *A grid's colours* (written, read, breakpoint) and the bar that follows PC are
  left out; so is the recall button.
* *The text of an instruction* is the set of registers named and whether an
  operand is shown as missing: enough to tell `IXH` from `H` and `(IX+d)` from `(HL)`.
* *Text in an editor* is a byte, nothing, or something that is no byte (`NotAByte`): a hexadecimal digit
  that is missing, and in an ASCII cell any one character above 0xFF.
* *A grid that is unmounted* as a whole, by folding its section or by the switch to two planes of ports (which
  reloads the page), loses its editors and its scroll position; neither is modelled, but
  for the switch between the 8-bit and the 16-bit view.

## Runs

"pass" runs finish with every property; a "violation" run checks one statement
that a comment, a string or a test of the repository makes, and TLC finds the
code doing otherwise.

| run | question | bounds |
|---|---|---|
| `rl_control` | do run, pause and the steps keep one frame, exact counts and a still CPU, do runs stop at breakpoints of both kinds once each, through edits, toggles and zeroHC? | two ids of either kind with targets below a clock of 3: two ids share a target, differ by one, or are a step apart; two addresses, blocks of 4, steps of 1 and 2, budget every 2 edges: a step spans a frame, a frame spans a block |
| `rl_hotkey` | *violation* `StepEnds` with the `s` hotkey | no breakpoints needed |
| `store_run` | does a paused page show what is, is the clock that of the run, do the mirrors catch up, does a step end, does a running loop go on? | as offered by the buttons; a clock of 2 that saturates, so behaviours are infinite; a flush every frame or every second one, against frames of any length |
| `intgen` | exact pulses, one owner of nINT, true mirror, schedule never far | numbers 0, 1, 2 and 5, one of them below every clamp, clock of 10: short, long and touching phases, several periods |
| `hwtrace` | is the ring a log of the last changes, and do search and rows tell the bus at every half cycle? | four slots, so that the search halves twice across the wrap; clock of 6, so that two snapshots are evicted; two bus states that leave each other's stale address and data behind; a section of 3 cells, so that rows need a seed from before the window |
| `insntrace` | does the ring unfold to what ran, and the paused section show it? | three records, clock of 5, three traces that repeat and differ only past their length |
| `z80dbg` | is every instruction reported once, exactly, and is the tracer the one of `CpuSteps`? | two addresses, two operands at most, one data byte, every shape of instruction after every other, any byte in an acknowledge cycle with and without cycles behind it, off for one edge at any place |
| `z80dbg_data` | *violation* `NoDataInTraces` | the same |
| `repl` | do lines keep their order, does `c` stop before the fetch with no trace before it, does a step print where it stopped, do the loops end? | four lines of any commands, clock of 28, blocks of 4 half cycles; a step may time out (12), skips of 2 and 7 lie on both sides of the prefetch of 3 |
| `persist` | does a reload show what the page showed, is a save all or nothing, does a boot make sense of what it finds? | a record of this release and one of an older release (a section gone, one missing, a byte out of range, an unknown theme), one file and a second to add, three sections, three verbs, one failing write, one reload: a save, a write before it and one behind it, with any of them failing |
| `views` | do the views show memory, do edits land where they were opened, does entry go on at the next address, do preview and disassembler follow the CPU's encoding? | all 256 opcodes behind ten prefix chains with operands of both signs; sessions of five gestures (open, type, Enter, type, leave) on 16 bytes, both columns, in pages that start at 8 in rows of 1, and of seven (open, type what is no byte, leave, turn the page, focus, type, Enter) on the ASCII column in pages that start at 4 in rows of 2, so that the last cell of a row, of a page and of the space are one step away; what is typed is a byte or no byte |
| `views_window` | *violation* `WindowIsARange` | |

The bounds are enough because the components are rings, comparisons and queues: the
cases are *before*, *at* and *after* a target, a wrap or an edge of a page, one
and two elements sharing a value, and a ring that is empty, partly full, full, and
has evicted once or twice.  The runs reach all of them.  Where a bound could
still matter (the capacity of a ring, widths, number of ids) the theorems below
hold for every value.  `persist` stops at three verbs because its tables are
registers: a property can be broken by a write, the one it overtakes, and the
save between them, and a fourth write repeats one of these.

### Fairness

`FairSpec` of `RunLoop` has weak fairness of `FrameStart` and of `Edge`.  The
browser delivers a requested animation frame while the page is visible, and
`runFrame` is a synchronous loop that nothing suspends, so an edge in progress
finishes.  `StoreFairSpec` has both, and two strong ones.  `FlushTick` runs only
between frames of the loop, so it is disabled again and again while the CPU
runs; the browser nevertheless calls every callback registered for an animation frame.
And a frame that may leave at a budget check does leave some time: `frameBudgetMs`
(`loop.ts:314`) compares with a clock that goes on, and the model's budget check is a
choice, which weak fairness of the edge would let it never take.  `FairSpec` of
`Repl` has weak fairness of `Loop`: a command's loop is plain synchronous code.
Nothing is assumed of the user's verbs, nor of WAIT being released:
`StepEnds` for instructions has the exception that WAIT is low.  Nothing is assumed of
IndexedDB either: no property of `StorePersist` needs a write to end.  Only
`store_run`, `rl_hotkey` and `repl` use fairness.

### Deadlock

Checked in every run but `repl` and the two of `HexViews`.  A shell ends by itself,
and a `c` whose breakpoint is never met runs into the bound of the clock; a session
of `HexViews` ends after its five or seven gestures, and the images that are only looked at
have none.  In the models that stop the clock by a guard a user's verb is always
possible, as in the program.

## What the violations show

1. `rl_hotkey` – the `s` key steps an instruction also when instructions are not
   traced; the step then never ends and masks every breakpoint.  The step
   buttons are disabled in that state.
2. `views_window` – rows that get wider, or a page that gets smaller, under a scroll
   position beyond the new end give a window whose `first` is beyond its `last`,
   and `hexGrid.tsx:385` allocates an array of a negative length.  The model marks
   it by `failed`.
3. `z80dbg_data` – the tracer turned on between an opcode and its operand
   keeps `_inOpRd` set, and the first data byte the next instruction reads is
   reported as part of its encoding (`z80dbg.ts:208`).  `stepHc` of `Z80Breakpoints` turns the tracer
   on at any half cycle.  `ReportsAreExact` has this byte as the `extra` of a trace, and
   says that the reports behind it are exact again.

Disagreements without a run of their own.  The first two have a definition in
the module they are about, which TLC finds violated when a `.cfg` names it:

* `FrozenRowsStay` (`InsnTrace`) – the rows of the instruction trace keep references
  into the pool, so a row mounted by a scroll during a run shows an instruction
  that the run wrote over an older one, though the body is said to be frozen
  (`sections/instructionTrace/index.tsx:391`).  `reloadAll` and a file written
  during a run refresh the hex grid, too, though it is said to be frozen; and
  turning the tracing of instructions on again while paused shows a stale current
  instruction.
* `NmiFiresOnNextEdge` (`IntGen`) – nNMI checked again one edge after it fired is
  swallowed: no edge saw the pin high in between (`bus.ts:264`).
* The tracer turned on between a prefix and its opcode reports an instruction without its
  prefix, though `z80dbg.ts:127` speaks of a clean trace.  A trace that starts at the second fetch
  is what `skip` of `Belongs`' trace is for.
* A prefix byte on the bus during an acknowledge cycle is taken for the prefix of the handler's first
  instruction when `hasMoreMCycles` is left set (`z80dbg.ts:178-198`, from what `_initFreshCurr` put into
  the trace at 213-218): the interrupt is then reported with a byte too many, and that
  instruction has no report of its own.  The header (`z80dbg.ts:29-30`) and `z80cpu-dbg.test.ts:383-385` take the
  byte for one that consumers may ignore.
* `checkAfterEdge` uses up one target per edge, so a step that starts with two
  targets behind the clock leaves one that pauses the next run at once, against
  the comment in `loop.ts:296`.
* A generator enabled and then retimed before an edge runs does not assert nINT
  on the next `resolve()`, as `bus.ts:330` says: the retiming takes the armed generator for
  one in the middle of a deasserted phase.
* Folding leaves `nextPc` of a record as the first iteration had it, so when the
  last iteration falls through it is not "where execution went next"
  (`traceRing.ts:37`).
* `z80dbg.ts:65` says that `nextPc` stays at `startAddr` during an instruction; the second
  fetch of a prefixed instruction overwrites it.  The reported value is right.
* `setCapture(true)` does not turn tracing on, as `store/types.ts:248` says it does; only the
  section's disabled checkbox keeps the combination from arising.  `InsnTrace`
  therefore lets it arise.
* A step by half cycles that passes the end of an instruction sets
  `atInstructionBoundary` wherever it stops (`store/index.ts:878`), though the comment at
  776 says that the flag means a boundary.  `BoundaryFlagIsEarned` makes the exception.
* A failed save is rolled back at the section indices taken before the `await`
  (`store/index.ts:1779`, used at 1817); sections dragged meanwhile put the old
  values elsewhere.  And a `persistUi` started while the save is in flight stores
  the settings it has not confirmed, which the rollback does not take back:
  the exception `overtaken` of `ReloadIsIdentity` and `FailedSaveIsUndone`.
* The reload after a save does not ask again whether the loop is paused.
* `sectionRegistry.ts:21` says that `reconcileSections` appends new ids at the
  end; it inserts them by the registry's order (`store/index.ts:88`).
* An ASCII editor that is left with a character above 0xFF stays open without the focus
  (`sections/hexGrid.tsx:214-219`).  The comment at 128-130 says that only a paste or an input method of several code
  units gets there; one `€` or `Ж` does.  While it is open the page can turn, rows change and the CPU run; focused
  again, it writes at the address that its row and column stand for then.  An editor that stays open
  under the wheel does the same.  `moved` marks both, and `EditsLandWhereOpened` says for them that the
  byte lands where the grid shows it.
* Entry that comes to a cell with such an editor seeds it again but does not focus it, though `sections/hexGrid.tsx:24-25`
  promises that the next cell focuses itself.  `RapidEntryIsSequential` therefore says that it is open.
* The ASCII editor is seeded with the cell's glyph, `.` for a byte that does not print
  (`sections/hexGrid.tsx:146`), and the blur commits it: a click on such a cell and a click elsewhere write 2Eh over
  the byte.  `sections/hexCell.tsx:131-133` says of a blur without typing that it leaves the byte
  untouched, and `hexGrid.tsx:132-133` that a dot is written when the user typed it.  In the model `Seed` does
  what the code does.
* The preview decodes four bytes a row, and a chain of more wasted prefixes than
  that makes the rows below it start within an instruction (`Fits`).
* A window that ends after `DD 7E` gives `(IX+00h)` with a displacement of 0 (`z80disasm.ts:200-203`, used at 303),
  where line 125 promises a placeholder and other missing operands show `??`.  `WindowsAreDecoded`
  says which displacement a window that is cut off gives (`CutDisplacement`), the made-up one too.
* The package's README says that a length is 1 to 4; a chain of prefixes is longer.

## Proofs

All theorems are about the specification of their module (`Spec`, `StoreSpec`, `ViewSpec`) and
for every value of the constants allowed by the
named ASSUMEs, each as weak as the code's own checks (a capacity that is a
power of two, positive step counts, blocks that contain T3, pages that divide memory
and rows that divide pages).

**`RunLoopProofs`.** `TypeCorrect`; `FramesAreSingle` and `StepsAreExact` from an
invariant on status, counters and the frame; `NextTargetIsExact` and
`QuietIsReached` from one that ties the cached target, the fired set and the
list; from these the action properties `BreakpointsStopRuns` and
`TargetsFireOnce` (`PausedLoopIsStill` needs only that a frame never runs while
paused), and the refinement `EvaluatorImplementsOneShot`: the
evaluator's cache is the least target of the armed ids, so the one comparison of
an edge decides what the abstract tick decides by looking at the whole list.

Of the store around the loop (`StoreRun`): `StoreDrivesTheLoop` is the refinement: every
step of the store is a step of the loop, so the invariants above hold under it and may be
cited.  `PausedPageIsTrue` needs `MirrorInv`, which holds in the middle of a frame,
too: the status shown follows the loop's because the loop calls back in the very
step in which it pauses.  `ClockIsOfTheRun` follows the difference through each edge (it
needs the saturation of the clock on both sides) and finds it zero at every baseline.
`BoundariesAreEarned` needs what `StepsAreExact` rests on: a step of instructions ends
at an edge that takes its counter to zero, so that an instruction completes there, because
the counter of half cycles is zero all along.

**`IntGenProofs`.** One invariant: the next edge is at most one phase away, a phase
nobody retimed has used exactly the edges that are not left (`Counted`), the pin
is the generator's, and a low nNMI was asked for since the last edge (`Asked`).
`NextEdgeIsNear` alone does not give exact pulses; `Counted` is what carries the
edges already used across frames and pauses.  `GeneratorImplementsTrain` maps the
absolute schedule to `nextEdgeHc - hc`.

**`SectionProofs`, the hardware trace.** The wrapped index is first shown to be injective and to
commute with "next" (`WrapInjective`, `WrapFollows`, `WrapShifts`, `WrapTurns`),
from which one lemma, `AdvanceShifts`, says what an advance does to the ring read
oldest first: it keeps all, or all but the first.  The inductive invariant is
`TypeOK /\ RecordsAscend /\ SnapshotsHold /\ Captured`.  `SnapshotsHold` is not
inductive by itself: if capture could be off with a ring that is not empty, the
newest snapshot would stand for half cycles nobody recorded, which is why `setEnabled(false)`
must clear (`Captured`).  `UnchangedIsEqual` shows that comparing packed state and only the
driven values is equality of snapshots, so `record`'s early return is exact.
`RingImplementsLog` is the refinement of `ChangeLog`, `DetachedAmongCells` the
invariant of the cursor.

The search and the rows rest on `LoopTheorems`.  `RingIsReadBack` shows that `latestBefore`,
at every capacity and wherever the ring wraps, ends at the latest snapshot not later than the
half cycle asked for: the window of the search only loses snapshots that are not it
(`RecordsStayOrdered` is what makes that so).  `RowsAreTrue` carries it to the section:
between two transitions of a row the bus did not change, because each is the next snapshot.

**`SectionProofs`, the grids and the preview.** The inductive invariant is `VInv`.  `PageTypes` keeps
the page on a boundary of its size, which a change of size, a watch anywhere and the wrap at
the end of memory could each break.  `GridCurrent` and `PreviewCurrent` say that what a view holds is
what it would read now, whenever the CPU is paused: the property itself, in the form that a
step preserves, since the CPU's writes need it only at the pause that follows.  `EditorsInPlace`
is what makes Enter and blur agree, for the editor with the focus and for those left open without it: an
address is computed from row and column each time, and it is the one the editor was opened at unless the page, the
row length or the first of the mounted rows changed, which marks it (`MarkedIfMoved`).
For this an editor must be over a cell of the page, in the last row of the last page, too, and
the cell after the last one of a page must be the first of the next, which is arithmetic of
quotients and remainders (`Multiple`, `NextMultiple`, `RowAndColumn`).  `PausedViewsShowMemory`,
`BytesLandWhereOpened` and `EntryIsSequential` follow from it, for every size of page, row
and viewport and for ports and memory alike.

`RowsStartInstructions` and `RowsAreDecoded` are about any memory.  `MainEncoding` compares the
disassembler's forms, which are arranged by the fields of an opcode, with the CPU's, which are
listed opcode by opcode: after every opcode both read the same number of bytes, and a displacement
in the same ones.  `FittingRow` carries this through chains of prefixes: a row that fits
is as long as the fetches from its first prefix to the end of its opcode, so that one row is at most
three fetches (`RowFetches`), and the rows follow by counting up with `LoopTheorems`.  `DecodedAgrees` and
`DecodedShort` compare a window with one that is cut off, which gives no jump and no word, and the displacement
it has or the zero made up for it (`DisplacementOf`), and `MainNames` goes through the forms once
more for the registers a text names.  What `Fits` excludes is shown false by a chain of four
prefixes.

**`LoopTheorems`.** A loop that gets nearer to its end at each turn has a result
(`LoopEnds`), and what every turn keeps holds of the result (`LoopKeeps`): what a definition
by recursion needs before anything can be said of it.  Induction is by the least
counterexample, which the library's theorem on well-founded orders provides, so that no
schema with an operator parameter has to be instantiated.

**`InsnTraceProofs`.** The ring is looked at only through its view, the records from oldest to
newest: a push replaces the view's last record or puts a new one behind those it keeps.  The
invariant is `Types /\ Stamps /\ RingTellsWhatRan /\ RowsAreTheRing`.  `RingIsWhatRan` follows
the two kinds of push through the view and through what it unfolds to; `clear` and `zeroHC` drop
the ring and the history together.  `RowsAreCurrent` needs the rows to be rebuilt at a pause.
`Stamps`, the order of the records, is what `FindIsLatest` needs besides `LoopTheorems`.

**`ReplProofs`.** The invariant has four parts.  `Lines` numbers what is queued, answered and
taken; `NoLineIsLost` is read off it.  The next ties trigger and tracer to the command that is
running, so that no trigger outlives its step (`NoStaleTrigger`).  The last two speak of the place
of the CPU during a continue and of the trace that the following step prints
(`ContinueStopsAtTheBreak`, `StepAfterBreak`): a breakpoint met with the tracer off turns it on
at the fetch, which is early enough because a trace is promoted at the next fetch.

**`Z80DbgProofs`.** `ReportsTell`, `TypeCorrect` and `ImplementsRunLoopTracer`, from the types of the constants
alone (`Z80DbgAssumption`): any operands of at most two bytes, any data, any byte in an acknowledge cycle, and any number of edges
missed.  The invariant has three parts: where the CPU is in an instruction of a legal
shape (`CpuOK`), the types of tracer and history (`Types`), and what the buffers hold at that place (`Watched`).
`Watched` is a conjunction with a part for each thing that could go wrong: that the trace in flight has the bytes
shown since the fetch that opened it (`Holds`), that a data byte is in it only after a stray operand
(`Extra`) and that `_inOpRd` stands for an operand on the bus or for a stray one (`Operand`); that where a fetch
comes next, `_multicycle` and the one byte of the trace tell a trace that goes on (`Joined`) from one that ends
(`Alone`); and that `prev` is the report that is due (`HoldsReport`).  From these, `ContinuesChain` of the code is `Belongs`
of the history at every fetch, and the report follows.  `ImplementsRunLoopTracer` is the refinement of
`CpuSteps`, with instructions as blocks of at least four half cycles.

**`StorePersistProofs`.** One inductive invariant, `Inv`.  `MemoryTyped` has the page: every
section of the registry once (`Complete`), files and breakpoints that are known.  `TablesTyped`
has the tables, which hold what some release wrote, not what this one would.  Then, store by
store, how memory, the queue of unfinished writes and the table agree:
`FilesMirrored` (the last write of a file in flight, or else the stored one, is the file of the page),
`BreakpointsMirrored`, and for the record of the user interface `Mirrored` (the last record in
flight, or else the stored one, says what the page shows).

The save of the reload settings needs more, since its failure changes memory back.  `SavesTell`: each save in
flight boots what the user saved, whatever is in flight before or behind it.  `BusShown`: the oldest save
would give back the settings of the bus, so that one after another they undo to what the page
runs with.  `LastSave`: while a save is the last record in flight, the two sections are where the
rollback will look for them, and the record before it (or the stored one) holds what the rollback gives
back, so that `Mirrored` comes back with it.  `DefaultsHeld` ties a setting that no section
holds to the default the bus was built with.  None of the three holds for a save that failed with
newer writes behind it: hence `overtaken`.  From `Inv`: `PersistEverySectionOnce`,
`PersistTornSaveKeepsFiles`, `PersistReloadIsIdentity`, `PersistSavedSettingsAreBooted`,
`PersistFailedSaveIsUndone`.

What the readers make of a list is proved first.  `SectionsRead` follows the loop over the registry, which
inserts the missing sections one by one, with `LoopTheorems` (`Iterates`, `Climbs`): the sections that
were stored stay as they were, the others are new, and a complete list comes back unchanged.  `FilesRead` does the
same for files behind an order that may name too few or too many, `BreakpointsRead` for breakpoints.
Of the stored records `PersistAssumption` says that ids do not repeat, which is how every release has
written them (`Written`, `Tables`); they may be out of date, out of range and of unknown kinds.

### Model-checked only

* Liveness (`StepEnds`, `RunningMakesProgress`, `MirrorsCatchUp`, `LoopsEnd`): the
  prover has no ENABLED.

Every invariant and every action property of a passing run is a theorem as well.

`TypeCorrect` (five times), `PersistTypes`, `ViewsInvariant`, `NextTargetIsExact`, `QuietIsReached`, `TargetsFireOnce`,
`ScheduleIsNear`, `RecordsStayOrdered`, `DetachedAmongCells` and
`StoreDrivesTheLoop` are the other way round: they are proved, and no run repeats them.

## Not modelled

* DOM rendering, layout, themes, strings: no state of their own.
* The CPU core: an external package; `CpuSteps` has what its users rely on.
* Preamble encoding and the benchmark bus: byte by byte data.
* The pin protocol of `resolve()` (which plane a transfer reads and writes, INTACK)
  and the records of the last access; reinitialisation and the register edits;
  the matching of hotkeys; the parsing of the address field.  All are planned.
* Migrations of the database: there is one version.
* Performance devices (typed arrays hoisted to locals, avoidance of number
  boxing): they change no value.  A clock beyond 2^53 half cycles: decades of running.
* Callbacks that edit `Z80Breakpoints` while it scans: it has no such caller.

## Plan

1. **Done:** run loop with breakpoints; INT generator and pins; hardware trace;
   instruction trace; the tracer, shown to implement that of `CpuSteps`; the package's
   breakpoints and the REPL; the store around the loop; persistence; hex views,
   preview and disassembler.
2. `BusPlanes` – memory and I/O transfers of `resolve()`, INTACK, access versions and
   records.
3. The register edits and reinitialisation of the store, which replace the CPU's
   state under a paused loop.
4. Pure algorithms against reference definitions: address entry, the matching of
   hotkeys, the preamble.
5. Proofs for those modules; the present ones have theirs.
