# TLA+ specifications of Fire Emblem 8 Expansion

This directory specifies parts of the game's C code in TLA+, checks them with
TLC on small instances and proves theorems about them with TLAPS.  The subject
is the code's control: the procs and the order they run in, the messages on the
link cable and the words they are made of, the writes to battery-backed memory,
the phases of a battle map, and the units on it: where they may go, the path they
take, and who carries whom.  Graphics, text and numbers of the game's rules are
not modelled.

Paths below are relative to the repository.  `PROJECT.json` names, for every
definition that models code, the lines it stands for, and lists runs, mutants,
findings, hazards and theorems.

## 1. The system and its parts

The program is one cartridge: one thread of C code plus its interrupts.
`AgbMain` calls `gMainCallback` once per frame; during a game that is `OnMain`
(`src/bm.c`), which runs the proc trees in a fixed order and waits for the
vertical blank, whose handler `OnVBlank` runs tree 0.  Everything that lasts
longer than one call is a proc.  Up to four cartridges talk over the cable; one
chip of battery-backed memory survives a power failure.

| Component | State it keeps | Operations | Talks to | What makes it correct |
| --- | --- | --- | --- | --- |
| Proc scheduler (`proc.c`) | table of 64 slots, free list, trees, lock counts, marks, callbacks | start, start blocking, end, break, goto, loops over scripts and marks, one traversal per tree and frame | calls back into every other part, which calls it again in the middle of a traversal | no slot is lost or freed twice, lock counts match the children waited for, the trees stay trees, nobody is skipped |
| Serial link: messages (`sio_core.c`) | send and receive queues, sequence numbers, acknowledgement bits | emit, resend, acknowledge, receive; the session and big transfers on top | packets, vertical blank, other consoles | in order, once, kept once acknowledged; silence ends in an error screen |
| Serial link: packets (`sio_core.c`) | two rings of 512 words per lane, four cursors, checksums | `SioSend`, the serial interrupt, `Sio_ReadPacket`, halt and start of a session | serial interrupt, vertical blank, messages | nothing is read that was not sent; lanes keep their order; after trouble packets get through again |
| Save blocks (`bmsave*.c`, `agb_sram.c`) | three game slots, two suspended chapters, headers with checksums, `last_suspend_slot` | new, load, save, copy, erase, suspend, resume, patch of a defeated unit's record | save menu, map phases | what passes its check is complete; a suspended chapter survives the next suspension being cut short; suspended chapters belong to an existing game |
| Battle map phases (`bm.c`, `bmio.c`, `cp_phase.c`) and control of the blue army (`expansion_autoplay.c`, `expansion_blue_phase_delegate.c`) | faction, label of `gProc_BMapMain`, controller, telemetry, the marker of Charge | phase change and routing, player/computer/berserk phases, Charge, hotkey, suspend and resume, start and end of a map | scheduler, save blocks, AI, events | control is lent for one phase, a running phase keeps it, a chapter is never suspended in a phase it cannot represent |
| Autoplay planner, strategies, objectives | campaign plan, telemetry | debug test play | map phases | a plan restores what it changed |
| Mechanics hook registry (`expansion_mechanics.c`) | fixed table, running flag | register, run, remove | battle code | order of hooks, no change while they run |
| Event engine (`event.c`, `eventscr.c`) | script cursors, queues, skip state | some hundreds of commands | nearly everything | every pause and lock is undone |
| Enemy AI (`cp_*.c`) | decision of one unit | score, decide, perform | map phases, battle | every unit acts or is passed over |
| Path arrow and movement (`asm/arm.s`, `bmidoten.c`, `bmpatharrowdisp.c`, `playerphase.c`) | working and movement map, two pools of 128 entries, arrow of up to 20 points, movement script | flood, update of the arrow, script, confirm, walk | unit map, map of hidden things, menus, AI | least costs; the arrow can be walked and paid for; a unit stops at what it meets |
| Units and rescue (`bmunit.c`, `bmmap.c`, `bmmind.c`, `bmtarget.c`, `bmmenu.c`, `playerphase.c`) | unit tables by side, rescue links, flags, unit map, the action under way | select, move, take back, rescue, drop, take, give, fight, die, change sides, change phase | movement, AI, events, phases | links agree, nobody is lost, one unit per tile, the unit map is current when it is read |
| Convoy, traps, loading of units (`bmcontainer.c`, `bmtrap.c`, `bmunit.c`) | 100 items, 64 traps | add, remove, load, clear | saves, player phase, events | tables have no gaps |
| Battle and random numbers (`bmbattle.c`, `rng.c`) | battle units, seeds | simulate, resolve | player phase, AI | sequential arithmetic |
| Player phase, menus, Link Arena screens, world map, animations, sound, localization, preferences, debug tools, start-up | screens and cursors | user interface | scheduler, saves, link | presentation |

### How the parts interact

- **Calls into the traversal.**  Every callback of every part runs inside
  `RunProcessRecursive` and may start or end any proc, the ones whose frames are
  on the C stack included.
- **Trees.**  `OnMain` runs tree 1, tree 2 if no game lock is held, then trees 3,
  5 and 4.  The map's procs are in tree 2, the marker of Charge in tree 3: they
  see each other's variables one step late.
- **Interrupts.**  Tree 0, with the link's retransmission, runs in the vertical
  blank; the rings of the link are emptied and filled by the serial interrupt.
  `IrqMain` (`src/crt0.s`) lets interrupts nest, and the main loop masks neither.
- **The unit map.**  `gBmMapUnit` is derived from the unit tables, by
  `RefreshEntityBmMaps` at some points and by single assignments at others.  Target
  lists, the flood and the choice of a tile read it, not the tables.
- **Suspended chapters.**  Phases decide when a chapter is written and with
  which suspend point; the save blocks decide which chapter Resume finds; the
  point decides where the map starts again.

### What is hard here

Code that runs under a traversal which holds pointers to what it frees; cleanup
whose two halves are in different functions (lock counts, marks, the marker of
Charge); power failures between and within the writes of one operation;
acknowledgements that are sent before a message is used; cursors of a ring that
the main loop and two interrupts move; resuming into a state that was never
entered the normal way; a map derived from tables that change under it; a path
drawn one frame and walked the next.  `PROJECT.json` lists these hazards, each
at the line where it bites, with the property that covers it or the reason why
none does yet.

## 2. The modules

| Module | Models | Checked by | Proved in |
| --- | --- | --- | --- |
| `ProcSched` | `src/proc.c` | `MCProcSched` | `ProcSchedProofs`, `ProcCountProofs` |
| `SioChannel` | what the link promises (abstract) | through `SioLink` | – |
| `SioLink` | the acknowledged messages of `src/sio_core.c` | `MCSioLink` | `SioLinkProofs` |
| `SioRing` | packets and rings of `src/sio_core.c` | `MCSioRing` | `SioRingProofs` |
| `SaveSlots` | `src/bmsave.c`, `bmsave-lib.c`, `bmsave-bwl.c` | `MCSaveSlots` | `SaveProofs` |
| `MapPhases` | `src/bm.c`, `bmio.c`, `expansion_autoplay.c`, `expansion_blue_phase_delegate.c` | `MCMapPhases` | `MapPhasesProofs` |
| `MapGrid` | tiles, directions, prices | with the next three | – |
| `LeastCostMap` | what a movement map promises (abstract) | through `MovementMap` | – |
| `MovementMap` | the flood: `GenerateMovementMap`, `asm/arm.s` | `MCUnitPath` | `UnitPathProofs` |
| `UnitPath` | `src/bmpatharrowdisp.c`, `bmidoten.c`, choosing a tile in `playerphase.c`; extends `MovementMap` | `MCUnitPath` | `UnitPathProofs` |
| `UnitRescue` | `src/bmunit.c`, `bmmap.c`, `bmmind.c`, `bmtarget.c`, `bmmenu.c`, actions in `playerphase.c` | `MCUnitRescue` | `UnitRescueProofs` |

A comment `mutant` marks a definition that changes the one after it the way a
plausible bug would; each property of a passing run is violated when its mutant
takes the place of the definition.

### ProcSched

The table `procs` has the fields of `struct Proc` that matter (script, tree
links, mark, lock count, idle callback, flags); `freeList` is `sProcAllocList`
from its head on; `root` the newest proc of each tree.  The C call stack is the
variable `stack`: a frame names a function, the place it has reached and the
slot it was called with, and a step of the model is one step of the function on
top.  This is what makes the interesting interleavings appear: a frame of
`RunProcessRecursive` holds a slot while an older sibling ends its proc and
hands the slot out again.

A script is abstracted to its identity and the command fetched next is a free
choice, so the model covers every script.  `RunOlder`, `RunBlocked`,
`RunScript`, `RunIdle`, `RunDone` are `RunProcessRecursive`; `Cmd...` the
commands; `Call...` and its neighbours what a callback may call; `DeleteWalk`
and `DeleteFree` are `DeleteProcessRecursive`; the loops over the table
(`Proc_EndEach`, `Proc_EndEachMarked`) are frames that remember the next slot.
While a proc is being deleted its end callbacks do not end it or an ancestor of
it again and start no child under it (`Target`); the game's end callbacks do
neither.  `paused`, `owed` and `starts` are bookkeeping: which marks are blocked,
which procs a traversal has still to visit, and the bound.

`Careful = TRUE` excludes four uses the code does not guard against: a slot is
handed out while a `Proc_Start` further up the stack will still write to it
(`Held`); a proc gets or loses a mark that is blocked; `Proc_EndEachMarked` runs
while a freed slot carries the mark; and, under `Proc_EndEachMarked` (`Sweeping`),
an end callback starts or marks a proc or runs it again.  Its two callers
(`src/src/bmio.c:1277`, `worldmap_main.c:1204`) are no end callbacks, and the end
callbacks of the procs the game marks do none of this.  Section 6 says what happens
with `Careful = FALSE`.

- `FreeListExact`, `LocksCountBlockers`, `WellLinked`: the three structures of
  the table agree with each other after any nesting of callbacks.
- `EveryProcVisited`: a traversal reaches every proc that was in the tree when
  it began and is alive when it ends.

### SioLink and SioChannel

Per console: `pendingSend`, `selfSeq`, `awaiting` (`unk_02E`), `acked`
(`unk_00F`), `tries` (`unk_011`), `pendingRecv`, `seq`; between two consoles a
lane `wire[n][m]` of packets.  `Emit` is `SioEmitData`; `Resend` is a try of the
38-frame retransmission that `SioSend` takes, which is a try that is counted
(`src/src/sio_core.c:432`-437), `GiveUp` the error screen of `SioVsync_Loop`; a try
`SioSend` refuses because the outgoing ring is full changes nothing.  `Unplug` ends
the serial interrupts of a console for good (`stopped`): its ring no longer drains.
`TakeData` and `TakeAck` are the two packets of `SioMain_Loop`; `Accept`, `Skip` and `Unexpected` one
iteration of `SioReceiveData`.  `Lose` loses any packet: checksum errors, full
rings, overwritten words.  Lanes do not reorder, a serial cable cannot; copies
come from resending.

`SioChannel` says what the Link Arena relies on: what each console receives from
another is a prefix of what was emitted, in order and once.  `SioLink` implements
it: `Channel == INSTANCE SioChannel WITH emitted <- emitted, got <- got` keeps what
was emitted and the history of what was read and forgets the protocol, and
`InOrderOnce == Channel!Spec` is a property of a run.

- `OneAhead`: sender and receiver are never more than one message apart, which
  is why the 16-bit numbers may wrap.
- `AckedIsKept`: a message everybody acknowledged is held or was read by
  everybody.
- `Settles`: an emitted message reaches every game, or an error screen says why it
  does not, or the message is held by a console whose game does not read its queue
  (it is not in `Readers`).  A sender in `stopped` is promised nothing (section 6).

### SioRing

One console sends, another one reads its lane.  `outgoing` is `gSioOutgoing` as
seen from `sSendCursor`, `write` the distance of `sWriteCursor` from it; `incoming`
is the sequence of words in `gSioIncoming` the reader has not read.  Nothing in the
code depends on where in its array a ring begins, so these are all that matters.

A `SioSend` is `Begin`, one `Write` per word and `Commit`; `call["main"]` and
`call["vblank"]` are the calls of the main loop and of `SioVsync_Loop`, which comes
between any two steps of the former.  `Serial` is one transfer, on both consoles;
it comes between any two steps of either.  `ClearLoads` and `ClearStores` are the
two halves of `SioClearOutgoingQueue` (and, with the session stopped first, of
`Sio_Halt`).  `Resync`, `TooLong` and `TakePacket` are the ways through
`Sio_ReadPacket`; checksums are computed as in the code, in 16 bits.  A reader is
prompt, or so late that its ring is overwritten: what it makes of words does not
depend on when it reads them otherwise.

- `Genuine`: no packet is returned that no `SioSend` was given, whatever was
  damaged, overwritten or mixed.
- `InOrder`: unless an interrupt got in between two steps of the main loop, packets
  arrive in order and once.  This is what `SioLink` assumes of its lanes.
- `Recovers`: a packet that is sent again and again gets through after the last
  trouble: no contents of the rings hold the reader or the sender up for good.

### SaveSlots

A block has contents (`data`) and a header (`info`); it counts if the header says
so and holds the checksum of exactly these contents (`Valid`).  An operation is
the sequence `todo` of the writes the C function makes, in its order; `Do...`
performs the next one, `Crash...` cuts the power before it or within it.  Nothing
else runs between the writes of an operation: the code writes in a busy loop.
`stage` is history: the moment a chapter was saved.

- `ValidIsWhole`: what counts was written completely.
- `SuspendsBelong`: suspended chapters belong to one game, whose slot exists,
  although `InvalidateGameSave` looks at one of the two only.
- `SuspendKeepsOld`: at every step of a suspension Resume finds a chapter at
  least as new as before.

### MapPhases

`at` is the child `gProc_BMapMain` waits for, or the label it has reached;
`control`, `state`, `failure` are the controller of `expansion_autoplay.c`;
`marker` the proc of Charge; `due` says that the marker has still to run in this
frame, so a map step and a marker step alternate as they do in `OnMain`.  What
the AI decides is reduced to what it does to the phase: a unit moved, sprang a
trap, or its action is not supported for blue units.  `saved` is the newest
suspended chapter: point, faction and (history) the phase it was written in;
`ResumeMap` starts at the label `MapMain_ResumeFrom...` chooses.  `Request` is
the set of controllers an extension asks for at any time, `Debug` the hotkey.

- `LentForOnePhase`, `ControlReturns`: Charge lends the army for the rest of one
  phase and it comes back, through failures, ends of maps, resets and resumed
  chapters.  Both are about loans: once the hotkey or an extension has asked for a
  controller (`asked`, history), the army is whoever's asked last.
- `RunningKeepsControl`: neither marker nor extension takes the army from a
  running computer phase.
- `NoSuspendInBluePhase`: no chapter is suspended after a move in a blue computer
  phase, not after a failure in it either.

### MapGrid, MovementMap and LeastCostMap

`MovementMap` is one call of `GenerateMovementMap`: `prices`, `foes`, `origin` and
`movement` are its arguments and the maps it reads, chosen once; `map` is
`gWorkingBmMap`; `src` and `dst` are the two pools of `MapFloodCore`, from the entry
being read on.  `Relax` is `MapFloodCoreStep` towards one side of the first entry of
`src`, `NextEntry` the end of an entry, `Swap` the exchange of the pools.  An entry
is tried towards every side but the one it came from (`Onward`, the jump table of
the assembly), in the order of `Rank`.

The flood is breadth-first although tiles have prices, so costs are written too
high and lowered later, and a tile may be pushed again.  `LeastCostMap` says what
callers rely on: the map is filled once, with a map in which every tile holds the
least price of walking there.  `Promise == INSTANCE LeastCostMap WITH ... result <-
IF Done THEN map ELSE NoMap` and `FillsLeastCosts == Promise!Spec` say that the flood
implements it.

- `GainsArePending`: where walking on would make a neighbour cheaper, an entry that
  will try it is still in a pool.  This is why not looking back is right.
- `CostsArePaid`: every reached tile is within the allowance, not an enemy's, and
  paid for by a reached neighbour.
- `NoEntryTwice`: a pool never holds an entry twice.  The pools have 128 entries and
  nothing checks their end.
- `FloodEnds` (in `UnitPath`): the flood ends, with the map that relaxing every tile
  in turn computes (`LeastCosts`, the reference definition).

### UnitPath

`phase` is the flood, then the frames of `PlayerPhase_RangeDisplayIdle`
(`"select"`), then what becomes of the unit.  `path` is the arrow with what is left
of the allowance at each point, `cursor` the player's cursor, `drawn` the one the
arrow was last drawn for.  `Updated` is `UpdatePathArrowWithCursor` with its five
outcomes: nothing, cut off at the cursor, one more point, a detour from the end
(`Lengthened`) and a new arrow (`ResetPathArrow`).  `BestScripts` is the set of the
scripts `GenerateBestMovementScript` may choose from.  `Confirm` moves the cursor
and confirms in one frame, as `PlayerPhase_RangeDisplayIdle` does before it draws
the arrow: the script is the one of the arrow drawn before.
`UnitApplyWorkingMovementScript` stops the unit on a mine and in front of an enemy
hidden by fog.

- `PathIsWalkable`, `ArrowReachesCursor`: whatever way the cursor takes, the arrow
  is a walk the unit can take and pay for, and it leads to the cursor.
- `ScriptsEnd`: no script is asked for a tile the map does not reach.
- `StopsInTime`: where the unit stops, and what it has not walked past.

### UnitRescue

`who`, `pos`, `state` and `rescue` are `pCharacterData`, the position, the flags and
the link of each slot of the three sides' tables; `unitMap` is `gBmMapUnit`, which
`RefreshEntityBmMaps` computes and single assignments change.  The unit of an action has two names:
`active` is the pointer `gActiveUnit`, `subject` the slot number
`gActionData.subjectIndex`; `goal` is where the action sends it.  When an event changes
the unit's side in its own action, `UnitChangeFaction` moves it to another slot and
the pointer with it, not the number; `ComputerFinishes` (`AiRefreshMap`) and `Wait`
(`ApplyUnitAction`) go back to the number.  The unit in the new slot then stays as it
was: hidden, off the unit map, its carried unit where it was.  `strays` (history) holds
the slots an action lost track of that way: the new slot of such a unit, also after
further changes of sides, and a slot another unit moves into while an action still
names it.  `stage` says where
the phase is: waiting for a choice, a unit selected, its menu open, a computer's
unit under way, an action performed and about to end, the turn changing.  A
selected unit is hidden and off the unit map, as `UnitBeginAction` leaves it.

`SelectUnit`, `CancelSelect`, `MoveTo`, `BackToMove` are the player's part before an
action; `Rescue`, `Drop`, `Take`, `Give`, `Combat`, `Wait` the actions that concern
carrying or killing; `Trap` and `Poison` the other deaths; `FinishAction`,
`FinishWithCanto`, `ComputerFinishes` how actions end, `ComputerMoves` and
`ComputerWaits` how the computer's begin; `ChangePhase` and `BeginPhase` the turn; `ChangeFaction` a unit
that an event gives to another side.  How far a unit may go is left to `UnitPath`:
here it goes to any free tile it can stand on.

- `LinksAgree`: carrier and carried name each other, with the right flags, both
  alive.
- `NobodyVanishes`: a living unit that is hidden is carried by a living one, or is
  the one that acts, or a stray.
- `CarriedWithCarrier`: the carried unit is where its carrier is, unless that is a
  stray or the computer's unit under way.
- `OneUnitPerTile`: nobody else shares a tile, as long as there is no stray.
- `UnitMapIsCurrent`: wherever a choice is made by the unit map, what it shows is
  there and in view; without strays it shows every unit in view.
- `StaysAfterTransfer`: a unit that took or gave another cannot go back.

## 3. The runs

Every number below is a CONSTANT of the `.cfg` of that name.

| Run | Question | Instance |
| --- | --- | --- |
| `ProcTree` | Do free list, lock counts and links stay consistent, and is everybody visited? | 3 slots, 1 tree, 1 script, 4 starts, functions entered up to call depth 4 |
| `ProcMarks` | The same structures under the loops over scripts and marks | 2 slots, 2 scripts, 1 mark, 4 starts, stacks six deep |
| `LinkWrap` | In order and once, over a cable that loses anything, when numbers wrap and messages are refused? | 2 consoles, 4 messages modulo 3, 4 resends |
| `LinkThree` | Is what everybody acknowledged kept when one of three is slow and its queue full, and does every message arrive or an error screen come up? | 3 consoles, two of them send one message each, one of these may lose its serial interrupts, the third does not read; lanes of one packet, receive queue of 1, 1 resend |
| `LinkRing` | What do preemption, noise, a stalled main loop, an emptied queue and a new session do to packets? | rings of 12 words, bodies of up to 2 words, 2 packets and one sent again and again, 1 fault, 1 preemption |
| `SaveCrash` | Are blocks that count complete, whatever power failures cut short? | 2 game slots, 7 contents written, 3 failures, slots symmetric |
| `SaveLosses` | Do suspended chapters belong to one game, and is suspending safe, when records of defeated units are patched into saved blocks too? | 2 game slots, 7 contents, 2 failures |
| `PhaseControl` | Is the army lent for one phase and returned, does a running phase keep it, is no chapter suspended in it? | 2 units per phase, hotkey, both requests at any time |
| `MapMovement` | Are the costs least, the arrow a walk, the stop right? | 3 x 3 tiles, every choice of plain, forest or wall for the five tiles between plain corners (243), allowance 4, with and without an enemy, 3 scenes of allies, hidden enemies and mines |
| `UnitRescue` | Do links, tiles, unit map and hidden units agree through everything that happens to units? | 4 x 1 tiles with water, 6 slots, 4 persons (a knight, a flier with canto that may change sides, a child, a raider), child blue, or green without the knight, 1 stray |

Two more runs are expected to be violated; section 6 describes them.

**Why the bounds are enough.**  Three slots are the smallest table in which a
slot is freed and handed out again under a frame that holds it while a third
proc looks on; four starts reuse at least one slot in every complete use of the
table; call depth 4 reaches an end callback of a child of the proc in whose
callback the deletion was called, and a start within it.  Loops over the table
need two procs that match, or one that matches twice.  For the link, a window of
one message makes modulo 3 the tightest numbering that can work and four
messages wrap it; more resends than messages in flight let every old copy
outlive its message.  Three consoles are the smallest number with a fast and a
slow receiver; the slow one of `LinkThree` has a queue of one and two senders, so a
message finds the queue full.  For the save blocks, operations concern one slot or two; two
failures are one during an operation and one during the operation that repairs
it; seven contents are a game, its suspensions in both blocks, their replacement
and the two patches of a record.  Map phases have no counter but the units of a
phase, and a first and a last one behave differently.

The rings of `LinkRing` hold the longest packet, the words behind it that
`Sio_ReadPacket` waits for, and part of another, so packets wrap, meet the other
cursor and are overwritten halfway.  The body of the second packet is the magic
number, which makes the reader take bodies for headers; words have their 16 bits,
so checksums are the code's.  One fault followed by recovery is enough for
`Recovers`: nothing remembers an earlier one but the contents of the rings.

A board of 3 x 3 has walks that meet again, tiles that are first reached the dear
way round, and a middle to walk around; with allowance 4 the dearest corner is just
in reach, detours run out of movement, and arrows start over.  The proofs of the
flood need no bound.  In `UnitRescue` every pair of units meets in the corridor,
the water makes one of them unable to be dropped there, and the free slots of each
side take the one that changes sides.  A hand-over needs two carriers, so the army
with the knight has them; a green child differs in the phase it acts in and in the
flags it is dropped with.  Sides change freely until an action has lost
track of a unit (`MaxStrays = 1`); the stray then fights, carries and dies for as long
as anybody does.  The properties are proved for every board, army and number of
strays, so this run guards the model rather than the conclusion.

`CHECK_DEADLOCK FALSE` stands where the system may stop: consoles that have
emitted all their messages or shown the error screen, a player who turns the
power off.  The runs of `ProcSched`, `LinkRing`, `MapMovement` and `UnitRescue` check
for deadlock: no order of calls leaves a callback that cannot return, an
interrupt that cannot go on, or a unit whose action cannot end.

**Fairness.**  `LinkThree`, `LinkRing`, `PhaseControl` and `MapMovement` state some.

- `SioLink`: weak fairness of giving up, of a resend that counts while the sender is
  not in `stopped`, and of polling `SioReceiveData` for the games in `Readers`.  The
  vertical blank interrupt runs every frame and tries a resend every 38 frames;
  serial interrupts empty the outgoing ring faster than a console fills it, so
  `SioSend` takes one sooner or later.  A console whose interrupts have stopped has no
  such fairness.  The Link Arena polls every frame while it expects messages; a game
  that does not is left out of `Readers`.  Nothing is assumed of what the cable
  delivers: it may lose everything, and then `GiveUp` is what fairness leads to.
- `SioRing`: weak fairness of transfers, of `Sio_ReadPacket` (`SioMain_Loop` polls every
  frame), of the steps of a `SioSend` and a `SioClearOutgoingQueue` under way, of
  starting the session again once it was halted, and of the retransmission in the
  vertical blank.  A transfer that fails is a fault, and faults are bounded: a cable
  that fails for ever is `Settles`' concern.
- `UnitPath`: weak fairness of the flood, a loop within one call.  The player is under
  no obligation.
- `MapPhases`: weak fairness of `StartPhase`, `ComputerEnds` and `Monitor`: `OnMain`
  runs every frame and the game lock, taken by menus and animations, is given
  back.  Strong fairness of a unit finishing its move: it springs a trap at most
  once in a move, then `CpDecide` goes on to the next unit.  The player is under no
  obligation.

## 4. What is proved

TLAPS proves the following for every value of the constants that satisfies the
module's `ASSUME`.

| Theorem | States |
| --- | --- |
| `ProcSchedProofs!TypeCorrect` | `Spec => []TypeOK` |
| `ProcSchedProofs!NoDoubleFree` | if `Careful`, `Spec => []FreeListExact` |
| `ProcSchedProofs!TreeWellLinked` | if `Careful`, `Spec => []WellLinked` |
| `ProcCountProofs!LocksBalanced` | if `Careful`, `Spec => []LocksCountBlockers` |
| `ProcCountProofs!NoProcSkipped` | if `Careful`, `Spec => []EveryProcVisited` |
| `SaveProofs!TypeCorrect` | `Spec => []TypeOK` |
| `SaveProofs!WholeBlocks` | without loss records, `Spec => []ValidIsWhole` |
| `SaveProofs!SuspendIsSafe` | `Spec => SuspendKeepsOld` |
| `SaveProofs!SuspendsOfOneGame` | `Spec => []SuspendsBelong` |
| `SioLinkProofs!TypeCorrect` | `Spec => []TypeOK` |
| `SioLinkProofs!WindowIsOne` | `Spec => []OneAhead` |
| `SioLinkProofs!AckedStays` | if no receiver refuses, `Spec => []AckedIsKept` |
| `SioLinkProofs!ChannelIsKept` | `Spec => InOrderOnce`, the refinement of `SioChannel` |
| `SioRingProofs!TypeCorrect` | `Spec => []TypeOK` |
| `SioRingProofs!InOrderUntilTrouble` | `Spec => [](faults = 0 => InOrder)` |
| `SioRingProofs!GenuineWhileCalm` | `Spec => [](Calm => Genuine)` |
| `SioRingProofs!NothingIsLostWhileCalm` | while `Calm`, `Sio_ReadPacket` refuses no packet and the ring of a reader that keeps up never fills |
| `MapPhasesProofs!TypeCorrect` | `Spec => []TypeOK` |
| `MapPhasesProofs!ControlIsKept` | `Spec => RunningKeepsControl` |
| `MapPhasesProofs!BlueIsNotSuspended` | `Spec => []NoSuspendInBluePhase` |
| `MapPhasesProofs!LoanEnds` | `Spec => []LentForOnePhase` |
| `UnitPathProofs!FloodTypes` | `FloodSpec => []TypeOK` |
| `UnitPathProofs!FloodCosts` | `FloodSpec => []CostsArePaid` |
| `UnitPathProofs!FloodGains` | `FloodSpec => []GainsArePending` |
| `UnitPathProofs!FloodFills` | `FloodSpec => FillsLeastCosts`, the refinement of `LeastCostMap` |
| `UnitPathProofs!FloodPools` | `FloodSpec => []NoEntryTwice` |
| `UnitPathProofs!FloodComputes` | `Spec => [](Done => map = LeastCosts(origin, movement))` |
| `UnitPathProofs!ArrowsWalk` | `Spec => []PathIsWalkable` |
| `UnitPathProofs!ArrowsReach` | `Spec => []ArrowReachesCursor` |
| `UnitPathProofs!ScriptsAlwaysEnd` | `Spec => []ScriptsEnd` |
| `UnitPathProofs!UnitStopsInTime` | `Spec => []StopsInTime` |
| `UnitRescueProofs!RescueTypes` | `Spec => []TypeOK` |
| `UnitRescueProofs!RescueLinks` | `Spec => []LinksAgree` |
| `UnitRescueProofs!NobodyIsLost` | `Spec => []NobodyVanishes` |
| `UnitRescueProofs!OneEachTile` | `Spec => []OneUnitPerTile` |
| `UnitRescueProofs!MapIsCurrent` | `Spec => []UnitMapIsCurrent` |
| `UnitRescueProofs!CarriedTogether` | `Spec => []CarriedWithCarrier` |
| `UnitRescueProofs!TakersStay` | `Spec => StaysAfterTransfer` |

**Scheduler.**  The invariants are about a table at rest, and it hardly ever is: a
deletion calls end callbacks between its steps, and these start, end and mark
procs, which calls more callbacks.  `CoreInv` therefore relates the trees to the
call stack.  `Doomed` are the procs some frame is deleting, `Closing` those whose
child link is not read again.  Then

- every live proc hangs in a tree without a cycle (`TreeOK`), and the list of
  children of each tree and each proc that is not closing is whole: from the
  newest along `prev` one reaches each child that is not doomed, and `next` leads
  back (`ListOK`);
- of the list a deletion is walking, what it has not reached yet is whole
  (`RestOK`, `HeadOK`);
- no frame works on a proc that hangs under one which a frame below it deletes, a
  loop over the table included (`FramesOK`).  This is what makes a slot be freed
  once: the frame that frees it is the last to know it;
- `Proc_EndEachMarked` does not look whether a marked slot is alive.  A slot freed
  since it began is harmless if its links lead to other such slots or nowhere
  (`Grave`, `GravesOK`), which needs the fourth clause of `Careful`.

Cycles and reachability are the difficulty: the provers have no induction over
lists.  `Reach(f, S)` is defined as what every set closed under `f` contains, so that a
fact about reachable slots is proved by naming a closed set; a dozen lemmas say what
unlinking a slot, pushing one or making a slot its parent's newest child do to it.

`LocksCountBlockers` needs `CoreInv` and `StartsOK`: the slot a `Proc_StartBlocking` is
about to flag is free or carries a child not flagged yet, and no two of them wait
for one slot (first clause of `Careful`); the count is then right before and after,
whether the child or its parent ends first.  The lock count is a
byte, hence at most 255 slots (`ProcAssumption`; the code has 64).

`EveryProcVisited` needs `CoverInv`: of every proc `q` that is owed a visit and alive, an
ancestor, or `q` itself, is `Coming`: some `run` frame is at it (and, if it is `q`,
has not passed it), or it is on the list of siblings the top frame is about to walk
down.  A callback may unlink a proc the traversal holds, start others in front
of it, or end it and let another take its slot; what was there before stays on the
way, because unlinking leads past the slot and the frames read `prev` before they
run anything.

TLC checked `CoreInv` and its companions on small instances before they were
proved (two slots and call stacks seven deep with a mark, three slots and six
deep without); it refuted earlier forms of `GravesOK` and found the fourth
clause of `Careful` that way.

**Save blocks.**  `ValidIsWhole` is not inductive: nothing in it says that what a
failure leaves behind fails its check.  `WholeInv` adds `Fresh` (no version in
use exceeds `clock`, so the contents of a torn block match no checksum) and
`Ordered` (contents about to be written are whole, and a header is stamped only
just after the contents it covers).  For `SuspendKeepsOld`, `KeepInv` adds
`InStep`: a suspension is in one of three places, and what it writes is not older
than what it will replace.  `SuspendsBelong` is about the newest suspended chapter that
can be read, but a failure may uncover an older one, and deleting a game goes on
after it has cleared the slot; `BelongInv` adds what the writes still to come may do
(`Planned`: a game is erased last, and after the chapters that name it) and that,
while a game is played, its slot is in use or about to be stamped and what can be
read of suspended chapters and is not about to be erased is its own (`Owned`).  That versions do not collide stands for the
assumption that a 16-bit checksum tells torn contents from complete ones.

**Link.**  The bounds of the counters follow from the guards; the one fact that
does not is that an acknowledgement never removes a message from an empty queue.
`TypeInv` adds `AwaitsOne`: acknowledgements count only while a message is
pending.  `LinkAssumption` asks for at least three sequence numbers; the code has
65536.

That messages arrive in order and once needs to say where copies
can be.  `OrderInv` does it for each pair of consoles.  With `b` the message
the sender is trying to get through and `g` the number of messages the receiver's game
has, `g` and `b` are at most one apart; data on the way is message `b`, behind copies
of `b - 1` (`DataLane`); what the receiver holds is message `g`, behind copies of
`g - 1` (`HeldQueue`); acknowledgements on the way are for `b - 1`, `b` or `b + 1`, and
for none of the first after one of the last (`AckLane`).  Everything in flight is thus
within two of what it is compared with, so three numbers tell it apart.  The clause
that makes it inductive is about the end of a message: once the receiver has `b` or its
acknowledgement is under way, no copy of `b - 1` is left on the lane, or the copy would
be taken for a later message.  It holds because lanes do not reorder.  `AckedStays` asks
for receivers that refuse nothing (section 7).

**Rings.**  `Calm` means that nothing has gone wrong so far: no fault, and no interrupt
between two steps of the main loop's calls.  The lane is then the words not read yet
followed by those that wait to leave (`LaneOf`), and a transfer takes a word from the
second part to the first without changing the lane.  `Quiet` says what the lane is:
words are cut into frames, each an idle word or a whole packet (`Cut`); the packets of
the main loop stand on it in the order they were sent in (`Rising`), after all those
that were accepted (`Got`); and a `SioSend` under way has put the first words of its
packet behind the lane and has the others in hand (`InProgress`), so that storing
`sWriteCursor` appends one frame.  What makes this inductive is that a reader which
starts at a frame ends at one: the words before a magic are idle frames, by
induction on how many there are, and at a magic the packet's own length leads to the
next frame.  A `SioSend` that meets `sSendCursor` gives up without moving
`sWriteCursor`, and its packet never was on the lane.  That no ring overruns also
follows: what a reader that keeps up leaves unread is less than one packet and the
words it waits for, and `RingAssumption` asks for rings longer than that (512 words
against 64 + 7).  `RingAssumption` also asks that the length of the longest packet is
a word.

**Map phases.**  `Known` says that a blue computer phase on the map is one the
controller knows of (`IsBlueComputerPhase`), so that requests are refused and
suspension is switched off exactly while it runs.  `Lent` says where a lent army
can be: on its way to the phase, in it, or over it with the marker still to run
in this frame and the result reported, which is what makes the marker act.

**Flood.**  `GainsArePending` is nearly inductive.  A step that lowers a tile's cost
may create gains on its far sides, and the entry it pushes covers these; on its near
side the tile it came from is cheaper, so looking back gains nothing.  With empty
pools nothing is pending:
every gain is settled and the map is a fixed point, which together with
`CostsArePaid` is `IsLeastCost`; a flood that goes on leaves `result` at `NoMap`, which
is the refinement.  For `NoEntryTwice`, `Colours` says that the entries of `src` stand on
tiles of one colour of a chessboard and those of `dst` on the other, so a round does
not lower what it reads; and `PushedIsPaid` that the step that pushed an entry of `dst`
is not worth taking again in that round.  The theorems hold for every board, every table of prices of at least 1
and every allowance up to `MAP_MOVEMENT_EXTENDED`; 124 + 255 does not fit a byte, but
what does not fit is never stored.

**Paths.**  The arrow rests on three recursive functions, and what they compute is
proved by induction with sets: a set that holds 0 and with each number the next one
holds them all (`AllNumbers`, `UpTo`), because a set of numbers that is not empty
has a least member (`LeastNumber`).  `Recursion` gives a function that satisfies the
equation it is defined by, once for all three.

- *Costs.*  Whatever `LeastCosts` has reached is paid for by a reached neighbour
  (`Paid`, kept by `Relaxed`), so the flood, which has settled every gain, holds no
  more: by induction on the cost (`FloodReaches`).  What the flood holds at cost `v`,
  `LeastCosts` has found after `v` rounds over the board, by induction on `v`
  (`LeastCostsReach`).  Together they are `FloodComputes`, the safety half of
  `FloodEnds`.
- *Scripts.*  Along a script the costs rise from step to step, because prices are
  positive; so scripts end and do not cross themselves, and a tile that is reached
  has one.  Walking it from the unit leaves at each point the allowance less the
  tile's cost, which is never below 0.
- *The arrow.*  `PathInv` is what every frame keeps: the arrow is a walk (`Walk`),
  whatever was cut off, added or rebuilt, and while it stands for a reached tile it
  ends there.  A detour starts with what is left at the end of the arrow and is kept
  only if it meets no point of it; otherwise the arrow starts over.  `StopsInTime`
  is in the invariant too, as the unit may come back from where it stopped.

The flood of `UnitPath` starts on a tile that is no enemy's (`PathInit`): the unit that
moves stands on it.

**Rescue.**  `LinksAgree` is not inductive: a rescue finds its target on the unit map,
so the map must not show carried units while a choice is made (`MapInView`), and the
acting unit and those the computer has listed must not be carried ones (`ActorIsFree`,
`ListedAreFree`).  These and the types make `IInv`.  An action may end for another slot
than the acting unit's; `SubjectIsFree` says that this one is not carried either, and
that the two are the same while nothing has changed sides.  `Accounted`, on top of it,
says that whoever is hidden and not carried is the one acting or a stray, which is
`NobodyVanishes`.
`PInv` adds the tiles: `OneUnitPerTile` needs `Covers` (every unit in view is on the
unit map while a choice is made, so a free tile is free), `OriginIsFree` (nobody
takes the tile a cancelled move goes back to) and `AtGoal` (the acting unit is where
the end of its action puts it); `UnitMapIsCurrent` is `MapInView`
and `Covers`, with one unit per tile.  Drops by a death are the case that needs all of
it: the acting unit is on no map, and the code marks its tile by hand.  `Covers`,
`OriginIsFree`, `AtGoal` and `OneUnitPerTile` hold until there is a stray, and there is
one for ever after (`StraysGrow`), so a step that makes one has nothing to keep.

## 5. What is only model-checked

- Liveness (`Settles`, `Recovers`, `ControlReturns`, `FloodEnds`): out of reach of the
  proof system.
- `Genuine` and `InOrder` of `SioRing` after something went wrong.  What a ring holds
  then (half a packet, two halves, words of a body that look like a header) is told
  from a packet by two 16-bit sums.  They do so in the instance and not in every one:
  bodies can be chosen whose sums agree, so neither holds for every value of the
  constants.  Up to then both are proved (section 4).

## 6. Where code and documents disagree

Each run checks one property that a comment or document of the repository
states, and TLC finds the behaviour of the code that violates it.

| Run | Property | What happens |
| --- | --- | --- |
| `PhaseStuck` | `MarkerOwnsControl` | A map that ends in a charged phase resets the controller, but no cleanup ends the marker: it waits for ever and keeps Charge unavailable in later chapters. |
| `PhaseEnemyControl` | `PlayerIsBlue` | A chapter suspended in mid-action by an enemy unit that sprang a trap resumes as a player phase of the enemy army. |

Neither needs more than the end of a map or a trap.

**Limits of the properties that hold.**  They were found with TLC while the
guards of the model were being settled, and can be found again with the change
named here.

- *A slot handed out under `Proc_StartBlocking`* (`Careful = FALSE` in
  `ProcTree`, `LocksCountBlockers`).  `Proc_StartBlocking` looks at the child's
  slot after its script ran.  If the child has ended and a callback started
  another proc, the slot is that proc's: the parent waits for a proc of another
  parent, which does not release it.
- *Marks of freed slots* (`Careful = FALSE` in `ProcMarks`, `WellLinked` alone).
  `Proc_EndEachMarked` does not look whether a marked slot is alive; ending a
  freed slot frees the proc its stale child link names without unlinking it.
- *Procs started or marked under `Proc_EndEachMarked`* (two slots, one script, one
  mark, `MaxDepth = 6`, without `~Sweeping` in `Start` and `SetMark`, `FreeListExact`).
  The loop ends a marked proc; the end callback of one of its children marks the proc
  being deleted, or starts one in a slot the loop has freed.  The loop, or a second
  one under it, meets the mark on a slot that is being freed and frees it again.
- *Idle callbacks twice in a frame.*  `src/include/proc.h:50` says "once each
  frame".  If an older sibling ends the newer one and starts a child of its own,
  the child gets the freed slot; the traversal runs it as a child and again when
  it returns to the frame that still holds the slot.
- *Erasing suspended chapters.*  The two headers are erased by two writes.  A
  failure between them makes Resume fall back to the chapter before the last,
  which still belongs to the same game (`SuspendsBelong`); and the next
  suspension then writes over it in place, which is why `SuspendKeepsOld` asks for
  an intact block under `last_suspend_slot`.
- *Loss records and two failures* (`LossRecords = TRUE`, `MaxWrites = 9` and
  `MaxCrash = 2` in `SaveCrash`, `ValidIsWhole`).  The patch of a record reads a header and writes it again with
  a new checksum (`src/src/bmsave-bwl.c:320`).  If a copy onto the slot of the
  suspended game was cut short, that makes it count.  `SaveLosses` therefore does not list the property and
  `WholeBlocks` assumes there are none.

- *Refused messages* (`MayRefuse = TRUE` in `LinkThree`, `AckedIsKept`).  `SioMain_Loop`
  queues a data packet and acknowledges it at once with the next number
  (`src/src/sio_core.c:512`-521).  `SioReceiveData` applies `verify` later; when it
  refuses, it drops the entry and acknowledges the old number (1138-1151), but the
  sender has moved on and the message is gone.  The order of delivery, `InOrderOnce`,
  survives it (`LinkWrap`).
- *Emptying the outgoing ring* (`InOrder` without `~raced`).  `SioClearOutgoingQueue`
  (`src/src/sio_core.c:1298`), called while the session runs
  (`sio_event.c:192`, `sio_bat.c:458` and 501), loads `sSendCursor` and stores it in
  `sWriteCursor`.  If a word leaves between the two, the write cursor is one behind
  and the ring is sent once more, old packets included.  The sequence numbers of
  `SioLink` drop the copies; packets without a number have no such protection.  A
  `SioSend` of the interrupt in the middle of one of the main loop mixes the two, or
  sends one twice.
- *Confirming in the frame the cursor moves* (`StopsInTime` without `drawn = cursor`).
  `ACT_MOVE` returns before the arrow is drawn (`src/src/playerphase.c:673`-678, 782);
  the unit then walks the arrow of the frame before.  The button is masked while the
  cursor on the screen is between two tiles (269-272), which leaves the frames in which
  that one catches up or turns back.
- *Stopping on others' tiles.*  A mine under an enemy hidden by fog stops the unit on
  the enemy's tile, because the mine is looked at first; a hidden enemy just behind an
  ally stops it on the ally's tile.  `StopsInTime` promises neither.
- *The test of the flood.*  The C code in the comment of `asm/arm.s:562` lets equal costs
  through, the assembly (604-605) does not.  The difference is `NoEntryTwice`.
- *Prices of 0 and the arrow's first point.*  The proofs ask for prices of at least 1,
  as every terrain a class can enter has.  `CutOffPathLength(0)`
  (`src/src/bmpatharrowdisp.c:37`, called at 183) runs over no point and the first
  point's cost is written from an element before the array, then again at once.
- *Deaths with nowhere to drop.*  If no tile is free for the carried unit,
  `UnitGetDeathDropLocation` returns without a result (`src/src/bmunit.c:1051`); the
  model has no step there.
- *Deaths in the unit's own attack.*  `MoveActiveUnit` reads the character of a unit
  the computer has just lost (`src/src/bmunit.c:1138`, `cp_perform.c:192`), which is
  NULL for other sides than blue; it writes flags into a free slot.  The model leaves
  that slot alone.
- *Changes of sides in the unit's own action.*  `UnitChangeFaction` updates
  `gActiveUnit` (`src/src/bmunit.c:1011`) and not `gActionData.subjectIndex`, to which
  `AiRefreshMap` (`cp_perform.c:187`) and `ApplyUnitAction` (`bmmind.c:111`) go back.  An
  event that turns a computer's unit at the end of its action therefore leaves the unit
  hidden in its new slot.  `NobodyVanishes` without its last line fails in seven steps:
  `ChangePhase`, `ChangeFaction` (the flier joins the computer's side), `BeginPhase`,
  `ComputerMoves`, `Combat`, `ChangeFaction` and `ComputerFinishes`.  Without the
  exemption of strays `OneUnitPerTile` fails when another unit stops on the tile, which
  counts as free; `CarriedWithCarrier` because `MoveActiveUnit` brings along what the
  slot left behind carries, which is nothing; and the second half of `UnitMapIsCurrent`
  when the stray dies and the unit it carried is put down on the tile another has
  taken.  `LinksAgree` and the first half hold throughout.
- *A link whose interrupts stop* (`Settles` without `n \in stopped`).  A resend that
  `SioSend` refuses is not counted (`src/src/sio_core.c:432`), so where nothing drains
  the outgoing ring the counter stays below the 60 that line 421 waits for: the message
  neither arrives nor brings up the error screen.  The checks for a silent cable
  (section 7) are what is left to notice it.
- *A game that does not read* (`Settles` without `HeldBy`).  `SioMain_Loop` acknowledges
  what it queues, so the sender takes the message for delivered while it waits in
  `pendingRecv`; the error screen comes only when the queue is full.
- *Changes of sides, other cases.*  `UnitChangeFaction` with no free slot copies to NULL; a carried
  unit that changes into a computer's slot that is still listed would act while it is
  carried (`src/src/cp_decide.c:116` looks at two flags only).  Both are excluded in
  the model.

Whether the first four occur in a given script depends on the scripts, which are
not modelled.

## 7. What is not modelled

- *Scheduler*: exhaustion of the table (the code writes through NULL; starts are
  guarded by a non-empty free list); the vertical blank running tree 0 between
  two statements of the main loop; `Proc_UnblockEachMarked` without a block.
- *Link*: the hand-shake, player ids, big transfers and the
  synchronised phase that follows them; the detection of a silent cable or player
  (`Sio_CheckLinkAlive` and the counter of frames without a transfer,
  `timeoutClock`; `src/src/sio_core.c:381`-414, `sio_bat.c:409`-423), which the
  screens of the Link Arena switch on level by level.  `SioRing` has one lane and one preemption
  between two steps of the main loop; `SioLink`'s `Lose` stands for what becomes of
  packets that were mixed.
- *Save blocks*: the global save info as torn contents, rankings, the sound
  room, extra records, migration, preferences.
- *Map phases*: the planner's own restore request, strategies, telemetry
  counters, objectives, `RestartBattleMap`, the game lock.  Deleting a suspended
  chapter is the subject of `SaveSlots`.
- *Movement*: the ranges of attacks and staves, floods for the computer's decisions
  (the same `GenerateMovementMap`, with other prices and no player), the fog itself;
  the floods an arrow's detour asks for are taken in one step.  That the arrow's arrays
  of 20 points and the pools of 128 entries are long enough is no conjunct of a
  property.
- *Units*: trade, items, staves, supports; phantoms and ballistae; loading units in
  mid-chapter; the events that clear units outright
  (`src/src/eventscr.c`, `KillAllRedUnits`, `KillPlayerUnitByPid`), which look at no
  link.  The convoy and the trap table are arrays that are scanned and compacted by
  one caller at a time.
- *Event engine, AI, battle, units, screens, sound*: see the notes of the
  components in `PROJECT.json`.  AI scoring and battle are sequential arithmetic
  over large tables; screens and sound keep no state the game's rules depend on.

## 8. Plan

Order of work, most important behaviour first.  Done: 1 to 7.

1. `ProcSched`, because every other part runs inside it.
2. `SioChannel`, `SioLink` and the refinement.
3. `SaveSlots` and its proofs.
4. `MapPhases` and its proofs.
5. `SioRing`: outgoing and incoming rings, a preempted `SioSend`, a late reader.
6. `LeastCostMap`, `MovementMap`, the refinement and its proofs; `UnitPath` on top.
7. `UnitRescue` and its proofs.
8. `ProcAllocIrq`: allocation and unlinking statement by statement with tree 0 in
   the interrupt, and exhaustion of the table.
9. `SioBigTransfer`: header, blocks, the reset of sequence numbers, completion;
   composed with `SioLink`.
10. `MechanicsRegistry`: order, capacity, removal while hooks run.
11. `SaveGlobal`: torn global info, migration and preferences; composed with
    `SaveSlots`.
12. Events: pauses, `RestartBattleMap` in a phase, the game lock, the clearing of
    units; composed with `MapPhases` and `UnitRescue`.

Theorems to come: `Genuine` and `InOrder` of `SioRing` after trouble, from an assumption
on the packets that no mixture of their words passes the sums, and the invariants of
the modules of steps 8 to 12.

## 9. Running

    tlc -workers 2 -config ProcTree.cfg MCProcSched.tla
    tlapm SaveProofs.tla

`PROJECT.json` gives the module of every run.  The runs of
`ProcSched`, `SaveSlots`, `SioRing`, `UnitPath` and `UnitRescue` and `LinkThree` take
one to two minutes each, the proofs of `ProcSchedProofs`, `ProcCountProofs` and
`UnitRescueProofs` some minutes each, those of `UnitPathProofs`, `SioLinkProofs` and `SioRingProofs` one to three.
