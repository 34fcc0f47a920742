------------------------------ MODULE SaveSlots -----------------------------
(***************************************************************************)
(* The save blocks in the battery-backed memory of the cartridge:           *)
(* src/bmsave.c, the block headers of src/bmsave-lib.c, and the patch of    *)
(* src/bmsave-bwl.c.                                                        *)
(*                                                                         *)
(* There is a block for each game slot and there are two for suspended      *)
(* chapters, written in turn; a block counts if its header says so and      *)
(* holds the checksum of its contents.  An operation is a sequence of       *)
(* writes, and power may fail between two of them or in the middle of one.  *)
(* No code reads the memory while a write is in progress.                   *)
(***************************************************************************)
EXTENDS Integers, Sequences

CONSTANTS
  Game,        \* game slots, SAVE_ID_GAME0 to SAVE_ID_GAME2
  LossRecords, \* does PidStatsRecordLoseData patch saved blocks?
  MaxWrites,   \* bound on the number of contents written
  MaxCrash     \* bound on the number of power failures

None == -1
Susp == {0, 1}     \* SAVE_ID_SUSPEND and SAVE_ID_SUSPEND_ALT

ASSUME SaveAssumption ==
  /\ Game \cap Int = {}
  /\ LossRecords \in BOOLEAN
  /\ MaxWrites \in Nat
  /\ MaxCrash \in Nat

VARIABLES
  data,     \* contents of the blocks
  info,     \* their headers, saveBlockInfo
  last,     \* last_suspend_slot
  play,     \* the game being played: gPlaySt.gameSaveSlot, just_resumed
  todo,     \* the writes the operation in progress has still to do
  clock,    \* number of contents written so far
  crashes   \* number of power failures so far

vars == <<data, info, last, play, todo, clock, crashes>>

Block == Game \cup Susp

(* game is the gameSaveSlot stored in the block, stage the moment it was    *)
(* saved, ver a name for its exact bytes; a block a failure cut short is    *)
(* not whole.                                                               *)
Contents == [game : Game, stage : Nat, ver : Nat, whole : BOOLEAN]

(* kind tells an erased header from a used one; sum is the version whose    *)
(* checksum it holds.                                                       *)
Header == [kind : BOOLEAN, sum : Nat \cup {None}]

Menu == [game |-> None, resumed |-> FALSE]

Write ==
  [what : {"data"}, block : Block, put : Contents] \cup
  [what : {"patch"}, block : Block, put : Nat] \cup
  [what : {"stamp", "erase", "restamp"}, block : Block] \cup
  [what : {"swap"}]

(* Blocks, headers and pending writes have the shapes bmsave.h declares. *)
TypeOK ==
  /\ data \in [Block -> Contents]
  /\ info \in [Block -> Header]
  /\ last \in Susp
  /\ play \in {Menu} \cup [game : Game, resumed : BOOLEAN]
  /\ todo \in Seq(Write)
  /\ clock \in Nat /\ crashes \in Nat

ValidUnchecked(b) == info[b].kind    \* mutant: the checksum is not compared

Valid(b) == info[b].kind /\ info[b].sum = data[b].ver    \* ReadSaveBlockInfo

Other(s) == 1 - s                                        \* GetNextSuspendSaveId

(* IsValidSuspendSave: the block Resume reads. *)
Resumable == IF Valid(last) THEN last
             ELSE IF Valid(Other(last)) THEN Other(last) ELSE None

(* InitGlobalSaveInfodata; what a block that was never written holds is not *)
(* read.                                                                    *)
Init ==
  /\ \E g \in Game :
       data = [b \in Block |-> [game |-> g, stage |-> 0, ver |-> 0, whole |-> FALSE]]
  /\ info = [b \in Block |-> [kind |-> FALSE, sum |-> None]]
  /\ last = 0
  /\ play = Menu
  /\ todo = << >>
  /\ clock = 0
  /\ crashes = 0
-----------------------------------------------------------------------------
(* The writes. *)

New(g)     == [game |-> g, stage |-> clock + 1, ver |-> clock + 1, whole |-> TRUE]
Fill(b, c) == [what |-> "data", block |-> b, put |-> c]
Patch(b, v) == [what |-> "patch", block |-> b, put |-> v]
Stamp(b)   == [what |-> "stamp", block |-> b]      \* WriteSaveBlockInfo
Restamp(b) == [what |-> "restamp", block |-> b]    \* of what ReadSaveBlockInfo read
Erase(b)   == [what |-> "erase", block |-> b]      \* WriteSaveBlockInfo, kind INVALID
Swap       == [what |-> "swap"]                    \* WriteSwappedSuspendSaveId

InvalidateSuspendSave == <<Erase(0), Erase(1)>>

Stamped(b)    == [kind |-> TRUE, sum |-> data[b].ver]
Erased        == [kind |-> FALSE, sum |-> None]
Patched(c, v) == [game |-> c.game, stage |-> c.stage, ver |-> v, whole |-> c.whole]

SwappedToNone == None    \* mutant: the mark of no suspended chapter is saved

Swapped == Other(last)

(* The next write of the operation, which the operation's code has reached. *)
W == Head(todo)

Reached(kind) == todo # << >> /\ W.what = kind

Done == todo' = Tail(todo) /\ UNCHANGED <<play, clock, crashes>>

DoFill ==
  /\ Reached("data") /\ Done
  /\ data' = [data EXCEPT ![W.block] = W.put]
  /\ UNCHANGED <<info, last>>

DoPatch ==
  /\ Reached("patch") /\ Done
  /\ data' = [data EXCEPT ![W.block] = Patched(data[W.block], W.put)]
  /\ UNCHANGED <<info, last>>

DoStamp ==
  /\ Reached("stamp") \/ (Reached("restamp") /\ info[W.block].kind)
  /\ Done
  /\ info' = [info EXCEPT ![W.block] = Stamped(W.block)]
  /\ UNCHANGED <<data, last>>

DoErase ==
  /\ Reached("erase") \/ (Reached("restamp") /\ ~info[W.block].kind)
  /\ Done
  /\ info' = [info EXCEPT ![W.block] = Erased]
  /\ UNCHANGED <<data, last>>

DoSwap ==
  /\ Reached("swap") /\ Done
  /\ last' = Swapped
  /\ UNCHANGED <<data, info>>

(* The power fails, perhaps in the middle of the next write.  A block cut   *)
(* short has old or new bytes for its game, its first part.  A header cut   *)
(* short fails its check (the checksum is written last, and the magic of an *)
(* erased header is never set); a patch cut short is a patch; the swap      *)
(* changes one byte.                                                        *)
PowerFails ==
  /\ crashes < MaxCrash
  /\ crashes' = crashes + 1
  /\ play' = Menu
  /\ todo' = << >>
  /\ UNCHANGED last

CrashBetween ==
  /\ PowerFails
  /\ UNCHANGED <<data, info, clock>>

CrashInFill ==
  /\ Reached("data") /\ PowerFails
  /\ \E g \in {data[W.block].game, W.put.game} :
       data' = [data EXCEPT ![W.block] =
         [game |-> g, stage |-> W.put.stage, ver |-> clock + 1, whole |-> FALSE]]
  /\ clock' = clock + 1
  /\ UNCHANGED info

CrashInPatch ==
  /\ Reached("patch") /\ PowerFails
  /\ data' = [data EXCEPT ![W.block] = Patched(data[W.block], W.put)]
  /\ UNCHANGED <<info, clock>>

CrashInHeader ==
  /\ Reached("stamp") \/ Reached("erase") \/ Reached("restamp")
  /\ PowerFails
  /\ info' = [info EXCEPT ![W.block] =
       [kind |-> info[W.block].kind \/ W.what = "stamp", sum |-> None]]
  /\ UNCHANGED <<data, clock>>
-----------------------------------------------------------------------------
(* The operations, by the writes they consist of. *)

Perform(writes, n) ==      \* n new contents are written
  /\ todo = << >>
  /\ clock + n <= MaxWrites
  /\ clock' = clock + n
  /\ todo' = writes
  /\ UNCHANGED <<data, info, last, crashes>>

AtMenu  == play = Menu
Playing == play # Menu

(* The save menu offers empty slots for a new game and as targets of a copy. *)
NewGame(g) ==       \* WriteNewGameSave
  /\ AtMenu /\ ~Valid(g)
  /\ Perform(InvalidateSuspendSave \o <<Fill(g, New(g)), Stamp(g)>>, 1)
  /\ play' = [game |-> g, resumed |-> FALSE]

(* Mutant: the suspended chapter of another game stays. *)
LoadGameOnly(g) ==
  /\ AtMenu /\ Valid(g)
  /\ Perform(<< >>, 0)
  /\ play' = [game |-> g, resumed |-> FALSE]

LoadGame(g) ==      \* ReadGameSave
  /\ AtMenu /\ Valid(g)
  /\ Perform(InvalidateSuspendSave, 0)
  /\ play' = [game |-> g, resumed |-> FALSE]

Copy(g, h) ==       \* CopyGameSave
  /\ AtMenu /\ Valid(g) /\ ~Valid(h)
  /\ Perform(<<Fill(h, data[g]), Stamp(h)>>, 0)
  /\ UNCHANGED play

EraseGame(g) ==     \* InvalidateGameSave
  /\ AtMenu /\ Valid(g)
  /\ Perform(IF Resumable # None /\ data[Resumable].game = g
             THEN Append(InvalidateSuspendSave, Erase(g)) ELSE <<Erase(g)>>, 0)
  /\ UNCHANGED play

Resume ==           \* ReadSuspendSave
  /\ AtMenu /\ todo = << >> /\ Resumable # None
  /\ play' = [game |-> data[Resumable].game, resumed |-> TRUE]
  /\ UNCHANGED <<data, info, last, todo, clock, crashes>>

(* At the end of a chapter the player picks any slot.  The next chapter     *)
(* starts with a cleared gBmSt.                                             *)
SaveGame(g) ==      \* WriteGameSave
  /\ Playing
  /\ Perform(InvalidateSuspendSave \o <<Fill(g, New(g)), Stamp(g)>>, 1)
  /\ play' = [game |-> g, resumed |-> FALSE]

SuspendInPlace ==   \* mutant: the two blocks are not written in turn
  /\ Playing
  /\ Perform(<<Fill(last, New(play.game)), Stamp(last), Swap>>, 1)
  /\ play' = [play EXCEPT !.resumed = FALSE]

Suspend ==          \* WriteSuspendSave
  /\ Playing
  /\ Perform(<<Fill(Other(last), New(play.game)), Stamp(Other(last)), Swap>>, 1)
  /\ play' = [play EXCEPT !.resumed = FALSE]

(* A unit was defeated: its record is patched into the suspended chapter    *)
(* and into the saved game.                                                 *)
LoseUnit ==         \* PidStatsRecordLoseData
  /\ LossRecords
  /\ Playing /\ ~play.resumed
  /\ Perform(<<Patch(last, clock + 1), Restamp(last),
               Patch(play.game, clock + 2), Restamp(play.game)>>, 2)
  /\ UNCHANGED play

Quit ==             \* to the title screen, or a soft reset
  /\ Playing /\ todo = << >>
  /\ play' = Menu
  /\ UNCHANGED <<data, info, last, todo, clock, crashes>>

Next ==
  \/ DoFill \/ DoPatch \/ DoStamp \/ DoErase \/ DoSwap
  \/ CrashBetween \/ CrashInFill \/ CrashInPatch \/ CrashInHeader
  \/ \E g \in Game : NewGame(g) \/ LoadGame(g) \/ EraseGame(g) \/ SaveGame(g)
  \/ \E g, h \in Game : Copy(g, h)
  \/ Resume \/ Suspend \/ LoseUnit \/ Quit

Spec == Init /\ [][Next]_vars
-----------------------------------------------------------------------------
(* What passes its checksum was written completely: no failure and no       *)
(* restamping of a patched block makes the rest of a block count.           *)
ValidIsWhole == \A b \in Block : Valid(b) => data[b].whole

(* Suspended chapters belong to one game, whose slot was not erased:        *)
(* InvalidateGameSave looks at one of the two blocks only, and Resume       *)
(* writes to the slot the block names.                                      *)
SuspendsBelong ==
  \A s \in Susp : Valid(s) =>
    /\ info[data[s].game].kind
    /\ Valid(Other(s)) => data[Other(s)].game = data[s].game

(* While a chapter is being suspended, power failures included, Resume      *)
(* finds a chapter as new as before, provided the block last_suspend_slot   *)
(* names was intact.                                                        *)
Suspending == \E i \in DOMAIN todo : todo[i].what = "swap"

SuspendKeepsOld ==
  [][Suspending /\ Valid(last) =>
       Resumable' # None /\ data'[Resumable'].stage >= data[last].stage]_vars
=============================================================================
