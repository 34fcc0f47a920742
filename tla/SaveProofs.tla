----------------------------- MODULE SaveProofs -----------------------------
(***************************************************************************)
(* Proofs about SaveSlots, for any number of game slots, writes and power   *)
(* failures.                                                                *)
(***************************************************************************)
EXTENDS SaveSlots, SequenceTheorems, TLAPS

(* An operation's writes are writes. *)
LEMMA WritesTyped ==
  ASSUME TypeOK
  PROVE  /\ InvalidateSuspendSave \in Seq(Write)
         /\ \A g \in Game :
              /\ InvalidateSuspendSave \o <<Fill(g, New(g)), Stamp(g)>> \in Seq(Write)
              /\ Append(InvalidateSuspendSave, Erase(g)) \in Seq(Write)
              /\ <<Erase(g)>> \in Seq(Write)
              /\ <<Fill(Other(last), New(g)), Stamp(Other(last)), Swap>> \in Seq(Write)
              /\ <<Patch(last, clock + 1), Restamp(last),
                   Patch(g, clock + 2), Restamp(g)>> \in Seq(Write)
         /\ \A g, h \in Game : <<Fill(h, data[g]), Stamp(h)>> \in Seq(Write)
<1>1. \A b \in Block : {Erase(b), Stamp(b), Restamp(b)} \subseteq Write
  BY DEF Erase, Stamp, Restamp, Write
<1>2. \A b \in Block, c \in Contents : Fill(b, c) \in Write
  BY DEF Fill, Write
<1>3. \A b \in Block : Patch(b, clock + 1) \in Write /\ Patch(b, clock + 2) \in Write
  BY DEF Patch, Write, TypeOK
<1>4. Swap \in Write
  BY DEF Swap, Write
<1>5. \A g \in Game : New(g) \in Contents
  BY DEF New, Contents, TypeOK
<1>6. /\ Game \subseteq Block /\ {0, 1} \subseteq Block
      /\ last \in Block /\ Other(last) \in Block
      /\ \A b \in Block : data[b] \in Contents
  BY DEF Block, Susp, Other, TypeOK
<1> HIDE DEF Erase, Fill, Stamp, Swap, Patch, Restamp, New, Other, Contents
<1>7. InvalidateSuspendSave \in Seq(Write)
  BY <1>1, <1>6 DEF InvalidateSuspendSave
<1>8. ASSUME NEW g \in Game
      PROVE  /\ InvalidateSuspendSave \o <<Fill(g, New(g)), Stamp(g)>> \in Seq(Write)
             /\ Append(InvalidateSuspendSave, Erase(g)) \in Seq(Write)
  <2>1. <<Fill(g, New(g)), Stamp(g)>> \in Seq(Write) /\ Erase(g) \in Write
    BY <1>1, <1>2, <1>5, <1>6
  <2> QED
    BY <1>7, <2>1, ConcatProperties, AppendProperties
<1>9. ASSUME NEW g \in Game
      PROVE  /\ <<Erase(g)>> \in Seq(Write)
             /\ <<Fill(Other(last), New(g)), Stamp(Other(last)), Swap>> \in Seq(Write)
             /\ <<Patch(last, clock + 1), Restamp(last),
                  Patch(g, clock + 2), Restamp(g)>> \in Seq(Write)
  BY <1>1, <1>2, <1>3, <1>4, <1>5, <1>6
<1>10. \A g, h \in Game : <<Fill(h, data[g]), Stamp(h)>> \in Seq(Write)
  BY <1>1, <1>2, <1>6
<1> QED
  BY <1>7, <1>8, <1>9, <1>10

(* A chip that was just initialised is well typed.                          *)
LEMMA TypeInit == Init => TypeOK
<1> SUFFICES ASSUME Init PROVE TypeOK
  OBVIOUS
<1>1. data \in [Block -> Contents]
  BY DEF Init, Contents
<1>2. info \in [Block -> Header]
  BY DEF Init, Header
<1>3. todo \in Seq(Write)
  BY EmptySeq DEF Init
<1> QED
  BY <1>1, <1>2, <1>3 DEF Init, TypeOK, Susp

(* Every operation starts with no write pending and leaves the memory alone. *)
LEMMA TypePerform ==
  ASSUME TypeOK, NEW writes \in Seq(Write), NEW n \in Nat, Perform(writes, n),
         play' \in {Menu} \cup [game : Game, resumed : BOOLEAN]
  PROVE  TypeOK'
BY DEF TypeOK, Perform

(* Each write of an operation keeps the types.                              *)
LEMMA TypeWrite ==
  ASSUME TypeOK, DoFill \/ DoPatch \/ DoStamp \/ DoErase \/ DoSwap
  PROVE  TypeOK'
<1>1. W \in Write /\ todo' \in Seq(Write)
  <2>1. todo # << >> /\ todo' = Tail(todo)
    BY DEF Reached, Done, DoFill, DoPatch, DoStamp, DoErase, DoSwap
  <2> QED
    BY <2>1, HeadTailProperties DEF TypeOK, W
<1>2. CASE DoFill
  BY <1>1, <1>2 DEF TypeOK, DoFill, Reached, Done, Write
<1>3. CASE DoPatch
  <2>1. W.block \in Block /\ W.put \in Nat
    BY <1>1, <1>3 DEF DoPatch, Reached, Write
  <2>2. Patched(data[W.block], W.put) \in Contents
    BY <2>1 DEF TypeOK, Contents, Patched
  <2> QED
    BY <1>1, <1>3, <2>1, <2>2 DEF TypeOK, DoPatch, Done
<1>4. CASE DoStamp
  <2>1. W.block \in Block
    BY <1>1, <1>4 DEF DoStamp, Reached, Write
  <2>2. Stamped(W.block) \in Header
    BY <2>1 DEF TypeOK, Contents, Stamped, Header
  <2> QED
    BY <1>1, <1>4, <2>1, <2>2 DEF TypeOK, DoStamp, Done
<1>5. CASE DoErase
  <2>1. W.block \in Block
    BY <1>1, <1>5 DEF DoErase, Reached, Write
  <2> QED
    BY <1>1, <1>5, <2>1 DEF TypeOK, DoErase, Done, Erased, Header
<1>6. CASE DoSwap
  <2>1. Other(last) \in Susp
    BY DEF TypeOK, Other, Susp
  <2>2. data[Other(last)].stage \in Nat
    BY <2>1 DEF TypeOK, Contents, Block
  <2> QED
    BY <1>1, <1>6, <2>1, <2>2 DEF TypeOK, DoSwap, Done, Swapped
<1> QED
  BY <1>2, <1>3, <1>4, <1>5, <1>6

(* So does a power failure before a write or in it.                         *)
LEMMA TypeCrash ==
  ASSUME TypeOK, CrashBetween \/ CrashInFill \/ CrashInPatch \/ CrashInHeader
  PROVE  TypeOK'
<1>1. /\ crashes' \in Nat /\ clock' \in Nat
      /\ todo' \in Seq(Write)
      /\ play' \in {Menu} \cup [game : Game, resumed : BOOLEAN]
      /\ last' \in Susp
  <2>1. PowerFails /\ (clock' = clock \/ clock' = clock + 1)
    BY DEF CrashBetween, CrashInFill, CrashInPatch, CrashInHeader
  <2> QED
    BY <2>1, EmptySeq DEF TypeOK, PowerFails
<1>2. todo # << >> => W \in Write
  BY HeadTailProperties DEF TypeOK, W
<1>3. CASE CrashBetween
  BY <1>1, <1>3 DEF TypeOK, CrashBetween
<1>4. CASE CrashInFill
  <2>1. W.block \in Block /\ W.put \in Contents
    BY <1>2, <1>4 DEF CrashInFill, Reached, Write
  <2>2. \A g \in {data[W.block].game, W.put.game} :
          [game |-> g, stage |-> W.put.stage, ver |-> clock + 1, whole |-> FALSE] \in Contents
    BY <1>1, <2>1 DEF TypeOK, Contents
  <2> QED
    BY <1>1, <1>4, <2>1, <2>2 DEF TypeOK, CrashInFill
<1>5. CASE CrashInPatch
  <2>1. W.block \in Block /\ W.put \in Nat
    BY <1>2, <1>5 DEF CrashInPatch, Reached, Write
  <2>2. Patched(data[W.block], W.put) \in Contents
    BY <2>1 DEF TypeOK, Contents, Patched
  <2> QED
    BY <1>1, <1>5, <2>1, <2>2 DEF TypeOK, CrashInPatch
<1>6. CASE CrashInHeader
  <2>1. W.block \in Block
    BY <1>2, <1>6 DEF CrashInHeader, Reached, Write
  <2>2. [kind |-> info[W.block].kind \/ W.what = "stamp", sum |-> None] \in Header
    BY <2>1 DEF TypeOK, Header
  <2> QED
    BY <1>1, <1>6, <2>1, <2>2 DEF TypeOK, CrashInHeader
<1> QED
  BY <1>3, <1>4, <1>5, <1>6

(* The operations by name, without the writes they lead to. *)
Operation ==
  \/ \E g \in Game : NewGame(g) \/ LoadGame(g) \/ EraseGame(g) \/ SaveGame(g)
  \/ \E g, h \in Game : Copy(g, h)
  \/ Resume \/ Suspend \/ LoseUnit \/ Quit

(* So does the choice of an operation and of its writes.                    *)
LEMMA TypeOperation == TypeOK /\ Operation => TypeOK'
<1> SUFFICES ASSUME TypeOK, Operation PROVE TypeOK'
  OBVIOUS
<1>1. Playing => play.game \in Game /\ [play EXCEPT !.resumed = FALSE] \in [game : Game, resumed : BOOLEAN]
  BY DEF TypeOK, Playing
<1>2. \A g \in Game : [game |-> g, resumed |-> FALSE] \in [game : Game, resumed : BOOLEAN]
  OBVIOUS
<1>3. ASSUME NEW g \in Game, NewGame(g) \/ LoadGame(g) \/ EraseGame(g) \/ SaveGame(g)
      PROVE  TypeOK'
  <2> USE WritesTyped
  <2>1. CASE NewGame(g)
    BY <1>2, <2>1, TypePerform DEF NewGame
  <2>2. CASE LoadGame(g)
    BY <1>2, <2>2, TypePerform DEF LoadGame
  <2>3. CASE EraseGame(g)
    BY <2>3, TypePerform DEF EraseGame, TypeOK
  <2>4. CASE SaveGame(g)
    BY <1>2, <2>4, TypePerform DEF SaveGame
  <2> QED
    BY <1>3, <2>1, <2>2, <2>3, <2>4
<1>4. ASSUME NEW g \in Game, NEW h \in Game, Copy(g, h) PROVE TypeOK'
  BY <1>4, WritesTyped, TypePerform DEF Copy, TypeOK
<1>5. CASE Suspend
  BY <1>1, <1>5, WritesTyped, TypePerform DEF Suspend
<1>6. CASE LoseUnit
  BY <1>1, <1>6, WritesTyped, TypePerform DEF LoseUnit, TypeOK
<1>7. CASE Resume
  <2>1. Resumable \in Block
    BY <1>7 DEF Resume, Resumable, Other, TypeOK, Susp, Block
  <2>2. data[Resumable].game \in Game
    BY <2>1 DEF TypeOK, Contents
  <2> QED
    BY <1>7, <2>2 DEF Resume, TypeOK
<1>8. CASE Quit
  BY <1>8 DEF Quit, TypeOK
<1> QED
  BY <1>3, <1>4, <1>5, <1>6, <1>7, <1>8 DEF Operation

(* Every state the operations and power failures lead to is well typed. *)
THEOREM TypeCorrect == Spec => []TypeOK
<1>1. TypeOK /\ [Next]_vars => TypeOK'
  <2> SUFFICES ASSUME TypeOK, [Next]_vars PROVE TypeOK'
    OBVIOUS
  <2>1. CASE UNCHANGED vars
    BY <2>1 DEF vars, TypeOK
  <2> QED
    BY <2>1, TypeWrite, TypeCrash, TypeOperation DEF Next, Operation
<1> QED
  BY <1>1, TypeInit, PTL DEF Spec
-----------------------------------------------------------------------------
(* Numbers in use are not larger than clock, so what a failure leaves in a  *)
(* block, whose version is clock + 1, matches no checksum.                  *)
FreshMedia ==
  \A b \in Block : /\ data[b].ver <= clock /\ data[b].stage <= clock
                   /\ info[b].sum <= clock
FreshTodo ==
  \A i \in DOMAIN todo :
    /\ todo[i].what = "data" => todo[i].put.ver <= clock /\ todo[i].put.stage <= clock
    /\ todo[i].what = "patch" => todo[i].put <= clock
Fresh == FreshMedia /\ FreshTodo

(* Without loss records, contents about to be written are whole, and a      *)
(* header is stamped only over contents just written.                       *)
Ordered ==
  \A i \in DOMAIN todo :
    /\ todo[i].what \notin {"patch", "restamp"}
    /\ todo[i].what = "data" => todo[i].put.whole
    /\ todo[i].what = "stamp" =>
         \/ i = 1 /\ data[todo[i].block].whole
         \/ i > 1 /\ todo[i - 1].what = "data" /\ todo[i - 1].block = todo[i].block

WholeInv == TypeOK /\ Fresh /\ Ordered /\ ValidIsWhole

(* How far a suspension has come, and that what it writes is not older than *)
(* what it will replace.                                                    *)
Filling  == \E c \in Contents :
              /\ todo = <<Fill(Other(last), c), Stamp(Other(last)), Swap>>
              /\ c.stage >= data[last].stage
Filled   == /\ todo = <<Stamp(Other(last)), Swap>>
            /\ data[Other(last)].stage >= data[last].stage
Swappable == /\ todo = <<Swap>> /\ Valid(Other(last))
            /\ data[Other(last)].stage >= data[last].stage
InStep == Suspending => Filling \/ Filled \/ Swappable

KeepInv == TypeOK /\ Fresh /\ InStep

(* What is left after a write. *)
LEMMA Shift ==
  ASSUME TypeOK, todo # << >>, todo' = Tail(todo)
  PROVE  /\ W = todo[1] /\ 1 \in DOMAIN todo
         /\ \A i \in DOMAIN todo' :
              i \in Nat \ {0} /\ i + 1 \in DOMAIN todo /\ todo'[i] = todo[i + 1]
<1>1. todo \in Seq(Write)
  BY DEF TypeOK
<1>2. DOMAIN todo = 1 .. Len(todo) /\ Len(todo) \in Nat \ {0}
  BY <1>1, LenProperties, EmptySeq
<1>3. /\ Tail(todo) \in Seq(Write) /\ Len(Tail(todo)) = Len(todo) - 1
      /\ \A i \in 1 .. Len(Tail(todo)) : Tail(todo)[i] = todo[i + 1]
      /\ Head(todo) = todo[1]
  BY <1>1, HeadTailProperties
<1>4. DOMAIN todo' = 1 .. Len(todo) - 1
  BY <1>3, LenProperties
<1> QED
  BY <1>2, <1>3, <1>4 DEF W

(* The writes of a new game and those that erase a game, one by one.        *)
LEMMA Flat ==
  ASSUME TypeOK, NEW g \in Game
  PROVE  /\ InvalidateSuspendSave \o <<Fill(g, New(g)), Stamp(g)>>
              = <<Erase(0), Erase(1), Fill(g, New(g)), Stamp(g)>>
         /\ Append(InvalidateSuspendSave, Erase(g)) = <<Erase(0), Erase(1), Erase(g)>>
<1> DEFINE e == InvalidateSuspendSave
           f == <<Fill(g, New(g)), Stamp(g)>>
           t == <<Erase(0), Erase(1), Fill(g, New(g)), Stamp(g)>>
           u == <<Erase(0), Erase(1), Erase(g)>>
<1>1. /\ e \in Seq(Write) /\ e \o f \in Seq(Write) /\ Append(e, Erase(g)) \in Seq(Write)
      /\ Erase(g) \in Write
  BY WritesTyped DEF Erase, Write, Block
<1>2. Erase(0) \in Write /\ Erase(1) \in Write /\ Fill(g, New(g)) \in Write /\ Stamp(g) \in Write
  BY DEF Erase, Fill, Stamp, New, Contents, Write, Block, Susp, TypeOK
<1>3. Len(e) = 2 /\ e[1] = Erase(0) /\ e[2] = Erase(1)
  BY DEF InvalidateSuspendSave
<1>4. f \in Seq(Write) /\ Len(f) = 2 /\ f[1] = Fill(g, New(g)) /\ f[2] = Stamp(g)
  BY <1>2
<1>5. /\ t \in Seq(Write) /\ Len(t) = 4
      /\ t[1] = Erase(0) /\ t[2] = Erase(1) /\ t[3] = Fill(g, New(g)) /\ t[4] = Stamp(g)
      /\ u \in Seq(Write) /\ Len(u) = 3
      /\ u[1] = Erase(0) /\ u[2] = Erase(1) /\ u[3] = Erase(g)
  BY <1>1, <1>2
<1> HIDE DEF e, f, t, u
<1>6. /\ Len(e \o f) = 4
      /\ \A i \in 1 .. 4 : (e \o f)[i] = IF i <= 2 THEN e[i] ELSE f[i - 2]
  <2>1. /\ Len(e \o f) = Len(e) + Len(f)
        /\ \A i \in 1 .. Len(e) + Len(f) :
             (e \o f)[i] = IF i <= Len(e) THEN e[i] ELSE f[i - Len(e)]
    BY <1>1, <1>4, ConcatProperties, Zenon
  <2> QED
    BY <2>1, <1>3, <1>4
<1>7. \A i \in 1 .. 4 : (e \o f)[i] = t[i]
  BY <1>3, <1>4, <1>5, <1>6
<1>8. e \o f = t
  BY <1>1, <1>5, <1>6, <1>7, SeqEqual
<1>9. /\ Len(Append(e, Erase(g))) = 3
      /\ \A i \in 1 .. 3 : Append(e, Erase(g))[i] = u[i]
  <2>1. /\ Len(Append(e, Erase(g))) = Len(e) + 1
        /\ \A i \in 1 .. Len(e) : Append(e, Erase(g))[i] = e[i]
        /\ Append(e, Erase(g))[Len(e) + 1] = Erase(g)
    <3>1. \A x \in Write : /\ Len(Append(e, x)) = Len(e) + 1
                          /\ \A i \in 1 .. Len(e) : Append(e, x)[i] = e[i]
                          /\ Append(e, x)[Len(e) + 1] = x
      BY <1>1, AppendProperties
    <3> QED
      BY <1>1, <3>1
  <2> QED
    BY <2>1, <1>3, <1>5
<1>10. Append(e, Erase(g)) = u
  BY <1>1, <1>5, <1>9, SeqEqual
<1> QED
  BY <1>8, <1>10 DEF e, f, t, u

(* No contents are newer than the clock at the start.                       *)
LEMMA FreshInit == Init => Fresh
BY DEF Init, Fresh, FreshMedia, FreshTodo, None

(* A write brings no contents newer than the clock.                         *)
LEMMA FreshWrite ==
  ASSUME TypeOK, Fresh, DoFill \/ DoPatch \/ DoStamp \/ DoErase \/ DoSwap
  PROVE  Fresh'
<1>1. todo # << >> /\ todo' = Tail(todo) /\ clock' = clock /\ clock \in Nat
  BY DEF TypeOK, Reached, Done, DoFill, DoPatch, DoStamp, DoErase, DoSwap
<1>2. FreshTodo'
  BY <1>1, Shift DEF Fresh, FreshTodo
<1>3. W \in Write
  BY <1>1, HeadTailProperties DEF TypeOK, W
<1>4. CASE DoFill
  <2>1. W.put.ver <= clock /\ W.put.stage <= clock /\ W.block \in Block
    BY <1>1, <1>3, <1>4, Shift DEF Fresh, FreshTodo, DoFill, Reached, Write
  <2> QED
    BY <1>1, <1>2, <1>4, <2>1 DEF Fresh, FreshMedia, DoFill, TypeOK
<1>5. CASE DoPatch
  <2>1. W.put <= clock /\ W.block \in Block
    BY <1>1, <1>3, <1>5, Shift DEF Fresh, FreshTodo, DoPatch, Reached, Write
  <2> QED
    BY <1>1, <1>2, <1>5, <2>1 DEF Fresh, FreshMedia, DoPatch, TypeOK, Patched
<1>6. CASE DoStamp
  BY <1>1, <1>2, <1>3, <1>6 DEF Fresh, FreshMedia, DoStamp, TypeOK, Stamped, Reached, Write
<1>7. CASE DoErase
  BY <1>1, <1>2, <1>3, <1>7 DEF Fresh, FreshMedia, DoErase, TypeOK, Erased, Reached, Write, None
<1>8. CASE DoSwap
  BY <1>1, <1>2, <1>8 DEF Fresh, FreshMedia, DoSwap
<1> QED
  BY <1>4, <1>5, <1>6, <1>7, <1>8

(* What a power failure tears is not newer than the clock.                  *)
LEMMA FreshCrash ==
  ASSUME TypeOK, Fresh, CrashBetween \/ CrashInFill \/ CrashInPatch \/ CrashInHeader
  PROVE  Fresh'
<1>1. todo' = << >> /\ clock \in Nat
  BY DEF TypeOK, PowerFails, CrashBetween, CrashInFill, CrashInPatch, CrashInHeader
<1>2. FreshTodo'
  BY <1>1 DEF FreshTodo
<1>3. todo # << >> => W \in Write /\ W = todo[1] /\ 1 \in DOMAIN todo
  BY HeadTailProperties, LenProperties, EmptySeq DEF TypeOK, W
<1>4. CASE CrashBetween
  BY <1>2, <1>4 DEF Fresh, FreshMedia, CrashBetween
<1>5. CASE CrashInFill
  <2>1. W.put.stage <= clock /\ W.block \in Block /\ W.put \in Contents
    BY <1>3, <1>5 DEF Fresh, FreshTodo, CrashInFill, Reached, Write
  <2>2. /\ info' = info /\ clock' = clock + 1
        /\ \A b \in Block :
             \/ data'[b] = data[b]
             \/ data'[b].stage = W.put.stage /\ data'[b].ver = clock + 1
    BY <1>5, <2>1 DEF CrashInFill, TypeOK
  <2>3. \A b \in Block : /\ data[b].ver \in Int /\ data[b].stage \in Int
                         /\ info[b].sum \in Int
    BY DEF TypeOK, Contents, Header, None
  <2> QED
    BY <1>1, <1>2, <2>1, <2>2, <2>3 DEF Fresh, FreshMedia, Contents
<1>6. CASE CrashInPatch
  <2>1. W.put <= clock /\ W.block \in Block
    BY <1>3, <1>6 DEF Fresh, FreshTodo, CrashInPatch, Reached, Write
  <2> QED
    BY <1>2, <1>6, <2>1 DEF Fresh, FreshMedia, CrashInPatch, TypeOK, Patched
<1>7. CASE CrashInHeader
  BY <1>1, <1>2, <1>3, <1>7 DEF Fresh, FreshMedia, CrashInHeader, TypeOK, Reached, Write, None
<1> QED
  BY <1>4, <1>5, <1>6, <1>7

(* An operation takes its contents from the clock or from the chip.         *)
LEMMA FreshOperation == TypeOK /\ Fresh /\ Operation => Fresh'
<1> SUFFICES ASSUME TypeOK, Fresh, Operation PROVE Fresh'
  OBVIOUS
<1>1. clock \in Nat /\ \A b \in Block : data[b].ver \in Nat /\ data[b].stage \in Nat /\ info[b].sum \in Int
  BY DEF TypeOK, Contents, Header, None
<1>2. ASSUME NEW n \in Nat, clock' = clock + n, data' = data, info' = info
      PROVE  FreshMedia'
  BY <1>1, <1>2 DEF Fresh, FreshMedia
<1>3. ASSUME NEW g \in Game, NewGame(g) \/ SaveGame(g) PROVE Fresh'
  <2>1. todo' = <<Erase(0), Erase(1), Fill(g, New(g)), Stamp(g)>> /\ clock' = clock + 1
    BY <1>3, Flat DEF NewGame, SaveGame, Perform
  <2>2. FreshTodo'
    BY <1>1, <2>1 DEF FreshTodo, Erase, Fill, New, Stamp
  <2> QED
    BY <1>2, <1>3, <2>1, <2>2 DEF NewGame, SaveGame, Perform, Fresh
<1>4. ASSUME NEW g \in Game, LoadGame(g) \/ EraseGame(g) PROVE Fresh'
  <2>1. todo' \in {<<Erase(0), Erase(1)>>, <<Erase(g)>>, <<Erase(0), Erase(1), Erase(g)>>}
    BY <1>4, Flat DEF LoadGame, EraseGame, Perform, InvalidateSuspendSave
  <2>2. FreshTodo'
    BY <2>1 DEF FreshTodo, Erase
  <2>3. clock' = clock + 0
    BY <1>4 DEF LoadGame, EraseGame, Perform
  <2> QED
    BY <1>2, <1>4, <2>2, <2>3 DEF LoadGame, EraseGame, Perform, Fresh
<1>5. ASSUME NEW g \in Game, NEW h \in Game, Copy(g, h) PROVE Fresh'
  <2>1. todo' = <<Fill(h, data[g]), Stamp(h)>> /\ clock' = clock + 0
    BY <1>5 DEF Copy, Perform
  <2>2. FreshTodo'
    BY <1>1, <2>1 DEF Fresh, FreshMedia, FreshTodo, Fill, Stamp, Block
  <2> QED
    BY <1>2, <1>5, <2>1, <2>2 DEF Copy, Perform, Fresh
<1>6. CASE Suspend
  <2>1. /\ todo' = <<Fill(Other(last), New(play.game)), Stamp(Other(last)), Swap>>
        /\ clock' = clock + 1
    BY <1>6 DEF Suspend, Perform
  <2>2. FreshTodo'
    BY <1>1, <2>1 DEF FreshTodo, Fill, New, Stamp, Swap
  <2> QED
    BY <1>2, <1>6, <2>1, <2>2 DEF Suspend, Perform, Fresh
<1>7. CASE LoseUnit
  <2>1. /\ todo' = <<Patch(last, clock + 1), Restamp(last),
                     Patch(play.game, clock + 2), Restamp(play.game)>>
        /\ clock' = clock + 2
    BY <1>7 DEF LoseUnit, Perform
  <2>2. FreshTodo'
    BY <1>1, <2>1 DEF FreshTodo, Patch, Restamp
  <2> QED
    BY <1>2, <1>7, <2>1, <2>2 DEF LoseUnit, Perform, Fresh
<1>8. CASE Resume \/ Quit
  BY <1>8 DEF Resume, Quit, Fresh, FreshMedia, FreshTodo
<1> QED
  BY <1>3, <1>4, <1>5, <1>6, <1>7, <1>8 DEF Operation
-----------------------------------------------------------------------------
(* Valid blocks are whole. *)

(* A write leaves only complete contents under a header that fits them.     *)
LEMMA WholeWrite ==
  ASSUME WholeInv, DoFill \/ DoPatch \/ DoStamp \/ DoErase \/ DoSwap
  PROVE  Ordered' /\ ValidIsWhole'
<1> USE DEF WholeInv
<1>1. todo # << >> /\ todo' = Tail(todo)
  BY DEF Reached, Done, DoFill, DoPatch, DoStamp, DoErase, DoSwap
<1>2. /\ W = todo[1] /\ 1 \in DOMAIN todo
      /\ \A i \in DOMAIN todo' :
           i \in Nat \ {0} /\ i + 1 \in DOMAIN todo /\ todo'[i] = todo[i + 1]
  BY <1>1, Shift
<1>3. W \in Write /\ W.what \notin {"patch", "restamp"}
  BY <1>1, <1>2, HeadTailProperties DEF TypeOK, W, Ordered
<1>4. CASE DoFill
  <2>1. /\ W.block \in Block /\ W.put.whole /\ W.what = "data"
        /\ data' = [data EXCEPT ![W.block] = W.put] /\ info' = info
    BY <1>2, <1>3, <1>4 DEF DoFill, Reached, Write, Ordered
  <2>2. \A b \in Block : data'[b] = (IF b = W.block THEN W.put ELSE data[b])
    BY <2>1 DEF TypeOK
  <2>3. ValidIsWhole'
    BY <2>1, <2>2 DEF ValidIsWhole, Valid
  <2>4. ASSUME NEW i \in DOMAIN todo', todo'[i].what = "stamp"
        PROVE  \/ i = 1 /\ data'[todo'[i].block].whole
               \/ i > 1 /\ todo'[i - 1].what = "data" /\ todo'[i - 1].block = todo'[i].block
    <3>1. /\ i + 1 > 1 /\ todo[i].what = "data" /\ todo[i].block = todo[i + 1].block
      BY <1>2, <2>4 DEF Ordered
    <3>2. CASE i = 1
      <4>1. todo'[i].block = W.block
        BY <1>2, <3>1, <3>2
      <4> QED
        BY <2>1, <2>2, <3>2, <4>1
    <3>3. CASE i > 1
      <4>1. i - 1 \in DOMAIN todo'
        BY <1>1, <3>3, LenProperties, HeadTailProperties DEF TypeOK
      <4> QED
        BY <1>2, <3>1, <3>3, <4>1
    <3> QED
      BY <1>2, <3>2, <3>3
  <2> QED
    BY <1>2, <2>3, <2>4 DEF Ordered
<1>5. ASSUME DoStamp \/ DoErase \/ DoSwap PROVE Ordered'
  <2>1. data' = data /\ W.what \in {"stamp", "erase", "swap"}
    BY <1>3, <1>5 DEF DoStamp, DoErase, DoSwap, Reached
  <2>2. ASSUME NEW i \in DOMAIN todo', todo'[i].what = "stamp"
        PROVE  i > 1 /\ todo'[i - 1].what = "data" /\ todo'[i - 1].block = todo'[i].block
    <3>1. i # 1 /\ todo[i].what = "data" /\ todo[i].block = todo[i + 1].block
      BY <1>2, <2>1, <2>2 DEF Ordered
    <3>2. i - 1 \in DOMAIN todo'
      BY <1>1, <1>2, <3>1, LenProperties, HeadTailProperties DEF TypeOK
    <3> QED
      BY <1>2, <3>1, <3>2
  <2> QED
    BY <1>2, <2>2 DEF Ordered
<1>6. CASE DoStamp
  <2>1. W.block \in Block /\ W.what = "stamp" /\ data[W.block].whole
    BY <1>2, <1>3, <1>6 DEF DoStamp, Reached, Write, Ordered
  <2> QED
    BY <1>5, <1>6, <2>1 DEF DoStamp, ValidIsWhole, Valid, TypeOK
<1>7. CASE DoErase
  BY <1>3, <1>5, <1>7 DEF DoErase, Reached, ValidIsWhole, Valid, TypeOK, Erased, Write
<1>8. CASE DoSwap
  BY <1>5, <1>8 DEF DoSwap, ValidIsWhole, Valid
<1>9. ~DoPatch
  BY <1>3 DEF DoPatch, Reached
<1> QED
  BY <1>4, <1>5, <1>6, <1>7, <1>8, <1>9

(* What a power failure tears fits no header.                               *)
LEMMA WholeCrash ==
  ASSUME WholeInv, CrashBetween \/ CrashInFill \/ CrashInPatch \/ CrashInHeader
  PROVE  Ordered' /\ ValidIsWhole'
<1> USE DEF WholeInv
<1>1. Ordered'
  BY DEF Ordered, PowerFails, CrashBetween, CrashInFill, CrashInPatch, CrashInHeader
<1>2. todo # << >> => W \in Write /\ W = todo[1] /\ 1 \in DOMAIN todo
  BY HeadTailProperties, LenProperties, EmptySeq DEF TypeOK, W
<1>3. CASE CrashBetween
  BY <1>1, <1>3 DEF CrashBetween, ValidIsWhole, Valid
<1>4. CASE CrashInFill
  <2>1. W.block \in Block /\ info' = info
    BY <1>2, <1>4 DEF CrashInFill, Reached, Write
  <2>2. \A b \in Block \ {W.block} : data'[b] = data[b]
    BY <1>4, <2>1 DEF CrashInFill, TypeOK
  <2>3. data'[W.block].ver = clock + 1
    BY <1>4, <2>1 DEF CrashInFill, TypeOK
  <2>4. info[W.block].sum # clock + 1
    BY <2>1 DEF Fresh, FreshMedia, TypeOK, Header, None
  <2> QED
    BY <1>1, <2>1, <2>2, <2>3, <2>4 DEF ValidIsWhole, Valid
<1>5. ~CrashInPatch
  BY <1>2 DEF CrashInPatch, Reached, Ordered
<1>6. CASE CrashInHeader
  <2>1. W.block \in Block /\ data' = data
    BY <1>2, <1>6 DEF CrashInHeader, Reached, Write
  <2>2. \A b \in Block \ {W.block} : info'[b] = info[b]
    BY <1>6, <2>1 DEF CrashInHeader, TypeOK
  <2>3. info'[W.block].sum = None
    BY <1>6, <2>1 DEF CrashInHeader, TypeOK
  <2>4. data[W.block].ver # None
    BY <2>1 DEF TypeOK, Contents, None
  <2> QED
    BY <1>1, <2>1, <2>2, <2>3, <2>4 DEF ValidIsWhole, Valid
<1> QED
  BY <1>3, <1>4, <1>5, <1>6

(* An operation plans its header after the contents.                        *)
LEMMA WholeOperation ==
  ASSUME ~LossRecords, WholeInv, Operation
  PROVE  Ordered' /\ ValidIsWhole'
<1> USE DEF WholeInv
<1>1. data' = data /\ info' = info
  BY DEF Operation, Perform, NewGame, LoadGame, EraseGame, SaveGame, Copy, Resume,
         Suspend, LoseUnit, Quit
<1>2. ValidIsWhole'
  BY <1>1 DEF ValidIsWhole, Valid
<1>3. ASSUME NEW g \in Game, NewGame(g) \/ SaveGame(g) PROVE Ordered'
  <2>1. todo' = <<Erase(0), Erase(1), Fill(g, New(g)), Stamp(g)>>
    BY <1>3, Flat DEF NewGame, SaveGame, Perform
  <2> QED
    BY <2>1 DEF Ordered, Erase, Fill, New, Stamp
<1>4. ASSUME NEW g \in Game, LoadGame(g) \/ EraseGame(g) PROVE Ordered'
  <2>1. todo' \in {<<Erase(0), Erase(1)>>, <<Erase(g)>>, <<Erase(0), Erase(1), Erase(g)>>}
    BY <1>4, Flat DEF LoadGame, EraseGame, Perform, InvalidateSuspendSave
  <2> QED
    BY <2>1 DEF Ordered, Erase
<1>5. ASSUME NEW g \in Game, NEW h \in Game, Copy(g, h) PROVE Ordered'
  <2>1. todo' = <<Fill(h, data[g]), Stamp(h)>> /\ data[g].whole
    BY <1>5 DEF Copy, Perform, ValidIsWhole, Block
  <2> QED
    BY <2>1 DEF Ordered, Fill, Stamp
<1>6. ASSUME Suspend PROVE Ordered'
  <2>1. todo' = <<Fill(Other(last), New(play.game)), Stamp(Other(last)), Swap>>
    BY <1>6 DEF Suspend, Perform
  <2> QED
    BY <2>1 DEF Ordered, Fill, New, Stamp, Swap
<1>7. ASSUME Resume \/ Quit PROVE Ordered'
  BY <1>7 DEF Resume, Quit, Ordered
<1>8. ~LoseUnit
  BY DEF LoseUnit
<1> QED
  BY <1>2, <1>3, <1>4, <1>5, <1>6, <1>7, <1>8 DEF Operation

(* Without loss records a block that passes its checksum was completely     *)
(* written, whenever and as often as the power fails.                       *)
THEOREM WholeBlocks ==
  ASSUME ~LossRecords
  PROVE  Spec => []ValidIsWhole
<1>1. Init => WholeInv
  <2> SUFFICES ASSUME Init PROVE Ordered /\ ValidIsWhole
    BY TypeInit, FreshInit DEF WholeInv
  <2>1. todo = << >> /\ \A b \in Block : ~info[b].kind
    BY DEF Init
  <2> QED
    BY <2>1 DEF Ordered, ValidIsWhole, Valid
<1>2. WholeInv /\ [Next]_vars => WholeInv'
  <2> SUFFICES ASSUME WholeInv, [Next]_vars PROVE WholeInv'
    OBVIOUS
  <2>1. CASE UNCHANGED vars
    BY <2>1 DEF vars, WholeInv, TypeOK, Fresh, FreshMedia, FreshTodo, Ordered, ValidIsWhole, Valid
  <2>2. CASE DoFill \/ DoPatch \/ DoStamp \/ DoErase \/ DoSwap
    BY <2>2, TypeWrite, FreshWrite, WholeWrite DEF WholeInv
  <2>3. CASE CrashBetween \/ CrashInFill \/ CrashInPatch \/ CrashInHeader
    BY <2>3, TypeCrash, FreshCrash, WholeCrash DEF WholeInv
  <2>4. CASE Operation
    BY <2>4, TypeOperation, FreshOperation, WholeOperation DEF WholeInv
  <2> QED
    BY <2>1, <2>2, <2>3, <2>4 DEF Next, Operation
<1>3. WholeInv => ValidIsWhole
  BY DEF WholeInv
<1> QED
  BY <1>1, <1>2, <1>3, PTL DEF Spec
-----------------------------------------------------------------------------
(* A suspension in progress keeps the chapter suspended before. *)

(* The two suspended chapters are blocks, each the other one of the other.  *)
LEMMA Others == ASSUME TypeOK
  PROVE  /\ last \in Block /\ Other(last) \in Block /\ Other(last) \in Susp
         /\ Other(last) # last /\ Other(Other(last)) = last
         /\ data[last].stage \in Nat /\ data[Other(last)].stage \in Nat
BY DEF TypeOK, Other, Susp, Block, Contents

(* What the next write of a suspension does. *)
LEMMA KeepFill ==
  ASSUME KeepInv, NEW c \in Contents, DoFill,
         todo = <<Fill(Other(last), c), Stamp(Other(last)), Swap>>,
         c.stage >= data[last].stage
  PROVE  Filled' /\ last' = last /\ data'[last] = data[last] /\ info' = info
<1> USE DEF KeepInv
<1>1. W = Fill(Other(last), c)
  BY DEF W
<1>2. data' = [data EXCEPT ![Other(last)] = c] /\ last' = last /\ info' = info
  BY <1>1 DEF DoFill, Fill
<1>3. todo' = <<Stamp(Other(last)), Swap>>
  BY DEF DoFill, Done
<1>4. data'[Other(last)] = c /\ data'[last] = data[last]
  BY <1>2, Others DEF TypeOK
<1> QED
  BY <1>2, <1>3, <1>4 DEF Filled, Other, Stamp

(* The header that completes a suspension makes the new chapter count.      *)
LEMMA KeepStamp ==
  ASSUME KeepInv, DoStamp, Filled
  PROVE  Swappable' /\ last' = last /\ data' = data /\ info'[last] = info[last]
<1> USE DEF KeepInv
<1>1. W = Stamp(Other(last)) /\ todo' = <<Swap>>
  BY DEF Filled, W, DoStamp, Done
<1>2. info' = [info EXCEPT ![Other(last)] = Stamped(Other(last))] /\ last' = last /\ data' = data
  BY <1>1 DEF DoStamp, Stamp
<1>3. info'[Other(last)] = Stamped(Other(last)) /\ info'[last] = info[last]
  BY <1>2, Others DEF TypeOK
<1>4. Valid(Other(last))'
  BY <1>2, <1>3 DEF Valid, Stamped, Other
<1> QED
  BY <1>1, <1>2, <1>3, <1>4 DEF Swappable, Filled, Other

(* So does the byte that tells which suspended chapter is the newer.        *)
LEMMA KeepSwap ==
  ASSUME KeepInv, DoSwap, Swappable
  PROVE  ~Suspending' /\ last' = Other(last) /\ Valid(last)' /\ data' = data
<1>1. todo' = << >>
  BY DEF DoSwap, Done, Swappable
<1>2. last' = Other(last) /\ data' = data /\ info' = info
  BY DEF DoSwap, Swapped
<1>3. Valid(last)'
  BY <1>2 DEF Swappable, Valid
<1> QED
  BY <1>1, <1>2, <1>3 DEF Suspending

(* Only the write the suspension has reached can be the next one. *)
LEMMA KeepWhich ==
  /\ Filling => ~DoPatch /\ ~DoStamp /\ ~DoErase /\ ~DoSwap
  /\ Filled => ~DoFill /\ ~DoPatch /\ ~DoErase /\ ~DoSwap
  /\ Swappable => ~DoFill /\ ~DoPatch /\ ~DoErase /\ ~DoStamp
BY DEF Filling, Filled, Swappable, W, Reached, Fill, Stamp, Swap, DoFill, DoPatch,
       DoStamp, DoErase, DoSwap

(* A power failure in a suspension leaves the old chapter.                  *)
LEMMA KeepCrash ==
  ASSUME KeepInv, Suspending,
         CrashBetween \/ CrashInFill \/ CrashInPatch \/ CrashInHeader
  PROVE  data'[last] = data[last] /\ info'[last] = info[last] /\ last' = last
<1> USE DEF KeepInv
<1>1. last' = last
  BY DEF PowerFails, CrashBetween, CrashInFill, CrashInPatch, CrashInHeader
<1>2. W = Swap \/ (W.block = Other(last) /\ W.what \in {"data", "stamp"})
  BY DEF InStep, Filling, Filled, Swappable, W, Fill, Stamp
<1>3. CASE CrashBetween
  BY <1>1, <1>3 DEF CrashBetween
<1>4. CASE CrashInFill
  <2>1. W.block = Other(last)
    BY <1>2, <1>4 DEF CrashInFill, Reached, Swap
  <2> QED
    BY <1>1, <1>4, <2>1, Others DEF CrashInFill, TypeOK
<1>5. CASE CrashInHeader
  <2>1. W.block = Other(last)
    BY <1>2, <1>5 DEF CrashInHeader, Reached, Swap
  <2> QED
    BY <1>1, <1>5, <2>1, Others DEF CrashInHeader, TypeOK
<1>6. ~CrashInPatch
  BY <1>2 DEF CrashInPatch, Reached, Swap
<1> QED
  BY <1>3, <1>4, <1>5, <1>6

Keeps == Suspending /\ Valid(last) =>
           Resumable' # None /\ data'[Resumable'].stage >= data[last].stage

(* If what last names stays valid, or becomes something newer that is, the  *)
(* chapter is kept.                                                         *)
LEMMA Kept ==
  ASSUME TypeOK, TypeOK', Valid(last) => Valid(last)', data'[last'].stage >= data[last].stage
  PROVE  Keeps
BY DEF Keeps, Resumable, TypeOK, Susp, None

(* No write of a suspension touches the chapter Resume would find.          *)
LEMMA KeepWrite ==
  ASSUME KeepInv, TypeOK', DoFill \/ DoPatch \/ DoStamp \/ DoErase \/ DoSwap
  PROVE  InStep' /\ Keeps
<1>1. TypeOK /\ data[last].stage \in Nat
  BY Others DEF KeepInv
<1>2. CASE ~Suspending
  <2>1. todo # << >> /\ todo' = Tail(todo)
    BY DEF Reached, Done, DoFill, DoPatch, DoStamp, DoErase, DoSwap
  <2>2. ~Suspending'
    BY <1>1, <1>2, <2>1, Shift DEF Suspending
  <2> QED
    BY <1>2, <2>2 DEF InStep, Keeps
<1>3. CASE Suspending /\ Filling
  <2>1. DoFill
    BY <1>3, KeepWhich
  <2>2. Filled' /\ last' = last /\ data'[last] = data[last] /\ info' = info
    BY <1>3, <2>1, KeepFill DEF Filling
  <2> QED
    BY <1>1, <2>2, Kept DEF InStep, Valid
<1>4. CASE Suspending /\ Filled
  <2>1. DoStamp
    BY <1>4, KeepWhich
  <2>2. Swappable' /\ last' = last /\ data' = data /\ info'[last] = info[last]
    BY <1>4, <2>1, KeepStamp
  <2> QED
    BY <1>1, <2>2, Kept DEF InStep, Valid
<1>5. CASE Suspending /\ Swappable
  <2>1. DoSwap
    BY <1>5, KeepWhich
  <2>2. ~Suspending' /\ last' = Other(last) /\ Valid(last)' /\ data' = data
    BY <1>5, <2>1, KeepSwap
  <2> QED
    BY <1>1, <1>5, <2>2, Kept DEF InStep, Swappable
<1> QED
  BY <1>2, <1>3, <1>4, <1>5 DEF KeepInv, InStep

(* Choosing an operation changes no block yet.                              *)
LEMMA KeepOperation ==
  ASSUME KeepInv, Operation
  PROVE  InStep' /\ Keeps
<1> USE DEF KeepInv
<1>1. todo = << >>
  BY DEF Operation, Perform, NewGame, LoadGame, EraseGame, SaveGame, Copy, Resume,
         Suspend, LoseUnit, Quit
<1>2. Keeps
  BY <1>1 DEF Keeps, Suspending
<1>3. ASSUME NEW g \in Game, NewGame(g) \/ SaveGame(g) \/ LoadGame(g) \/ EraseGame(g)
      PROVE  InStep'
  <2>1. \/ todo' = <<Erase(0), Erase(1), Fill(g, New(g)), Stamp(g)>>
        \/ todo' \in {<<Erase(0), Erase(1)>>, <<Erase(g)>>, <<Erase(0), Erase(1), Erase(g)>>}
    BY <1>3, Flat DEF NewGame, SaveGame, LoadGame, EraseGame, Perform, InvalidateSuspendSave
  <2>2. ~Suspending'
    BY <2>1 DEF Suspending, Erase, Fill, Stamp
  <2> QED
    BY <2>2 DEF InStep
<1>4. ASSUME NEW g \in Game, NEW h \in Game, Copy(g, h) PROVE InStep'
  <2>1. todo' = <<Fill(h, data[g]), Stamp(h)>>
    BY <1>4 DEF Copy, Perform
  <2> QED
    BY <2>1 DEF InStep, Suspending, Fill, Stamp
<1>5. ASSUME Suspend PROVE InStep'
  <2> DEFINE c == New(play.game)
  <2>1. /\ todo' = <<Fill(Other(last), c), Stamp(Other(last)), Swap>>
        /\ data' = data /\ last' = last
    BY <1>5 DEF Suspend, Perform
  <2>2. c \in Contents
    BY <1>5 DEF New, Contents, TypeOK, Suspend, Playing
  <2>3. c.stage >= data[last].stage
    BY Others DEF Fresh, FreshMedia, New, TypeOK
  <2> HIDE DEF c
  <2>4. Filling'
    BY <2>1, <2>2, <2>3 DEF Filling, Other
  <2> QED
    BY <2>4 DEF InStep
<1>6. ASSUME LoseUnit PROVE InStep'
  <2>1. todo' = <<Patch(last, clock + 1), Restamp(last),
                  Patch(play.game, clock + 2), Restamp(play.game)>>
    BY <1>6 DEF LoseUnit, Perform
  <2> QED
    BY <2>1 DEF InStep, Suspending, Patch, Restamp
<1>7. ASSUME Resume \/ Quit PROVE InStep'
  <2>1. todo' = << >>
    BY <1>1, <1>7 DEF Resume, Quit
  <2> QED
    BY <2>1 DEF InStep, Suspending
<1> QED
  BY <1>2, <1>3, <1>4, <1>5, <1>6, <1>7 DEF Operation

(* A power failure during a suspension never costs the player the chapter   *)
(* that Resume would have restored, if last_suspend_slot names it.          *)
THEOREM SuspendIsSafe == Spec => SuspendKeepsOld
<1>1. Init => KeepInv
  <2> SUFFICES ASSUME Init PROVE InStep
    BY TypeInit, FreshInit DEF KeepInv
  <2> QED
    BY DEF Init, InStep, Suspending
<1>2. KeepInv /\ [Next]_vars => KeepInv' /\ [Keeps]_vars
  <2> SUFFICES ASSUME KeepInv, [Next]_vars PROVE KeepInv' /\ [Keeps]_vars
    OBVIOUS
  <2>1. CASE UNCHANGED vars
    BY <2>1 DEF vars, KeepInv, TypeOK, Fresh, FreshMedia, FreshTodo, InStep, Suspending,
                Filling, Filled, Swappable, Valid, Other
  <2>2. CASE DoFill \/ DoPatch \/ DoStamp \/ DoErase \/ DoSwap
    BY <2>2, TypeWrite, FreshWrite, KeepWrite DEF KeepInv
  <2>3. CASE CrashBetween \/ CrashInFill \/ CrashInPatch \/ CrashInHeader
    <3>1. TypeOK' /\ Fresh' /\ data[last].stage \in Nat
      BY <2>3, TypeCrash, FreshCrash, Others DEF KeepInv
    <3>2. todo' = << >>
      BY <2>3 DEF PowerFails, CrashBetween, CrashInFill, CrashInPatch, CrashInHeader
    <3>3. InStep'
      BY <3>2 DEF InStep, Suspending
    <3>4. Suspending => Keeps
      BY <2>3, <3>1, KeepCrash, Kept DEF KeepInv, Valid
    <3> QED
      BY <3>1, <3>3, <3>4 DEF KeepInv, Keeps
  <2>4. CASE Operation
    BY <2>4, TypeOperation, FreshOperation, KeepOperation DEF KeepInv
  <2> QED
    BY <2>1, <2>2, <2>3, <2>4 DEF Next, Operation
<1> QED
  BY <1>1, <1>2, PTL DEF Spec, SuspendKeepsOld, Keeps
-----------------------------------------------------------------------------
(* Suspended chapters belong to one game. *)

(* No erasure of a suspended chapter is to come, and the game's slot is in  *)
(* use: what is valid is of the game being played.                          *)
Has(w)    == \E i \in DOMAIN todo : todo[i] = w
Leaves(s) == Valid(s) /\ ~Has(Erase(s))
Mine(c)   == c.game = play.game
Settled   == Playing /\ info[play.game].kind /\ \A s \in Susp : ~Has(Erase(s))

(* A suspended chapter is only written, stamped or patched for the game     *)
(* being played, and a game is only erased after its suspended chapters.    *)
FillStep(i) ==
  todo[i].what = "data" /\ todo[i].block \in Susp =>
    Settled /\ todo[i].block = Other(last) /\ Mine(todo[i].put)
StampStep(i) ==
  todo[i].what = "stamp" /\ todo[i].block \in Susp =>
    /\ Settled /\ todo[i].block = Other(last)
    /\ \/ i = 1 /\ Mine(data[Other(last)])
       \/ i > 1 /\ todo[i - 1].what = "data" /\ todo[i - 1].block = Other(last)
SwapStep(i) ==
  todo[i].what = "swap" =>
    /\ i = Len(todo)
    /\ \/ i = 1 /\ Mine(data[Other(last)])
       \/ i > 1 /\ todo[i - 1] = Stamp(Other(last))
PatchStep(i) ==
  todo[i].what \in {"patch", "restamp"} /\ todo[i].block \in Susp =>
    Settled /\ ~play.resumed /\ todo[i].block = last /\ ~Has(Swap)
EraseStep(i) ==
  todo[i].what = "erase" /\ todo[i].block \in Game =>
    /\ play = Menu /\ i = Len(todo)
    /\ \A s \in Susp : Leaves(s) => data[s].game # todo[i].block
Planned == \A i \in DOMAIN todo :
  FillStep(i) /\ StampStep(i) /\ SwapStep(i) /\ PatchStep(i) /\ EraseStep(i)

(* The chapters suspended are of the game being played, whose slot is in    *)
(* use, or are on their way out; a loss is recorded in one of them only.    *)
Owned ==
  Playing =>
    /\ info[play.game].kind \/ Has(Stamp(play.game))
    /\ \A s \in Susp : Leaves(s) => Mine(data[s])
    /\ play.resumed \/ Has(Swap) \/ Has(Erase(last)) \/ ~info[last].kind \/ Mine(data[last])

BelongInv == TypeOK /\ Fresh /\ SuspendsBelong /\ Planned /\ Owned

(* What is still to come after a write. *)
LEMMA Rest ==
  ASSUME TypeOK, todo # << >>, todo' = Tail(todo)
  PROVE  /\ W \in Write
         /\ \A w : Has(w)' => Has(w)
         /\ \A w : Has(w) /\ w # W => Has(w)'
<1>1. W \in Write
  BY HeadTailProperties DEF TypeOK, W
<1>2. \A w : Has(w)' => Has(w)
  BY Shift DEF Has
<1>3. ASSUME NEW w, Has(w), w # W PROVE Has(w)'
  <2>1. PICK i \in DOMAIN todo : todo[i] = w
    BY <1>3 DEF Has
  <2>2. /\ DOMAIN todo = 1 .. Len(todo) /\ Len(todo) \in Nat \ {0}
        /\ DOMAIN todo' = 1 .. Len(todo) - 1
    BY HeadTailProperties, LenProperties, EmptySeq DEF TypeOK
  <2>3. i # 1
    BY <1>3, <2>1, Shift
  <2>4. i - 1 \in DOMAIN todo' /\ todo'[i - 1] = todo[i]
    BY <2>1, <2>2, <2>3, Shift
  <2> QED
    BY <2>1, <2>4 DEF Has
<1> QED
  BY <1>1, <1>2, <1>3

(* A write that keeps the game in use, and what is suspended its own, leaves *)
(* the rest of the operation as planned.                                    *)
LEMMA PlannedTail ==
  ASSUME TypeOK, Planned, todo # << >>, todo' = Tail(todo), play' = play, last' = last,
         Settled => Settled',
         W.what = "stamp" => data' = data,
         W.what = "data" /\ W.block = Other(last) => data'[Other(last)] = W.put,
         \A s \in Susp : Leaves(s)' => Playing \/ (Leaves(s) /\ data'[s].game = data[s].game)
  PROVE  Planned'
<1> SUFFICES ASSUME NEW i \in DOMAIN todo'
             PROVE  (FillStep(i) /\ StampStep(i) /\ SwapStep(i) /\ PatchStep(i) /\ EraseStep(i))'
  BY DEF Planned
<1>1. /\ i \in Nat \ {0} /\ i + 1 \in DOMAIN todo /\ todo'[i] = todo[i + 1]
      /\ i > 1 => i - 1 \in DOMAIN todo' /\ todo'[i - 1] = todo[i]
      /\ Len(todo') = Len(todo) - 1 /\ Len(todo) \in Nat
  <2>1. /\ DOMAIN todo' = 1 .. Len(todo) - 1 /\ Len(todo') = Len(todo) - 1 /\ Len(todo) \in Nat
    BY HeadTailProperties, LenProperties, EmptySeq DEF TypeOK
  <2>2. i \in Nat \ {0} /\ i + 1 \in DOMAIN todo /\ todo'[i] = todo[i + 1]
    BY Shift
  <2>3. i > 1 => i - 1 \in DOMAIN todo' /\ todo'[i - 1] = todo[i - 1 + 1]
    BY <2>1, <2>2, Shift
  <2> QED
    BY <2>1, <2>2, <2>3
<1>2. /\ FillStep(i + 1) /\ StampStep(i + 1) /\ SwapStep(i + 1) /\ PatchStep(i + 1)
      /\ EraseStep(i + 1)
  BY <1>1 DEF Planned
<1>3. W = todo[1] /\ 1 \in DOMAIN todo /\ i + 1 > 1 /\ i + 1 - 1 = i /\ W \in Write
  BY <1>1, Shift, Rest
<1>4. FillStep(1) /\ StampStep(1)
  BY <1>3 DEF Planned
<1>5. Other(last)' = Other(last) /\ Playing' = Playing /\ \A c : Mine(c)' = Mine(c)
  BY DEF Other, Playing, Mine
<1>6. FillStep(i)'
  BY <1>1, <1>2, <1>5 DEF FillStep, Mine
<1>7. StampStep(i)'
  <2> SUFFICES ASSUME todo'[i].what = "stamp", todo'[i].block \in Susp
               PROVE  StampStep(i)'
    BY DEF StampStep
  <2>1. /\ Settled /\ todo[i + 1].block = Other(last)
        /\ todo[i].what = "data" /\ todo[i].block = Other(last)
    BY <1>1, <1>2, <1>3 DEF StampStep
  <2>2. CASE i = 1
    <3>1. data'[Other(last)] = W.put /\ Mine(W.put)
      BY <1>3, <1>4, <2>1, <2>2 DEF FillStep, Other, Susp, TypeOK
    <3> QED
      BY <1>1, <1>5, <2>1, <2>2, <3>1 DEF StampStep, Mine
  <2>3. CASE i > 1
    BY <1>1, <1>5, <2>1, <2>3 DEF StampStep
  <2> QED
    BY <1>1, <2>2, <2>3
<1>8. SwapStep(i)'
  <2> SUFFICES ASSUME todo'[i].what = "swap" PROVE SwapStep(i)'
    BY DEF SwapStep
  <2>1. i + 1 = Len(todo) /\ todo[i] = Stamp(Other(last))
    BY <1>1, <1>2, <1>3 DEF SwapStep
  <2>2. CASE i = 1
    <3>1. W.what = "stamp" /\ W.block = Other(last) /\ W.block \in Susp
      BY <1>3, <2>1, <2>2 DEF Stamp, Other, Susp, TypeOK
    <3>2. data' = data /\ Mine(data[Other(last)])
      BY <1>3, <1>4, <3>1 DEF StampStep
    <3>3. data'[1 - last'].game = play'.game /\ i = Len(todo')
      BY <1>1, <2>1, <3>2 DEF Mine, Other
    <3> QED
      BY <2>2, <3>3 DEF SwapStep, Mine, Other
  <2>3. CASE i > 1
    <3>1. todo'[i - 1] = Stamp(Other(last)') /\ i = Len(todo')
      BY <1>1, <1>5, <2>1, <2>3
    <3> QED
      BY <2>3, <3>1 DEF SwapStep
  <2> QED
    BY <1>1, <2>2, <2>3
<1>9. PatchStep(i)'
  <2>1. Has(Swap)' => Has(Swap)
    BY Rest DEF Swap, Has
  <2> QED
    BY <1>1, <1>2, <2>1 DEF PatchStep
<1>10. EraseStep(i)'
  BY <1>1, <1>2 DEF EraseStep, Playing
<1> QED
  BY <1>6, <1>7, <1>8, <1>9, <1>10

(* Each write keeps what is suspended of the game being played: the writes  *)
(* of bmsave.c to a suspended chapter come after its game was chosen.       *)
LEMMA BelongWrite ==
  ASSUME BelongInv, DoFill \/ DoPatch \/ DoStamp \/ DoErase \/ DoSwap
  PROVE  SuspendsBelong' /\ Planned' /\ Owned'
<1> USE DEF BelongInv
<1>1. /\ todo # << >> /\ todo' = Tail(todo) /\ play' = play
      /\ Playing' = Playing /\ \A c : Mine(c)' = Mine(c)
  BY DEF Reached, Done, DoFill, DoPatch, DoStamp, DoErase, DoSwap, Playing, Mine
<1>2. W \in Write /\ W = todo[1] /\ 1 \in DOMAIN todo
  BY <1>1, Rest, Shift
<1>3. FillStep(1) /\ StampStep(1) /\ SwapStep(1) /\ PatchStep(1) /\ EraseStep(1)
  BY <1>2 DEF Planned
<1>4. /\ \A w : Has(w)' => Has(w)
      /\ \A w : Has(w) /\ w # W => Has(w)'
  BY <1>1, Rest
<1>5. Game \cap Susp = {} /\ Susp \subseteq Block /\ Game \subseteq Block
  BY SaveAssumption DEF Susp, Block
<1>6. last \in Susp /\ Other(last) \in Susp /\ Other(last) # last
  BY DEF TypeOK, Susp, Other
<1>7. \A b \in Block : data[b].game \in Game /\ data[b].ver # None
  BY DEF TypeOK, Contents, None
<1>8. play # Menu => play.game \in Game
  BY DEF TypeOK
<1>9. CASE DoFill
  <2> DEFINE b == W.block
  <2>1. W.what = "data" /\ b \in Block /\ info' = info /\ last' = last
        /\ data' = [data EXCEPT ![b] = W.put]
    BY <1>2, <1>9 DEF DoFill, Reached, Write
  <2>2. /\ data'[b] = W.put /\ \A s \in Block \ {b} : data'[s] = data[s]
    BY <2>1 DEF TypeOK
  <2>3. /\ \A s : Has(Erase(s))' <=> Has(Erase(s))
        /\ Has(Swap)' <=> Has(Swap)
        /\ \A s : Has(Stamp(s))' <=> Has(Stamp(s))
    BY <1>4, <2>1 DEF Erase, Swap, Stamp
  <2>4. b \in Susp => Settled /\ b = Other(last) /\ Mine(W.put)
    BY <1>2, <1>3, <2>1 DEF FillStep
  <2>5. \A s \in Susp : s # b => (Leaves(s)' <=> Leaves(s)) /\ data'[s] = data[s]
    BY <1>5, <2>1, <2>2, <2>3 DEF Leaves, Valid
  <2>6. Settled' <=> Settled
    BY <1>1, <2>1, <2>3 DEF Settled, Erase, Has
  <2>7. Planned'
    <3>1. \A s \in Susp : Leaves(s)' => Playing \/ (Leaves(s) /\ data'[s].game = data[s].game)
      BY <2>4, <2>5 DEF Settled
    <3> QED
      BY <1>1, <2>1, <2>2, <2>6, <3>1, PlannedTail
  <2>8. Owned'
    <3>1. \A s \in Susp : Leaves(s)' /\ Playing => Mine(data'[s])
      BY <2>2, <2>4, <2>5 DEF Owned
    <3>2. data'[last] = data[last]
      BY <1>5, <1>6, <2>2, <2>4
    <3>3. /\ Has(Erase(last))' <=> Has(Erase(last))
          /\ Has(Stamp(play.game))' <=> Has(Stamp(play.game))
      BY <1>1, <1>4, <2>1 DEF Erase, Stamp
    <3>4. /\ info[play.game].kind \/ Has(Stamp(play.game))
          /\ play.resumed \/ Has(Swap) \/ Has(Erase(last)) \/ ~info[last].kind \/ Mine(data[last])
          => /\ (info[play.game].kind \/ Has(Stamp(play.game)))'
             /\ (play.resumed \/ Has(Swap) \/ Has(Erase(last)) \/ ~info[last].kind
                  \/ Mine(data[last]))'
      BY <1>1, <2>1, <2>3, <3>2, <3>3 DEF Mine
    <3>5. \A s \in Susp : Leaves(s)' /\ Playing => Mine(data[s])'
      BY <1>1, <3>1 DEF Mine
    <3> QED
      BY <1>1, <3>4, <3>5 DEF Owned
  <2>9. SuspendsBelong'
    <3>1. CASE b \in Susp
      BY <2>4, <2>6, <2>8, <3>1 DEF Settled, Owned, SuspendsBelong, Leaves, Mine, Susp, Other
    <3>2. CASE b \notin Susp
      <4>1. \A s \in Susp : data'[s] = data[s] /\ (Valid(s)' <=> Valid(s))
        BY <1>5, <2>1, <2>2, <3>2 DEF Valid
      <4> QED
        BY <2>1, <4>1 DEF SuspendsBelong, Other, Susp
    <3> QED
      BY <3>1, <3>2
  <2> QED
    BY <2>7, <2>8, <2>9
<1>10. CASE DoPatch
  <2> DEFINE b == W.block
  <2>1. W.what = "patch" /\ b \in Block /\ info' = info /\ last' = last
        /\ data' = [data EXCEPT ![b] = Patched(data[b], W.put)]
    BY <1>2, <1>10 DEF DoPatch, Reached, Write
  <2>2. \A s \in Block : data'[s].game = data[s].game /\ (s # b => data'[s] = data[s])
    BY <2>1 DEF TypeOK, Patched
  <2>3. /\ \A s : Has(Erase(s))' <=> Has(Erase(s))
        /\ Has(Swap)' <=> Has(Swap)
        /\ \A s : Has(Stamp(s))' <=> Has(Stamp(s))
    BY <1>4, <2>1 DEF Erase, Swap, Stamp
  <2>4. b \in Susp => Settled /\ ~play.resumed /\ b = last /\ ~Has(Swap)
    BY <1>2, <1>3, <2>1 DEF PatchStep
  <2>5. b \in Susp /\ info[b].kind => Mine(data[b])
    BY <1>6, <2>4 DEF Settled, Owned
  <2>6. Settled' <=> Settled
    BY <1>1, <2>1, <2>3 DEF Settled, Erase, Has
  <2>7. \A s \in Susp : s # b => (Valid(s)' <=> Valid(s))
    BY <1>5, <2>1, <2>2 DEF Valid
  <2>8. Planned'
    <3>1. \A s \in Susp : Leaves(s)' => Playing \/ (Leaves(s) /\ data'[s].game = data[s].game)
      BY <1>5, <2>2, <2>3, <2>4, <2>7 DEF Settled, Leaves
    <3> QED
      BY <1>1, <2>1, <2>6, <3>1, PlannedTail
  <2>9. Owned'
    <3>1. \A s \in Susp : Leaves(s)' /\ Playing => Mine(data'[s])
      BY <1>5, <2>1, <2>2, <2>3, <2>5, <2>7 DEF Owned, Leaves, Valid, Mine
    <3>2. /\ Has(Erase(last))' <=> Has(Erase(last))
          /\ Has(Stamp(play.game))' <=> Has(Stamp(play.game))
          /\ data'[last].game = data[last].game
      BY <1>1, <1>4, <1>5, <1>6, <2>1, <2>2 DEF Erase, Stamp
    <3>4. /\ info[play.game].kind \/ Has(Stamp(play.game))
          /\ play.resumed \/ Has(Swap) \/ Has(Erase(last)) \/ ~info[last].kind \/ Mine(data[last])
          => /\ (info[play.game].kind \/ Has(Stamp(play.game)))'
             /\ (play.resumed \/ Has(Swap) \/ Has(Erase(last)) \/ ~info[last].kind
                  \/ Mine(data[last]))'
      BY <1>1, <2>1, <2>3, <3>2 DEF Mine
    <3>5. \A s \in Susp : Leaves(s)' /\ Playing => Mine(data[s])'
      BY <1>1, <3>1 DEF Mine
    <3> QED
      BY <1>1, <3>4, <3>5 DEF Owned
  <2>10. SuspendsBelong'
    <3>1. CASE b \in Susp
      BY <2>4, <2>6, <2>9, <3>1 DEF Settled, Owned, SuspendsBelong, Leaves, Mine, Susp, Other
    <3>2. CASE b \notin Susp
      <4>1. \A s \in Susp : data'[s] = data[s] /\ (Valid(s)' <=> Valid(s))
        BY <1>5, <2>2, <2>7, <3>2
      <4> QED
        BY <2>1, <4>1 DEF SuspendsBelong, Other, Susp
    <3> QED
      BY <3>1, <3>2
  <2> QED
    BY <2>8, <2>9, <2>10
<1>11. CASE DoStamp
  <2> DEFINE b == W.block
  <2>1. W.what \in {"stamp", "restamp"} /\ b \in Block /\ data' = data /\ last' = last
        /\ info' = [info EXCEPT ![b] = Stamped(b)] /\ (W.what = "restamp" => info[b].kind)
    BY <1>2, <1>11 DEF DoStamp, Reached, Write
  <2>2. info'[b].kind /\ \A s \in Block \ {b} : info'[s] = info[s]
    BY <2>1 DEF TypeOK, Stamped
  <2>3. /\ \A s : Has(Erase(s))' <=> Has(Erase(s))
        /\ Has(Swap)' <=> Has(Swap)
        /\ \A s : s # b => (Has(Stamp(s)) => Has(Stamp(s))')
    BY <1>4, <2>1 DEF Erase, Swap, Stamp
  <2>4. b \in Susp => Settled /\ (info[b].kind \/ b # last => Mine(data[b]))
    <3>1. CASE W.what = "stamp"
      BY <1>2, <1>3, <1>6, <2>1, <3>1 DEF StampStep
    <3>2. CASE W.what = "restamp"
      BY <1>2, <1>3, <1>6, <2>1, <3>2 DEF PatchStep, Owned, Settled
    <3> QED
      BY <2>1, <3>1, <3>2
  <2>5. b \in Susp => Mine(data[b])
    BY <1>2, <1>3, <1>6, <2>1, <2>4 DEF StampStep
  <2>6. Settled => Settled'
    BY <1>1, <1>5, <1>8, <2>1, <2>2, <2>3 DEF Settled, Erase, Has, Playing
  <2>7. \A s \in Susp : s # b => (Valid(s)' <=> Valid(s))
    BY <1>5, <2>1, <2>2 DEF Valid
  <2>8. Planned'
    <3>1. \A s \in Susp : Leaves(s)' => Playing \/ (Leaves(s) /\ data'[s].game = data[s].game)
      BY <1>5, <2>1, <2>3, <2>4, <2>7 DEF Settled, Leaves
    <3> QED
      BY <1>1, <2>1, <2>6, <3>1, PlannedTail
  <2>9. Owned'
    <3>1. \A s \in Susp : Leaves(s)' /\ Playing => Mine(data'[s])
      BY <1>5, <2>1, <2>3, <2>5, <2>7 DEF Owned, Leaves
    <3>2. /\ Has(Erase(last))' <=> Has(Erase(last))
      BY <1>1, <1>4, <2>1 DEF Erase
    <3>3. Playing => (info[play.game].kind \/ Has(Stamp(play.game)))'
      <4>1. CASE b = play.game
        BY <1>1, <2>2, <4>1
      <4>2. CASE b # play.game
        <5>1. Has(Stamp(play.game)) => Has(Stamp(play.game))'
          BY <1>1, <1>4, <2>1, <4>2 DEF Stamp
        <5> QED
          BY <1>1, <1>5, <1>8, <2>2, <4>2, <5>1 DEF Owned, Playing
      <4> QED
        BY <4>1, <4>2
    <3>4. Playing => (play.resumed \/ Has(Swap) \/ Has(Erase(last)) \/ ~info[last].kind
                      \/ Mine(data[last]))'
      <4>1. CASE b = last
        BY <1>1, <1>6, <2>1, <2>5, <4>1 DEF Mine
      <4>2. CASE b # last
        BY <1>1, <1>5, <1>6, <2>1, <2>2, <2>3, <3>2, <4>2 DEF Owned, Mine
      <4> QED
        BY <4>1, <4>2
    <3>5. \A s \in Susp : Leaves(s)' /\ Playing => Mine(data[s])'
      BY <1>1, <3>1 DEF Mine
    <3> QED
      BY <1>1, <3>3, <3>4, <3>5 DEF Owned
  <2>10. SuspendsBelong'
    <3>1. CASE b \in Susp
      BY <2>4, <2>6, <2>9, <3>1 DEF Settled, Owned, SuspendsBelong, Leaves, Mine, Susp, Other
    <3>2. CASE b \notin Susp
      <4>1. \A s \in Susp : Valid(s)' <=> Valid(s)
        BY <2>7, <3>2
      <4>2. \A g \in Game : info[g].kind => info'[g].kind
        BY <1>5, <2>2
      <4> QED
        BY <1>5, <1>7, <2>1, <4>1, <4>2 DEF SuspendsBelong, Other, Susp
    <3> QED
      BY <3>1, <3>2
  <2> QED
    BY <2>8, <2>9, <2>10
<1>12. CASE DoErase
  <2> DEFINE b == W.block
  <2>1. W.what \in {"erase", "restamp"} /\ b \in Block /\ data' = data /\ last' = last
        /\ info' = [info EXCEPT ![b] = Erased] /\ (W.what = "restamp" => ~info[b].kind)
    BY <1>2, <1>12 DEF DoErase, Reached, Write
  <2>2. ~info'[b].kind /\ \A s \in Block \ {b} : info'[s] = info[s]
    BY <2>1 DEF TypeOK, Erased
  <2>3. /\ \A s : s # b => (Has(Erase(s))' <=> Has(Erase(s)))
        /\ Has(Swap)' <=> Has(Swap)
        /\ \A s : Has(Stamp(s))' <=> Has(Stamp(s))
    BY <1>4, <2>1 DEF Erase, Swap, Stamp
  <2>4. b \in Game /\ info[b].kind =>
          play = Menu /\ \A s \in Susp : Valid(s) => data[s].game # b
    <3> SUFFICES ASSUME b \in Game, info[b].kind
                 PROVE  play = Menu /\ \A s \in Susp : Valid(s) => data[s].game # b
      OBVIOUS
    <3>1. /\ play = Menu /\ Len(todo) = 1
          /\ \A s \in Susp : Leaves(s) => data[s].game # b
      BY <1>2, <1>3, <2>1 DEF EraseStep
    <3>2. \A s \in Susp : ~Has(Erase(s))
      <4>1. DOMAIN todo = {1}
        BY <3>1, LenProperties DEF TypeOK
      <4> QED
        BY <1>2, <1>5, <4>1 DEF Has, Erase
    <3> QED
      BY <3>1, <3>2 DEF Leaves
  <2>5. \A s \in Susp : Valid(s)' => Valid(s) /\ s # b
    BY <1>5, <2>1, <2>2 DEF Valid
  <2>6. Settled => Settled'
    <3> SUFFICES ASSUME Settled PROVE Settled'
      OBVIOUS
    <3>1. play.game \in Game /\ b # play.game
      BY <1>8, <2>4 DEF Settled, Playing
    <3>2. info'[play.game] = info[play.game]
      BY <1>5, <2>2, <3>1
    <3>3. \A s \in Susp : ~Has(Erase(s))'
      BY <1>4 DEF Settled
    <3> QED
      BY <1>1, <3>2, <3>3 DEF Settled, Erase
  <2>7. \A s \in Susp : Leaves(s)' => Leaves(s)
    BY <2>3, <2>5 DEF Leaves, Erase
  <2>8. Planned'
    BY <1>1, <2>1, <2>6, <2>7, PlannedTail
  <2>9. Owned'
    <3>3. Playing => (info[play.game].kind \/ Has(Stamp(play.game)))'
      <4> SUFFICES ASSUME Playing PROVE (info[play.game].kind \/ Has(Stamp(play.game)))'
        OBVIOUS
      <4>1. Has(Stamp(play.game)) => Has(Stamp(play.game))'
        BY <1>1, <1>4, <2>1 DEF Stamp
      <4>2. info[play.game].kind => info'[play.game].kind
        BY <1>5, <1>8, <2>2, <2>4 DEF Playing
      <4> QED
        BY <1>1, <4>1, <4>2 DEF Owned
    <3>4. Playing => (play.resumed \/ Has(Swap) \/ Has(Erase(last)) \/ ~info[last].kind
                      \/ Mine(data[last]))'
      <4>1. CASE b = last
        BY <2>1, <2>2, <4>1
      <4>2. CASE b # last
        <5>1. Has(Erase(last)) => Has(Erase(last))'
          BY <1>4, <2>1, <4>2 DEF Erase
        <5> QED
          BY <1>1, <1>5, <1>6, <2>1, <2>2, <2>3, <4>2, <5>1 DEF Owned, Mine
      <4> QED
        BY <4>1, <4>2
    <3>5. \A s \in Susp : Leaves(s)' /\ Playing => Mine(data[s])'
      BY <1>1, <2>1, <2>7 DEF Owned, Mine
    <3> QED
      BY <1>1, <3>3, <3>4, <3>5 DEF Owned
  <2>10. SuspendsBelong'
    <3>1. \A s \in Susp : Valid(s)' /\ info[data[s].game].kind => info'[data[s].game].kind
      BY <1>5, <1>7, <2>2, <2>4, <2>5
    <3> QED
      BY <2>1, <2>5, <3>1 DEF SuspendsBelong, Other, Susp
  <2> QED
    BY <2>8, <2>9, <2>10
<1>13. CASE DoSwap
  <2>1. W.what = "swap" /\ data' = data /\ info' = info /\ last' = Other(last)
    BY <1>13 DEF DoSwap, Reached, Swapped
  <2>2. Len(todo) = 1 /\ Mine(data[Other(last)])
    BY <1>2, <1>3, <2>1 DEF SwapStep
  <2>3. todo' = << >>
    BY <1>1, <2>2, EmptySeq, HeadTailProperties DEF TypeOK
  <2>4. DOMAIN todo = {1} /\ \A s : ~Has(Erase(s)) /\ ~Has(Stamp(s))
    <3>1. DOMAIN todo = {1}
      BY <2>2, LenProperties DEF TypeOK
    <3> QED
      BY <1>2, <2>1, <3>1 DEF Has, Erase, Stamp
  <2>5. Planned'
    BY <2>3 DEF Planned
  <2>6. \A s : Valid(s)' <=> Valid(s)
    BY <2>1 DEF Valid
  <2>7. Owned'
    BY <1>1, <2>1, <2>2, <2>4, <2>6 DEF Owned, Leaves, Mine
  <2>8. SuspendsBelong'
    BY <2>1, <2>6 DEF SuspendsBelong, Other, Susp
  <2> QED
    BY <2>5, <2>7, <2>8
<1> QED
  BY <1>9, <1>10, <1>11, <1>12, <1>13

(* So does a power failure: what it cuts short has no checksum any more, or  *)
(* was of the same game before.                                             *)
LEMMA BelongCrash ==
  ASSUME BelongInv, CrashBetween \/ CrashInFill \/ CrashInPatch \/ CrashInHeader
  PROVE  SuspendsBelong' /\ Planned' /\ Owned'
<1> USE DEF BelongInv
<1>1. todo' = << >> /\ play' = Menu /\ last' = last
  BY DEF PowerFails, CrashBetween, CrashInFill, CrashInPatch, CrashInHeader
<1>2. Planned' /\ Owned'
  BY <1>1 DEF Planned, Owned, Playing
<1>3. todo # << >> => W \in Write /\ W = todo[1] /\ 1 \in DOMAIN todo
  BY HeadTailProperties, LenProperties, EmptySeq DEF TypeOK, W
<1>4. Game \cap Susp = {} /\ Susp \subseteq Block /\ Game \subseteq Block
  BY SaveAssumption DEF Susp, Block
<1>5. \A b \in Block : /\ data[b].game \in Game /\ data[b].ver \in Nat /\ info[b].sum <= clock
                       /\ info[b].sum \in Int
  BY DEF TypeOK, Contents, Fresh, FreshMedia, Header, None
<1>6. CASE CrashBetween
  BY <1>1, <1>2, <1>6 DEF CrashBetween, SuspendsBelong, Valid, Other
<1>7. CASE CrashInFill
  <2> DEFINE b == W.block
  <2>1. b \in Block /\ info' = info /\ clock \in Nat
    BY <1>3, <1>7 DEF CrashInFill, Reached, Write, TypeOK
  <2>2. /\ data'[b].ver = clock + 1
        /\ \A s \in Block \ {b} : data'[s] = data[s]
    BY <1>7, <2>1 DEF CrashInFill, TypeOK
  <2>3. info'[b].sum # data'[b].ver
    <3>1. info'[b].sum <= clock /\ info'[b].sum \in Int /\ clock + 1 > clock
      BY <1>5, <2>1
    <3> QED
      BY <2>1, <2>2, <3>1
  <2>4. \A s \in Susp : Valid(s)' => Valid(s) /\ data'[s] = data[s]
    <3> SUFFICES ASSUME NEW s \in Susp, Valid(s)' PROVE Valid(s) /\ data'[s] = data[s]
      OBVIOUS
    <3>1. s # b
      BY <2>3 DEF Valid
    <3>2. data'[s] = data[s]
      BY <1>4, <2>2, <3>1
    <3> QED
      BY <2>1, <3>2 DEF Valid
  <2> QED
    BY <1>1, <1>2, <2>1, <2>4 DEF SuspendsBelong, Other, Susp
<1>8. CASE CrashInPatch
  <2> DEFINE b == W.block
  <2>1. W.what = "patch" /\ b \in Block /\ info' = info
        /\ data' = [data EXCEPT ![b] = Patched(data[b], W.put)]
    BY <1>3, <1>8 DEF CrashInPatch, Reached, Write
  <2>2. \A s \in Block : data'[s].game = data[s].game /\ (s # b => data'[s] = data[s])
    BY <2>1 DEF TypeOK, Patched
  <2>3. \A s \in Susp : s # b => (Valid(s)' <=> Valid(s))
    BY <1>4, <2>1, <2>2 DEF Valid
  <2>4. CASE b \in Susp
    <3>1. Settled /\ ~play.resumed /\ b = last /\ ~Has(Swap)
      BY <1>3, <1>8, <2>1, <2>4 DEF CrashInPatch, Reached, Planned, PatchStep
    <3>2. info[b].kind => Mine(data[b])
      BY <2>4, <3>1 DEF Settled, Owned
    <3>3. \A s \in Susp : Valid(s)' => Mine(data'[s])
      BY <1>4, <2>1, <2>2, <2>3, <3>1, <3>2 DEF Owned, Settled, Leaves, Valid, Mine
    <3> QED
      BY <1>2, <2>1, <3>1, <3>3 DEF Settled, SuspendsBelong, Mine, Other, Susp
  <2>5. CASE b \notin Susp
    BY <1>1, <1>2, <1>4, <2>1, <2>2, <2>3, <2>5 DEF SuspendsBelong, Other, Susp
  <2> QED
    BY <2>4, <2>5
<1>9. CASE CrashInHeader
  <2> DEFINE b == W.block
  <2>1. b \in Block /\ data' = data
        /\ info' = [info EXCEPT ![b] = [kind |-> info[b].kind \/ W.what = "stamp", sum |-> None]]
    BY <1>3, <1>9 DEF CrashInHeader, Reached, Write
  <2>2. /\ info'[b].sum = None
        /\ \A s \in Block : (info[s].kind => info'[s].kind) /\ (s # b => info'[s] = info[s])
    BY <2>1 DEF TypeOK
  <2>3. \A s \in Susp : Valid(s)' => Valid(s)
    BY <1>4, <1>5, <2>1, <2>2 DEF Valid, None
  <2> QED
    BY <1>1, <1>2, <1>4, <1>5, <2>1, <2>2, <2>3 DEF SuspendsBelong, Other, Susp
<1> QED
  BY <1>2, <1>6, <1>7, <1>8, <1>9

(* So does the start of an operation, which plans its writes.               *)
LEMMA BelongOperation ==
  ASSUME BelongInv, Operation
  PROVE  SuspendsBelong' /\ Planned' /\ Owned'
<1> USE DEF BelongInv
<1>1. /\ data' = data /\ info' = info /\ last' = last
      /\ todo = << >> /\ \A w : ~Has(w)
  <2>1. data' = data /\ info' = info /\ last' = last /\ todo = << >>
    BY DEF Operation, Perform, NewGame, LoadGame, EraseGame, SaveGame, Copy, Resume,
           Suspend, LoseUnit, Quit
  <2> QED
    BY <2>1 DEF Has
<1>2. /\ SuspendsBelong'
      /\ \A s : Valid(s)' <=> Valid(s)
      /\ \A s \in Susp : Leaves(s) <=> Valid(s)
      /\ Other(last)' = Other(last)
  BY <1>1 DEF SuspendsBelong, Valid, Leaves, Other
<1>3. Game \cap Susp = {} /\ last \in Susp /\ Other(last) \in Susp /\ Susp = {0, 1}
      /\ Other(last) # last
  BY SaveAssumption DEF Susp, TypeOK, Other
<1>4. Playing =>
        /\ play.game \in Game /\ info[play.game].kind
        /\ \A s \in Susp : Valid(s) => Mine(data[s])
        /\ play.resumed \/ ~info[last].kind \/ Mine(data[last])
  BY <1>1, <1>2 DEF Owned, TypeOK, Playing
<1>5. ASSUME NEW g \in Game, NewGame(g) \/ SaveGame(g) PROVE Planned' /\ Owned'
  <2>1. todo' = <<Erase(0), Erase(1), Fill(g, New(g)), Stamp(g)>>
        /\ play' = [game |-> g, resumed |-> FALSE]
    BY <1>5, Flat DEF NewGame, SaveGame, Perform
  <2>2. Planned'
    BY <1>3, <2>1 DEF Planned, FillStep, StampStep, SwapStep, PatchStep, EraseStep,
                      Erase, Fill, Stamp
  <2>3. todo'[1] = Erase(0) /\ todo'[2] = Erase(1) /\ todo'[4] = Stamp(g) /\ DOMAIN todo' = 1 .. 4
    BY <2>1
  <2>4. Has(Erase(0))' /\ Has(Erase(1))' /\ Has(Stamp(g))'
    BY <2>3 DEF Has, Erase, Stamp
  <2>5. \A s \in Susp : Has(Erase(s))'
    BY <1>3, <2>4
  <2>6. Has(Erase(last))' /\ Has(Stamp(play.game))'
    BY <1>1, <1>3, <2>1, <2>4 DEF Erase, Stamp
  <2> QED
    BY <2>2, <2>5, <2>6 DEF Owned, Leaves
<1>6. ASSUME NEW g \in Game, LoadGame(g) PROVE Planned' /\ Owned'
  <2>1. todo' = <<Erase(0), Erase(1)>> /\ info[g].kind
        /\ play' = [game |-> g, resumed |-> FALSE]
    BY <1>6 DEF LoadGame, Perform, InvalidateSuspendSave, Valid
  <2>2. Planned'
    BY <1>3, <2>1 DEF Planned, FillStep, StampStep, SwapStep, PatchStep, EraseStep, Erase
  <2>3. todo'[1] = Erase(0) /\ todo'[2] = Erase(1) /\ DOMAIN todo' = 1 .. 2
    BY <2>1
  <2>4. Has(Erase(0))' /\ Has(Erase(1))'
    BY <2>3 DEF Has, Erase
  <2>5. \A s \in Susp : Has(Erase(s))'
    BY <1>3, <2>4
  <2>6. Has(Erase(last))' /\ (info[play.game].kind)'
    BY <1>1, <1>3, <2>1, <2>4 DEF Erase
  <2> QED
    BY <2>2, <2>5, <2>6 DEF Owned, Leaves
<1>7. ASSUME NEW g \in Game, EraseGame(g) PROVE Planned' /\ Owned'
  <2>1. play' = Menu
    BY <1>7 DEF EraseGame, AtMenu
  <2>2. Owned'
    BY <2>1 DEF Owned, Playing
  <2>3. \/ todo' = <<Erase(0), Erase(1), Erase(g)>>
        \/ todo' = <<Erase(g)>> /\ ~(Resumable # None /\ data[Resumable].game = g)
    BY <1>7, Flat DEF EraseGame, Perform
  <2>4. CASE todo' = <<Erase(0), Erase(1), Erase(g)>>
    <3>1. todo'[1] = Erase(0) /\ todo'[2] = Erase(1) /\ DOMAIN todo' = 1 .. 3
      BY <2>4
    <3>2. Has(Erase(0))' /\ Has(Erase(1))'
      BY <3>1 DEF Has, Erase
    <3>3. \A s \in Susp : ~Leaves(s)'
      BY <1>3, <3>2 DEF Leaves
    <3>4. Planned'
      BY <1>3, <2>1, <2>4, <3>3 DEF Planned, FillStep, StampStep, SwapStep, PatchStep,
                                    EraseStep, Erase
    <3> QED
      BY <2>2, <3>4
  <2>5. CASE todo' = <<Erase(g)>> /\ ~(Resumable # None /\ data[Resumable].game = g)
    <3>1. ASSUME NEW s \in Susp, Valid(s) PROVE data[s].game # g
      BY <1>3, <2>5, <3>1 DEF Resumable, SuspendsBelong, Other, None
    <3>2. \A s \in Susp : Leaves(s)' => data'[s].game # g
      BY <1>1, <1>2, <3>1 DEF Leaves
    <3>3. Planned'
      BY <1>3, <2>1, <2>5, <3>2 DEF Planned, FillStep, StampStep, SwapStep, PatchStep,
                                    EraseStep, Erase
    <3> QED
      BY <2>2, <3>3
  <2> QED
    BY <2>3, <2>4, <2>5
<1>8. ASSUME NEW g \in Game, NEW h \in Game, Copy(g, h) PROVE Planned' /\ Owned'
  <2>1. todo' = <<Fill(h, data[g]), Stamp(h)>> /\ play' = Menu
    BY <1>8 DEF Copy, Perform, AtMenu
  <2>2. Planned'
    BY <1>3, <2>1 DEF Planned, FillStep, StampStep, SwapStep, PatchStep, EraseStep, Fill, Stamp
  <2> QED
    BY <2>1, <2>2 DEF Owned, Playing
<1>9. ASSUME Suspend PROVE Planned' /\ Owned'
  <2> DEFINE c == New(play.game)
             t == <<Fill(Other(last), c), Stamp(Other(last)), Swap>>
  <2>1. todo' = t /\ play' = [play EXCEPT !.resumed = FALSE] /\ Playing
    BY <1>9 DEF Suspend, Perform
  <2>2. c.game = play.game
    BY DEF New
  <2>3. play'.game = play.game /\ play' # Menu /\ play.game \in Game
    <3>1. play \in [game : Game, resumed : BOOLEAN]
      BY <2>1 DEF TypeOK, Playing
    <3>2. None \notin Game
      BY SaveAssumption DEF None
    <3>3. play' \in [game : Game, resumed : BOOLEAN] /\ play'.game = play.game
      BY <2>1, <3>1
    <3> QED
      BY <3>1, <3>2, <3>3 DEF Menu
  <2>4. /\ DOMAIN t = 1 .. 3 /\ t[1] = Fill(Other(last), c) /\ t[2] = Stamp(Other(last))
        /\ t[3] = Swap /\ Len(t) = 3
    OBVIOUS
  <2> HIDE DEF c, t
  <2>5. Has(Swap)' /\ \A s : ~Has(Erase(s))'
    BY <2>1, <2>4 DEF Has, Swap, Erase, Fill, Stamp
  <2>6. Settled'
    BY <1>1, <1>4, <2>1, <2>3, <2>5 DEF Settled, Playing, Erase
  <2>7. Planned'
    <3> SUFFICES ASSUME NEW i \in DOMAIN todo'
                 PROVE  (FillStep(i) /\ StampStep(i) /\ SwapStep(i) /\ PatchStep(i)
                         /\ EraseStep(i))'
      BY DEF Planned
    <3>1. CASE i = 1
      BY <1>2, <2>1, <2>2, <2>3, <2>4, <2>6, <3>1
      DEF FillStep, StampStep, SwapStep, PatchStep, EraseStep, Mine, Fill
    <3>2. CASE i = 2
      BY <1>2, <2>1, <2>4, <2>6, <3>2
      DEF FillStep, StampStep, SwapStep, PatchStep, EraseStep, Fill, Stamp
    <3>3. CASE i = 3
      BY <1>1, <1>2, <2>1, <2>4, <3>3
      DEF FillStep, StampStep, SwapStep, PatchStep, EraseStep, Swap, Stamp
    <3> QED
      BY <2>1, <2>4, <3>1, <3>2, <3>3
  <2>8. Owned'
    BY <1>1, <1>2, <1>4, <2>1, <2>3, <2>5 DEF Owned, Leaves, Mine
  <2> QED
    BY <2>7, <2>8
<1>10. ASSUME LoseUnit PROVE Planned' /\ Owned'
  <2> DEFINE t == <<Patch(last, clock + 1), Restamp(last),
                    Patch(play.game, clock + 2), Restamp(play.game)>>
  <2>1. todo' = t /\ play' = play /\ Playing /\ ~play.resumed
    BY <1>10 DEF LoseUnit, Perform
  <2>2. /\ DOMAIN t = 1 .. 4 /\ t[1] = Patch(last, clock + 1) /\ t[2] = Restamp(last)
        /\ t[3] = Patch(play.game, clock + 2) /\ t[4] = Restamp(play.game)
    OBVIOUS
  <2> HIDE DEF t
  <2>3. ~Has(Swap)' /\ \A s : ~Has(Erase(s))'
    BY <2>1, <2>2 DEF Has, Swap, Erase, Patch, Restamp
  <2>4. Settled'
    BY <1>1, <1>4, <2>1, <2>3 DEF Settled, Playing, Erase
  <2>5. Planned'
    <3> SUFFICES ASSUME NEW i \in DOMAIN todo'
                 PROVE  (FillStep(i) /\ StampStep(i) /\ SwapStep(i) /\ PatchStep(i)
                         /\ EraseStep(i))'
      BY DEF Planned
    <3>1. CASE i \in {1, 2}
      BY <1>1, <2>1, <2>2, <2>3, <2>4, <3>1
      DEF FillStep, StampStep, SwapStep, PatchStep, EraseStep, Patch, Restamp
    <3>2. CASE i \in {3, 4}
      BY <1>3, <1>4, <2>1, <2>2, <3>2
      DEF FillStep, StampStep, SwapStep, PatchStep, EraseStep, Patch, Restamp
    <3> QED
      BY <2>1, <2>2, <3>1, <3>2
  <2>6. Owned'
    BY <1>1, <1>2, <1>4, <2>1 DEF Owned, Leaves, Mine
  <2> QED
    BY <2>5, <2>6
<1>11. ASSUME Resume PROVE Planned' /\ Owned'
  <2>1. /\ todo' = << >> /\ Resumable # None
        /\ play' = [game |-> data[Resumable].game, resumed |-> TRUE]
    BY <1>1, <1>11 DEF Resume
  <2>2. Resumable \in Susp /\ Valid(Resumable)
    BY <1>3, <2>1 DEF Resumable
  <2>3. info[data[Resumable].game].kind /\ \A s \in Susp : Valid(s) => data[s].game = data[Resumable].game
    BY <1>3, <2>2 DEF SuspendsBelong, Other
  <2> HIDE DEF Resumable
  <2>4. Planned'
    BY <2>1 DEF Planned
  <2> QED
    BY <1>1, <1>2, <2>1, <2>3, <2>4 DEF Owned, Leaves, Mine
<1>12. ASSUME Quit PROVE Planned' /\ Owned'
  BY <1>1, <1>12 DEF Quit, Planned, Owned, Playing
<1> QED
  BY <1>2, <1>5, <1>6, <1>7, <1>8, <1>9, <1>10, <1>11, <1>12 DEF Operation

(* Every suspended chapter that can be resumed is of one game, and that      *)
(* game's slot is in use: EraseGame asks only the newer of the two whether  *)
(* it is of the slot, and ReadSuspendSave lets play go on into the slot the *)
(* block names.                                                             *)
THEOREM SuspendsOfOneGame == Spec => []SuspendsBelong
<1>1. Init => BelongInv
  <2> SUFFICES ASSUME Init PROVE SuspendsBelong /\ Planned /\ Owned
    BY TypeInit, FreshInit DEF BelongInv
  <2>1. todo = << >> /\ play = Menu /\ \A b \in Block : ~info[b].kind
    BY DEF Init
  <2> QED
    BY <2>1 DEF SuspendsBelong, Planned, Owned, Valid, Playing, Block
<1>2. BelongInv /\ [Next]_vars => BelongInv'
  <2> SUFFICES ASSUME BelongInv, [Next]_vars PROVE BelongInv'
    OBVIOUS
  <2>1. CASE UNCHANGED vars
    BY <2>1 DEF vars, BelongInv, TypeOK, Fresh, FreshMedia, FreshTodo, SuspendsBelong, Planned,
                FillStep, StampStep, SwapStep, PatchStep, EraseStep, Owned, Valid, Settled,
                Leaves, Mine, Has, Other, Playing
  <2>2. CASE DoFill \/ DoPatch \/ DoStamp \/ DoErase \/ DoSwap
    BY <2>2, TypeWrite, FreshWrite, BelongWrite DEF BelongInv
  <2>3. CASE CrashBetween \/ CrashInFill \/ CrashInPatch \/ CrashInHeader
    BY <2>3, TypeCrash, FreshCrash, BelongCrash DEF BelongInv
  <2>4. CASE Operation
    BY <2>4, TypeOperation, FreshOperation, BelongOperation DEF BelongInv
  <2> QED
    BY <2>1, <2>2, <2>3, <2>4 DEF Next, Operation
<1>3. BelongInv => SuspendsBelong
  BY DEF BelongInv
<1> QED
  BY <1>1, <1>2, <1>3, PTL DEF Spec
=============================================================================
