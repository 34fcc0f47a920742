--------------------------- MODULE ProcCountProofs ---------------------------
(***************************************************************************)
(* The lock counts of ProcSched and the traversal, on top of the invariant *)
(* of ProcSchedProofs.  A count is right at every step because a child     *)
(* that Proc_StartBlocking has not flagged yet does not count, and the     *)
(* frame that will flag it is the only one of its slot (StartsOK).  A proc *)
(* that a traversal owes a visit is alive, and the traversal will come to  *)
(* it or to an ancestor of it (CoverInv): the ancestors of a live proc do  *)
(* not change.                                                             *)
(***************************************************************************)
EXTENDS ProcSchedProofs

(* A frame of Proc_Start or Proc_StartBlocking has a slot of its own, whose *)
(* proc, if it still lives, is not flagged.                                 *)
StartsOK ==
  \A i \in DOMAIN stack : stack[i].fn = "start" =>
    /\ Live(stack[i].p) => ~procs[stack[i].p].blocking
    /\ \A j \in DOMAIN stack : stack[j].fn = "start" /\ stack[j].p = stack[i].p => j = i

LockInv == LocksCountBlockers /\ StartsOK

(* The traversal is at z, or on the list of siblings z is on, and has not   *)
(* passed q if that is z.                                                   *)
Coming(q, z) ==
  \/ \E i \in DOMAIN stack :
       /\ stack[i].fn = "run" /\ stack[i].p = z
       /\ z = q => stack[i].at \in {"prev", "self"}
  \/ Doing("run", "prev") /\ z \in Reach(Back, {Top.p})

CoverInv ==
  \A q \in owed : Live(q) /\ \E z \in Reach(Par, {q}) : Coming(q, z)
-----------------------------------------------------------------------------
(* The shape of the call stack after a step. *)

(* But for Proc_Start, a function returns, moves on, or calls one.          *)
Moves ==
  \E s, n : /\ From(s, n) /\ Len(stack) <= n + 1
            /\ stack' = s \/ \E f \in Frame : f.fn # "start" /\ stack' = Append(s, f)

(* A step that returns is a move.                                           *)
LEMMA MoveStay ==
  ASSUME TypeOK, NEW s, NEW n, From(s, n), Len(stack) <= n + 1, stack' = s
  PROVE  Moves
BY DEF Moves

(* A step that calls is a move.                                             *)
LEMMA MovePush ==
  ASSUME TypeOK, NEW s, NEW n, From(s, n), Len(stack) <= n + 1,
         NEW f \in Frame, f.fn # "start", stack' = Append(s, f)
  PROVE  Moves
BY DEF Moves

(* A step that leaves the stack is a move.                                  *)
LEMMA MoveSame ==
  ASSUME TypeOK, stack' = stack
  PROVE  Moves
<1>1. Len(stack) <= Len(stack) + 1
  BY StackShape
<1> QED
  BY <1>1, FromStack, MoveStay

(* A call from the top as it is, is a move.                                 *)
LEMMA MoveCall ==
  ASSUME TypeOK, NEW f \in Frame, f.fn # "start", stack' = Append(stack, f)
  PROVE  Moves
<1>1. Len(stack) <= Len(stack) + 1
  BY StackShape
<1> QED
  BY <1>1, FromStack, MovePush

(* Returning from the top is a move.                                        *)
LEMMA MoveReturn ==
  ASSUME TypeOK, stack # << >>, stack' = Callers
  PROVE  Moves
<1>1. Len(stack) <= (Len(stack) - 1) + 1
  BY StackTop
<1> QED
  BY <1>1, FromCallers, MoveStay

(* Replacing the top by a call is a move.                                   *)
LEMMA MoveJump ==
  ASSUME TypeOK, stack # << >>, NEW f \in Frame, f.fn # "start", stack' = Append(Callers, f)
  PROVE  Moves
<1>1. Len(stack) <= (Len(stack) - 1) + 1
  BY StackTop
<1> QED
  BY <1>1, FromCallers, MovePush

(* Moving the top on and calling is a move.                                 *)
LEMMA MoveOn ==
  ASSUME TypeOK, stack # << >>, NEW g \in Frame, Alike(Top, g),
         NEW f \in Frame, f.fn # "start", stack' = Append(Append(Callers, g), f)
  PROVE  Moves
<1> DEFINE s == Append(Callers, g)
<1>1. Len(stack) <= Len(stack) + 1
  BY StackShape
<1>2. From(s, Len(stack)) /\ stack' = Append(s, f)
  BY FromTop
<1> HIDE DEF s
<1> QED
  BY <1>1, <1>2, MovePush

(* The steps of a traversal are moves.                                      *)
LEMMA RunMoves ==
  ASSUME TypeOK,
         (\E r \in Root : Run(r)) \/ RunOlder \/ RunBlocked \/ RunScript \/ RunIdle \/ RunDone
  PROVE  Moves
<1>1. CASE \E r \in Root : Run(r)
  <2>1. PICK r \in Root : stack = << >>
          /\ stack' = IF root[r] = Nil THEN << >> ELSE Call(<< >>, "run", root[r], "prev")
    BY <1>1 DEF Run
  <2>2. CASE root[r] = Nil
    BY <2>1, <2>2, MoveSame
  <2>3. CASE root[r] # Nil
    <3> DEFINE f == [fn |-> "run", at |-> "prev", p |-> root[r]]
    <3>1. f \in Frame /\ f.fn # "start" /\ stack' = Append(stack, f)
      BY <2>1, <2>3, NewFrames DEF TypeOK, Call
    <3> HIDE DEF f
    <3> QED
      BY <3>1, MoveCall
  <2> QED
    BY <2>2, <2>3
<1>2. CASE RunOlder \/ RunBlocked \/ RunScript \/ RunIdle \/ RunDone
  <2>1. stack # << >> /\ Top.fn = "run" /\ Top.p \in Slot
    <3>1. stack # << >> /\ Top.fn = "run"
      BY <1>2 DEF RunOlder, RunBlocked, RunScript, RunIdle, RunDone, ItsTurn, Doing
    <3> QED
      BY <3>1, StackTop, FrameShape
  <2>2. \/ stack' = Callers
        \/ RunChildren(Top.p) /\ procs[Top.p].child # Nil
        \/ \E a \in {"self", "idle", "ended"}, f \in Frame :
             f.fn # "start" /\ stack' = Append(At(a), f)
    <3>1. CASE RunOlder
      <4>1. procs[Top.p].prev \in Slot
        BY <2>1, <3>1, ProcFields DEF RunOlder
      <4> QED
        BY <3>1, <4>1, NewFrames DEF RunOlder, Call
    <3>2. CASE RunBlocked \/ RunDone
      BY <3>2 DEF RunBlocked, RunDone, RunChildren, Return
    <3>3. CASE RunScript \/ RunIdle
      BY <2>1, <3>3, NewFrames DEF RunScript, RunIdle, Call
    <3> QED
      BY <1>2, <3>1, <3>2, <3>3
  <2>3. CASE RunChildren(Top.p) /\ procs[Top.p].child # Nil
    <3> DEFINE f == [fn |-> "run", at |-> "prev", p |-> procs[Top.p].child]
    <3>1. f \in Frame /\ f.fn # "start" /\ stack' = Append(Callers, f)
      BY <2>1, <2>3, ProcFields, NewFrames DEF RunChildren, Call
    <3> HIDE DEF f
    <3> QED
      BY <2>1, <3>1, MoveJump
  <2>4. ASSUME NEW a \in {"self", "idle", "ended"}, NEW f \in Frame, f.fn # "start",
               stack' = Append(At(a), f)
        PROVE  Moves
    <3> DEFINE g == [fn |-> "run", at |-> a, p |-> Top.p]
    <3>1. g \in Frame /\ Alike(Top, g) /\ At(a) = Append(Callers, g)
      BY <2>1, NewFrames, Moved DEF Alike
    <3> HIDE DEF g
    <3> QED
      BY <2>1, <2>4, <3>1, MoveOn
  <2> QED
    BY <2>1, <2>2, <2>3, <2>4, MoveReturn
<1> QED
  BY <1>1, <1>2

(* The commands and callbacks that end nothing are moves.                   *)
LEMMA CallMoves ==
  ASSUME TypeOK,
         \/ ScriptReturn \/ CmdCall \/ CmdRepeat \/ CallbackReturn
         \/ CallSetRepeat \/ Break \/ BreakEach \/ EndEach \/ BlockMarked \/ UnblockMarked
         \/ FinishStart \/ SetMark \/ CallEndMarked
  PROVE  Moves
<1>1. stack # << >> /\ (Top.fn \in {"script", "callback", "start"} => Top.p \in Slot)
  <2>1. stack # << >>
    BY DEF ScriptReturn, CmdCall, CmdRepeat, CallbackReturn, CallSetRepeat, Break, BreakEach,
           EndEach, BlockMarked, UnblockMarked, FinishStart, SetMark, CallEndMarked,
           Fetching, InCallback, Doing
  <2> QED
    BY <2>1, StackTop, FrameShape
<1>2. CASE ScriptReturn \/ CmdRepeat \/ CallbackReturn \/ FinishStart
  BY <1>1, <1>2, MoveReturn DEF ScriptReturn, CmdRepeat, CallbackReturn, FinishStart, Return
<1>3. CASE CallSetRepeat \/ Break \/ BreakEach \/ BlockMarked \/ UnblockMarked \/ SetMark
  BY <1>3, MoveSame DEF CallSetRepeat, Break, BreakEach, BlockMarked, UnblockMarked, SetMark
<1>4. CASE CmdCall
  <2> DEFINE f == [fn |-> "callback", at |-> "body", p |-> Top.p]
  <2>1. Top.p \in Slot /\ (stack' = Append(stack, f) \/ stack' = Append(Callers, f))
    BY <1>1, <1>4 DEF CmdCall, Fetching, Doing, Call
  <2>2. f \in Frame /\ f.fn # "start"
    BY <2>1, NewFrames
  <2> HIDE DEF f
  <2> QED
    BY <1>1, <2>1, <2>2, MoveCall, MoveJump
<1>5. CASE EndEach \/ CallEndMarked
  <2>1. \E f \in Frame : f.fn # "start" /\ stack' = Append(stack, f)
    <3>1. 1 \in 1 .. NProc + 1
      BY ProcAssumption
    <3> QED
      BY <1>5, <3>1, LoopFrames DEF EndEach, CallEndMarked, Call
  <2> QED
    BY <2>1, MoveCall
<1> QED
  BY <1>2, <1>3, <1>4, <1>5

(* The commands, callbacks and loops that end procs are moves.              *)
LEMMA EndMoves ==
  ASSUME TypeOK,
         \/ CmdEnd \/ CmdEndIfDuplicate \/ CmdEndDuplicates \/ CallEnd
         \/ EndEachLoop \/ EndMarkedLoop
  PROVE  Moves
<1>1. CASE CmdEnd \/ CmdEndIfDuplicate
  <2> DEFINE f == [fn |-> "delete", at |-> "prev", p |-> Top.p]
  <2>1. stack # << >> /\ Top.fn = "script" /\ stack' = Append(Callers, f)
    BY <1>1 DEF CmdEnd, CmdEndIfDuplicate, Fetching, Doing, End, Call
  <2>2. f \in Frame /\ f.fn # "start"
    BY <2>1, StackTop, FrameShape, NewFrames
  <2> HIDE DEF f
  <2> QED
    BY <2>1, <2>2, MoveJump
<1>2. CASE CmdEndDuplicates \/ CallEnd
  <2>1. PICK q \in Target : End(stack, q)
    BY <1>2 DEF CmdEndDuplicates, CallEnd
  <2> DEFINE f == [fn |-> "delete", at |-> "prev", p |-> q]
  <2>2. f \in Frame /\ f.fn # "start" /\ stack' = Append(stack, f)
    BY <2>1, NewFrames DEF Target, End, Call
  <2> HIDE DEF f
  <2> QED
    BY <2>2, MoveCall
<1>3. CASE EndEachLoop \/ EndMarkedLoop
  <2>1. stack # << >> /\ Top.fn \in {"endEach", "endMarked"}
    BY <1>3 DEF EndEachLoop, EndMarkedLoop
  <2>2. \/ stack' = Callers
        \/ \E q \in Slot : End(Append(Callers, [Top EXCEPT !.p = q + 1]), q)
    BY <1>3 DEF EndEachLoop, EndMarkedLoop, LoopEnd, Return
  <2>3. ASSUME NEW q \in Slot, End(Append(Callers, [Top EXCEPT !.p = q + 1]), q)
        PROVE  Moves
    <3> DEFINE g == [fn |-> Top.fn, at |-> Top.at, p |-> q + 1]
               f == [fn |-> "delete", at |-> "prev", p |-> q]
    <3>1. q + 1 \in 1 .. NProc + 1
      BY ProcAssumption DEF Slot
    <3>2. g \in Frame /\ Alike(Top, g)
      BY <2>1, <3>1, StackTop, FrameShape, LoopFrames DEF Alike
    <3>3. f \in Frame /\ f.fn # "start" /\ stack' = Append(Append(Callers, g), f)
      BY <2>1, <2>3, NewFrames, Bumped DEF End, Call
    <3> HIDE DEF f, g
    <3> QED
      BY <2>1, <3>2, <3>3, MoveOn
  <2> QED
    BY <2>1, <2>2, <2>3, MoveReturn
<1> QED
  BY <1>1, <1>2, <1>3

(* The steps of DeleteProcessRecursive are moves.                           *)
LEMMA DeleteMoves ==
  ASSUME TypeOK, DeleteWalk \/ DeleteFree
  PROVE  Moves
<1>1. CASE DeleteFree
  BY <1>1, MoveReturn DEF DeleteFree, Doing, Return
<1>2. CASE DeleteWalk
  <2>1. stack # << >> /\ Top.fn = "delete" /\ Top.p \in Slot
    BY <1>2, StackTop, FrameShape DEF DeleteWalk
  <2>2. procs[Top.p].prev \in Slot \cup {Nil} /\ procs[Top.p].child \in Slot \cup {Nil}
    BY <2>1, ProcFields
  <2>3. \/ stack' = Callers
        \/ \E a \in {"child", "check", "free"}, f \in Frame :
             f.fn # "start" /\ stack' = Append(At(a), f)
    BY <1>2, <2>1, <2>2, NewFrames, Slots DEF DeleteWalk, Call
  <2>4. ASSUME NEW a \in {"child", "check", "free"}, NEW f \in Frame, f.fn # "start",
               stack' = Append(At(a), f)
        PROVE  Moves
    <3> DEFINE g == [fn |-> "delete", at |-> a, p |-> Top.p]
    <3>1. g \in Frame /\ Alike(Top, g) /\ At(a) = Append(Callers, g)
      BY <2>1, NewFrames, Moved DEF Alike
    <3> HIDE DEF g
    <3> QED
      BY <2>1, <2>4, <3>1, MoveOn
  <2> QED
    BY <2>1, <2>3, <2>4, MoveReturn
<1> QED
  BY <1>1, <1>2

(* Every step but Proc_Start. *)
Starting == CmdStart \/ CallStart \/ \E r \in Root, s \in Script : Boot(s, r)

(* Every step is a move or starts a proc.                                   *)
LEMMA EveryMove ==
  ASSUME TypeOK, [Next]_vars
  PROVE  Moves \/ Starting
<1>1. CASE UNCHANGED vars
  BY <1>1, MoveSame DEF vars
<1>2. CASE Next
  BY <1>2, RunMoves, CallMoves, EndMoves, DeleteMoves DEF Next, Starting
<1> QED
  BY <1>1, <1>2
-----------------------------------------------------------------------------
(* Lock counts. *)

(* A step that changes no count and nothing the counts depend on. *)
SameLocks ==
  /\ \A q \in Slot :
       /\ procs'[q].script = procs[q].script /\ procs'[q].parent = procs[q].parent
       /\ procs'[q].blocking = procs[q].blocking /\ procs'[q].mark = procs[q].mark
       /\ procs'[q].lock = procs[q].lock
  /\ paused' = paused

(* A step that changes nothing the counts depend on keeps them right.       *)
LEMMA LocksSame ==
  ASSUME LocksCountBlockers, SameLocks
  PROVE  LocksCountBlockers'
<1>1. \A p : Blockers(p)' = Blockers(p)
  BY DEF SameLocks, Blockers, Live
<1> QED
  BY <1>1 DEF SameLocks, LocksCountBlockers, Live

(* A proc does not block itself, so the count of blockers stays below the   *)
(* number of slots.                                                         *)
LEMMA BlockersSize ==
  ASSUME TypeOK, TreeOK, NEW p \in Slot
  PROVE  /\ IsFiniteSet(Blockers(p)) /\ p \notin Blockers(p)
         /\ Cardinality(Blockers(p)) \in 0 .. 254
<1>1. p \notin Blockers(p)
  <2> SUFFICES ASSUME Live(p), procs[p].parent = p PROVE FALSE
    BY DEF Blockers
  <2>1. p \in Reach(Par, {p})
    BY ReachBase
  <2> QED
    BY <2>1 DEF TreeOK
<1>2. IsFiniteSet(Slot) /\ Cardinality(Slot) = NProc
  BY FS_Interval, ProcAssumption DEF Slot
<1> DEFINE R == Slot \ {p}
<1>3. IsFiniteSet(R) /\ Cardinality(R) = NProc - 1
  BY <1>2, FS_RemoveElement
<1>4. Blockers(p) \in SUBSET R
  BY <1>1 DEF Blockers
<1> HIDE DEF R
<1>5. IsFiniteSet(Blockers(p)) /\ Cardinality(Blockers(p)) <= Cardinality(R)
  BY <1>3, <1>4, FS_Subset
<1>6. Cardinality(Blockers(p)) \in Nat
  BY <1>5, FS_CardinalityType
<1> QED
  BY <1>1, <1>3, <1>5, <1>6, ProcAssumption

(* Frames of Proc_Start leave the stack, none is pushed. *)
LEMMA StartsKept ==
  ASSUME TypeOK, TypeOK', StartsOK, Moves,
         \A q \in Slot : Live(q)' => Live(q) /\ procs'[q].blocking = procs[q].blocking
  PROVE  StartsOK'
<1>1. PICK n : /\ Keeps(n)
               /\ \A i \in DOMAIN stack' : stack'[i].fn = "start" => i \in 1 .. n
  <2>1. PICK s, n : /\ From(s, n) /\ Len(stack) <= n + 1
                    /\ stack' = s \/ \E f \in Frame : f.fn # "start" /\ stack' = Append(s, f)
    BY DEF Moves
  <2>2. CASE stack' = s
    BY <2>1, <2>2, KeepsBase
  <2>3. CASE stack' # s
    <3>1. PICK f \in Frame : f.fn # "start" /\ stack' = Append(s, f)
      BY <2>1, <2>3
    <3>2. Keeps(n) /\ DOMAIN stack' = 1 .. n + 1 /\ stack'[n + 1] = f
      BY <2>1, <3>1, KeepsPush
    <3>3. n \in Nat
      BY <3>2 DEF Keeps
    <3>4. \A i \in 1 .. n + 1 : i # n + 1 => i \in 1 .. n
      BY <3>3
    <3> QED
      BY <3>1, <3>2, <3>4
  <2> QED
    BY <2>2, <2>3
<1>2. ASSUME NEW i \in DOMAIN stack', stack'[i].fn = "start"
      PROVE  i \in DOMAIN stack /\ stack[i].fn = "start" /\ stack'[i].p = stack[i].p
             /\ stack'[i].p \in Slot
  <2>1. i \in 1 .. n /\ i \in DOMAIN stack
    BY <1>1, <1>2, KeptDomain
  <2>2. Alike(stack[i], stack'[i])
    BY <1>1, <2>1 DEF Keeps
  <2>3. stack[i].fn = "start" /\ stack'[i].p = stack[i].p
    BY <1>2, <2>2 DEF Alike
  <2>4. stack[i].p \in Slot
    BY <2>1, <2>3, StackShape, FrameShape
  <2> QED
    BY <2>1, <2>3, <2>4
<1>3. ASSUME NEW i \in DOMAIN stack', stack'[i].fn = "start"
      PROVE  /\ procs'[stack'[i].p].script # Nil => ~procs'[stack'[i].p].blocking
             /\ \A j \in DOMAIN stack' :
                  stack'[j].fn = "start" /\ stack'[j].p = stack'[i].p => j = i
  <2>1. procs'[stack'[i].p].script # Nil => ~procs'[stack'[i].p].blocking
    BY <1>2, <1>3 DEF StartsOK, Live
  <2>2. ASSUME NEW j \in DOMAIN stack', stack'[j].fn = "start", stack'[j].p = stack'[i].p
        PROVE  j = i
    <3>1. i \in DOMAIN stack /\ stack[i].fn = "start" /\ stack'[i].p = stack[i].p
      BY <1>2, <1>3
    <3>2. j \in DOMAIN stack /\ stack[j].fn = "start" /\ stack'[j].p = stack[j].p
      BY <1>2, <2>2
    <3> QED
      BY <2>2, <3>1, <3>2 DEF StartsOK
  <2> QED
    BY <2>1, <2>2
<1> QED
  BY <1>3 DEF StartsOK, Live

(* The functions that leave the counts alone. *)
LEMMA LocksEnd ==
  ASSUME TypeOK, TypeOK', NEW frames, NEW q \in Slot, End(frames, q)
  PROVE  SameLocks
<1>1. UnlinkedFields(q)
  BY EndWrites
<1>2. paused' = paused
  BY DEF End
<1> QED
  BY <1>1, <1>2 DEF UnlinkedFields, SameLocks

(* Traversals, most commands and the walk of a deletion change nothing the  *)
(* counts depend on.                                                        *)
LEMMA LocksRuns ==
  ASSUME TypeOK,
         \/ \E r \in Root : Run(r)
         \/ RunOlder \/ RunBlocked \/ RunScript \/ RunIdle \/ RunDone
         \/ ScriptReturn \/ CmdCall \/ CmdRepeat \/ CallbackReturn
         \/ CallSetRepeat \/ Break \/ BreakEach \/ EndEach \/ CallEndMarked \/ DeleteWalk
  PROVE  SameLocks
<1>1. procs \in [Slot -> Proc]
  BY DEF TypeOK
<1>2. CASE (\E r \in Root : Run(r)) \/ RunOlder \/ RunBlocked \/ RunScript \/ RunIdle \/ RunDone
           \/ ScriptReturn \/ CmdCall \/ CallbackReturn \/ EndEach \/ CallEndMarked \/ DeleteWalk
  <2>1. procs' = procs /\ paused' = paused
    BY <1>2 DEF Run, RunOlder, RunBlocked, RunScript, RunIdle, RunDone, ScriptReturn, CmdCall,
                CallbackReturn, EndEach, CallEndMarked, DeleteWalk
  <2> QED
    BY <2>1 DEF SameLocks
<1>3. CASE CmdRepeat
  BY <1>1, <1>3 DEF CmdRepeat, SameLocks
<1>4. CASE CallSetRepeat
  BY <1>1, <1>4 DEF CallSetRepeat, SameLocks
<1>5. CASE Break
  BY <1>1, <1>5 DEF Break, SameLocks
<1>6. CASE BreakEach
  <2>1. PICK s \in Script :
          procs' = [q \in Slot |-> [procs[q] EXCEPT
                      !.idle = IF procs[q].script = s THEN FALSE ELSE @]]
    BY <1>6 DEF BreakEach
  <2>2. ASSUME NEW q \in Slot
        PROVE  /\ procs'[q].script = procs[q].script /\ procs'[q].parent = procs[q].parent
               /\ procs'[q].blocking = procs[q].blocking /\ procs'[q].mark = procs[q].mark
               /\ procs'[q].lock = procs[q].lock
    BY <2>1, ProcFields DEF Proc
  <2> QED
    BY <1>6, <2>2 DEF BreakEach, SameLocks
<1> QED
  BY <1>2, <1>3, <1>4, <1>5, <1>6

(* Unlinking a proc changes nothing the counts depend on: it is still live. *)
LEMMA LocksEnds ==
  ASSUME TypeOK, TypeOK',
         \/ CmdEnd \/ CmdEndIfDuplicate \/ CmdEndDuplicates \/ CallEnd
         \/ EndEachLoop \/ EndMarkedLoop
  PROVE  SameLocks
<1>1. CASE CmdEnd \/ CmdEndIfDuplicate
  <2>1. stack # << >> /\ Top.fn = "script" /\ End(Callers, Top.p)
    BY <1>1 DEF CmdEnd, CmdEndIfDuplicate, Fetching, Doing
  <2>2. Top.p \in Slot
    BY <2>1, StackTop, FrameShape
  <2> QED
    BY <2>1, <2>2, LocksEnd
<1>2. CASE CmdEndDuplicates \/ CallEnd
  BY <1>2, LocksEnd DEF CmdEndDuplicates, CallEnd, Target
<1>3. CASE EndEachLoop \/ EndMarkedLoop
  <2>1. \/ UNCHANGED <<procs, paused>>
        \/ \E q \in Slot : End(Append(Callers, [Top EXCEPT !.p = q + 1]), q)
    BY <1>3 DEF EndEachLoop, EndMarkedLoop, LoopEnd
  <2>2. CASE UNCHANGED <<procs, paused>>
    BY <2>2 DEF SameLocks
  <2> QED
    BY <2>1, <2>2, LocksEnd
<1> QED
  BY <1>1, <1>2, <1>3

(* Steps that change no lock count. *)
LEMMA LocksIdle ==
  ASSUME TypeOK, TypeOK', LockInv, SameLocks, Moves
  PROVE  LockInv'
<1>1. LocksCountBlockers'
  BY LocksSame DEF LockInv
<1>2. \A q \in Slot : Live(q)' => Live(q) /\ procs'[q].blocking = procs[q].blocking
  BY DEF SameLocks, Live
<1>3. StartsOK'
  BY <1>2, StartsKept DEF LockInv
<1> QED
  BY <1>1, <1>3 DEF LockInv

(* A new proc blocks nothing and is blocked by none, whatever its slot held. *)
LEMMA LocksStart ==
  ASSUME Careful, CoreInv, LockInv, TypeOK', NEW frames, NEW n, From(frames, n),
         Len(stack) <= n + 1, NEW s \in Script, NEW par \in Root \cup Slot,
         par \in Slot => Live(par), NEW kind \in {"plain", "blocking"},
         Start(frames, s, par, kind)
  PROVE  LockInv'
<1> USE DEF CoreInv, LockInv
<1>1. /\ Started(s, par) /\ Fresh \in Slot /\ ~Live(Fresh)
      /\ \A q \in Slot : Live(q)' <=> Live(q) \/ q = Fresh
  BY StartWrites
<1>2. Fresh \notin Held /\ paused' = paused
      /\ stack' = Append(Append(frames, [fn |-> "start", at |-> kind, p |-> Fresh]),
                         [fn |-> "script", at |-> "fetch", p |-> Fresh])
  BY DEF Start, Fresh, Call
<1>3. ASSUME NEW p \in Slot, p # Fresh PROVE Blockers(p)' = Blockers(p)
  BY <1>1, <1>3 DEF Blockers, Started
<1>4. ASSUME NEW p \in Slot, p = Fresh PROVE Blockers(p)' = {}
  <2>1. \A q \in Slot : Live(q) => procs[q].parent # Fresh
    BY <1>1, Slots DEF TreeOK
  <2> QED
    BY <1>1, <1>4, <2>1 DEF Blockers, Started
<1>5. LocksCountBlockers'
  <2>1. ASSUME NEW p \in Slot, Live(p)'
        PROVE  procs'[p].lock = Cardinality(Blockers(p)')
                                + (IF procs'[p].mark \in paused' THEN 1 ELSE 0)
    <3>1. CASE p = Fresh
      <4>1. procs'[p].lock = 0 /\ procs'[p].mark \notin paused'
        BY <1>1, <1>2, <3>1, Slots DEF Started, TypeOK
      <4>2. Cardinality(Blockers(p)') = 0
        BY <1>4, <3>1, FS_EmptySet
      <4> QED
        BY <4>1, <4>2
    <3>2. CASE p # Fresh
      <4>1. procs'[p].lock = procs[p].lock /\ procs'[p].mark = procs[p].mark /\ Live(p)
        BY <1>1, <2>1, <3>2 DEF Started
      <4> QED
        BY <1>2, <1>3, <3>2, <4>1 DEF LocksCountBlockers
    <3> QED
      BY <3>1, <3>2
  <2> QED
    BY <2>1 DEF LocksCountBlockers
<1>6. StartsOK'
  <2> DEFINE f == [fn |-> "start", at |-> kind, p |-> Fresh]
             g == [fn |-> "script", at |-> "fetch", p |-> Fresh]
  <2>1. f \in Frame /\ g \in Frame
    BY <1>1, NewFrames
  <2>2. stack' = Append(Append(frames, f), g) /\ f.fn = "start" /\ f.p = Fresh /\ g.fn # "start"
    BY <1>2
  <2> HIDE DEF f, g
  <2>3. /\ Keeps(n) /\ stack'[n + 1] = f /\ stack'[n + 2] = g /\ DOMAIN stack' = 1 .. n + 2
    BY <2>1, <2>2, KeepsPushTwo
  <2>4. n \in Nat /\ \A i \in 1 .. n + 2 : i \in 1 .. n \/ i = n + 1 \/ i = n + 2
    <3>1. n \in Nat
      BY <2>3 DEF Keeps
    <3> QED
      BY <3>1
  <2>5. ASSUME NEW i \in 1 .. n, stack'[i].fn = "start"
        PROVE  i \in DOMAIN stack /\ stack[i].fn = "start" /\ stack'[i].p = stack[i].p
               /\ stack'[i].p \in Slot \ {Fresh}
    <3>1. i \in DOMAIN stack /\ Alike(stack[i], stack'[i])
      BY <2>3, KeptDomain DEF Keeps
    <3>2. stack[i].fn = "start" /\ stack'[i].p = stack[i].p
      BY <2>5, <3>1 DEF Alike
    <3>3. stack[i].p \in Slot
      BY <3>1, <3>2, StackShape, FrameShape
    <3>4. stack[i].p # Fresh
      BY <1>2, <3>1, <3>2 DEF Held
    <3> QED
      BY <3>1, <3>2, <3>3, <3>4
  <2>6. ASSUME NEW i \in DOMAIN stack', stack'[i].fn = "start"
        PROVE  /\ procs'[stack'[i].p].script # Nil => ~procs'[stack'[i].p].blocking
               /\ \A j \in DOMAIN stack' :
                    stack'[j].fn = "start" /\ stack'[j].p = stack'[i].p => j = i
    <3>1. i \in 1 .. n \/ i = n + 1
      BY <2>2, <2>3, <2>4, <2>6
    <3>2. CASE i \in 1 .. n
      <4>1. procs'[stack'[i].p].script # Nil => ~procs'[stack'[i].p].blocking
        BY <1>1, <2>5, <2>6, <3>2 DEF StartsOK, Started, Live
      <4>2. ASSUME NEW j \in DOMAIN stack', stack'[j].fn = "start", stack'[j].p = stack'[i].p
            PROVE  j = i
        <5>1. stack'[i].p # Fresh /\ stack[i].fn = "start" /\ stack'[i].p = stack[i].p
              /\ i \in DOMAIN stack
          BY <2>5, <2>6, <3>2
        <5>2. j \in 1 .. n
          BY <2>2, <2>3, <2>4, <4>2, <5>1
        <5>3. stack[j].fn = "start" /\ stack'[j].p = stack[j].p /\ j \in DOMAIN stack
          BY <2>5, <4>2, <5>2
        <5> QED
          BY <4>2, <5>1, <5>3 DEF StartsOK
      <4> QED
        BY <4>1, <4>2
    <3>3. CASE i = n + 1
      <4>1. stack'[i].p = Fresh
        BY <2>2, <2>3, <3>3
      <4>2. ~procs'[Fresh].blocking
        BY <1>1 DEF Started
      <4>3. ASSUME NEW j \in DOMAIN stack', stack'[j].fn = "start", stack'[j].p = Fresh
            PROVE  j = i
        BY <2>2, <2>3, <2>4, <2>5, <3>3, <4>3
      <4> QED
        BY <4>1, <4>2, <4>3
    <3> QED
      BY <3>1, <3>2, <3>3
  <2> QED
    BY <2>6 DEF StartsOK, Live
<1> QED
  BY <1>5, <1>6

(* A new proc blocks nobody yet, and its frame is the only one of its slot. *)
LEMMA LocksStarts ==
  ASSUME Careful, CoreInv, LockInv, TypeOK', Starting
  PROVE  LockInv'
<1>1. CASE CmdStart
  <2>1. stack # << >> /\ Live(Top.p) /\ Top.fn = "script"
    BY <1>1 DEF CmdStart, Fetching, Doing
  <2>2. TypeOK /\ Top.p \in Slot
    BY <2>1, StackTop, FrameShape DEF CoreInv
  <2>3. PICK s \in Script :
          \/ Start(stack, s, Top.p, "plain")
          \/ Start(Callers, s, Top.p, "blocking")
          \/ \E r \in Root : Start(stack, s, r, "plain")
    BY <1>1 DEF CmdStart
  <2>4. From(stack, Len(stack)) /\ Len(stack) <= Len(stack) + 1
    BY <2>2, FromStack, StackShape
  <2>5. From(Callers, Len(stack) - 1) /\ Len(stack) <= (Len(stack) - 1) + 1
    BY <2>1, <2>2, FromCallers, StackShape
  <2>6. CASE Start(stack, s, Top.p, "plain")
    BY <2>1, <2>2, <2>4, <2>6, LocksStart
  <2>7. CASE Start(Callers, s, Top.p, "blocking")
    BY <2>1, <2>2, <2>5, <2>7, LocksStart
  <2>8. CASE \E r \in Root : Start(stack, s, r, "plain")
    BY <2>1, <2>4, <2>8, LocksStart, Slots
  <2> QED
    BY <2>3, <2>6, <2>7, <2>8
<1>2. CASE CallStart
  <2>1. PICK s \in Script, par \in Root \cup Target, kind \in {"plain", "blocking"} :
          Start(stack, s, par, kind)
    BY <1>2 DEF CallStart
  <2>2. par \in Root \cup Slot /\ (par \in Slot => Live(par))
    BY Slots DEF Target
  <2>3. From(stack, Len(stack)) /\ Len(stack) <= Len(stack) + 1
    BY FromStack, StackShape DEF CoreInv
  <2> QED
    BY <2>1, <2>2, <2>3, LocksStart
<1>3. CASE \E r \in Root, s \in Script : Boot(s, r)
  <2>1. PICK r \in Root, s \in Script : Boot(s, r)
    BY <1>3
  <2>2. stack = << >> /\ Start(<< >>, s, r, "plain")
    BY <2>1 DEF Boot
  <2>3. From(<< >>, 0) /\ Len(stack) <= 0 + 1
    BY <2>2, FromNone DEF CoreInv
  <2>4. r \in Root \cup Slot /\ r \notin Slot
    BY Slots
  <2> QED
    BY <2>2, <2>3, <2>4, LocksStart
<1> QED
  BY <1>1, <1>2, <1>3 DEF Starting

(* What the rest of Proc_Start and Proc_StartBlocking writes. *)
LEMMA FinishWrites ==
  ASSUME TypeOK, FinishStart
  PROVE  LET p == Top.p
             blocks == Top.at = "blocking" /\ Live(p)
         IN  /\ stack # << >> /\ Top.fn = "start" /\ p \in Slot /\ stack' = Callers
             /\ paused' = paused
             /\ \A q \in Slot :
                  /\ procs'[q].script = procs[q].script /\ procs'[q].parent = procs[q].parent
                  /\ procs'[q].mark = procs[q].mark
                  /\ procs'[q].blocking = IF q = p /\ blocks THEN TRUE ELSE procs[q].blocking
                  /\ procs'[q].lock = IF blocks /\ q = procs[p].parent
                                      THEN (procs[q].lock + 1) % 256 ELSE procs[q].lock
<1> DEFINE p == Top.p
           blocks == Top.at = "blocking" /\ Live(p)
<1>1. /\ stack # << >> /\ Top.fn = "start" /\ stack' = Callers /\ paused' = paused
      /\ procs' = [q \in Slot |-> [procs[q] EXCEPT
           !.starting = IF q = p THEN FALSE ELSE @,
           !.blocking = IF q = p /\ blocks THEN TRUE ELSE @,
           !.lock = IF blocks /\ q = procs[p].parent THEN (@ + 1) % 256 ELSE @]]
  BY DEF FinishStart, Return
<1>2. p \in Slot
  BY <1>1, StackTop, FrameShape
<1>3. ASSUME NEW q \in Slot
      PROVE  /\ procs'[q].script = procs[q].script /\ procs'[q].parent = procs[q].parent
             /\ procs'[q].mark = procs[q].mark
             /\ procs'[q].blocking = IF q = p /\ blocks THEN TRUE ELSE procs[q].blocking
             /\ procs'[q].lock = IF blocks /\ q = procs[p].parent
                                 THEN (procs[q].lock + 1) % 256 ELSE procs[q].lock
  <2> DEFINE d == procs[q]
             a == IF q = p THEN FALSE ELSE d.starting
             b == IF q = p /\ blocks THEN TRUE ELSE d.blocking
             v == IF blocks /\ q = procs[p].parent THEN (d.lock + 1) % 256 ELSE d.lock
  <2>1. procs'[q] = [d EXCEPT !.starting = a, !.blocking = b, !.lock = v]
    BY <1>1
  <2>2. d \in Proc
    BY ProcFields
  <2> HIDE DEF d, a, b, v
  <2>3. /\ procs'[q].script = d.script /\ procs'[q].parent = d.parent
        /\ procs'[q].mark = d.mark /\ procs'[q].blocking = b /\ procs'[q].lock = v
    BY <2>1, <2>2 DEF Proc
  <2> QED
    BY <2>3 DEF d, b, v
<1> QED
  BY <1>1, <1>2, <1>3

(* Proc_StartBlocking flags the child and counts it in one step.            *)
LEMMA LocksFinish ==
  ASSUME CoreInv, LockInv, TypeOK', FinishStart
  PROVE  LockInv'
<1> USE DEF CoreInv, LockInv
<1> DEFINE p == Top.p
           n == Len(stack)
           blocks == Top.at = "blocking" /\ Live(p)
           par == procs[p].parent
<1>1. /\ stack # << >> /\ Top.fn = "start" /\ p \in Slot /\ stack' = Callers
      /\ paused' = paused
      /\ \A q \in Slot :
           /\ procs'[q].script = procs[q].script /\ procs'[q].parent = procs[q].parent
           /\ procs'[q].mark = procs[q].mark
           /\ procs'[q].blocking = IF q = p /\ blocks THEN TRUE ELSE procs[q].blocking
           /\ procs'[q].lock = IF blocks /\ q = par
                               THEN (procs[q].lock + 1) % 256 ELSE procs[q].lock
  BY FinishWrites
<1>2. n \in DOMAIN stack /\ DOMAIN stack = 1 .. n /\ n \in Nat \ {0} /\ Top = stack[n]
  BY <1>1, StackTop
<1>3. Live(p) => ~procs[p].blocking
  BY <1>1, <1>2 DEF StartsOK
<1> HIDE DEF p, n, par, blocks
<1>4. LocksCountBlockers'
  <2>1. ASSUME NEW x \in Slot, Live(x)
        PROVE  procs'[x].lock = Cardinality(Blockers(x)')
                                + (IF procs'[x].mark \in paused' THEN 1 ELSE 0)
    <3>1. /\ IsFiniteSet(Blockers(x)) /\ x \notin Blockers(x)
          /\ Cardinality(Blockers(x)) \in 0 .. 254
      BY BlockersSize
    <3>2. procs[x].lock = Cardinality(Blockers(x))
                          + (IF procs[x].mark \in paused THEN 1 ELSE 0)
      BY <2>1 DEF LocksCountBlockers
    <3>3. CASE blocks /\ x = par
      <4>1. Live(p)
        BY <3>3 DEF blocks
      <4>2. Blockers(x)' = Blockers(x) \cup {p} /\ p \notin Blockers(x)
        <5>1. p \notin Blockers(x)
          BY <1>3, <4>1 DEF Blockers
        <5>2. \A q \in Slot : q \in Blockers(x)' <=> q \in Blockers(x) \/ q = p
          BY <1>1, <3>3, <4>1 DEF Blockers, Live, par
        <5>3. Blockers(x) \subseteq Slot /\ Blockers(x)' \subseteq Slot
          BY DEF Blockers
        <5> QED
          BY <1>1, <5>1, <5>2, <5>3
      <4>3. Cardinality(Blockers(x)') = Cardinality(Blockers(x)) + 1
        BY <3>1, <4>2, FS_AddElement
      <4>4. Cardinality(Blockers(x)) + 1 <= 254
        <5>1. TypeOK' /\ TreeOK
          OBVIOUS
        <5>2. Blockers(x) \cup {p} \subseteq Slot \ {x}
          <6>1. p # x
            <7>1. p \in Reach(Par, {p})
              BY <1>1, ReachBase
            <7> QED
              BY <1>1, <3>3, <4>1, <7>1 DEF TreeOK, par
          <6> QED
            BY <1>1, <3>1, <6>1 DEF Blockers
        <5>3. IsFiniteSet(Slot) /\ Cardinality(Slot) = NProc
          BY FS_Interval, ProcAssumption DEF Slot
        <5> DEFINE R == Slot \ {x}
        <5>4. IsFiniteSet(R) /\ Cardinality(R) = NProc - 1
          BY <5>3, FS_RemoveElement
        <5>5. Blockers(x) \cup {p} \in SUBSET R
          BY <5>2
        <5> HIDE DEF R
        <5>6. Cardinality(Blockers(x) \cup {p}) <= Cardinality(R)
          BY <5>4, <5>5, FS_Subset
        <5>7. Cardinality(Blockers(x) \cup {p}) = Cardinality(Blockers(x)) + 1
          BY <3>1, <4>2, FS_AddElement
        <5> QED
          BY <3>1, <5>4, <5>6, <5>7, ProcAssumption
      <4>5. procs'[x].lock = (procs[x].lock + 1) % 256 /\ procs'[x].mark = procs[x].mark
        BY <1>1, <3>3
      <4>6. procs'[x].lock = procs[x].lock + 1
        BY <3>1, <3>2, <4>4, <4>5
      <4>7. procs'[x].mark \in paused' <=> procs[x].mark \in paused
        BY <1>1, <4>5
      <4> QED
        BY <3>1, <3>2, <4>3, <4>6, <4>7
    <3>4. CASE ~(blocks /\ x = par)
      <4>1. Blockers(x)' = Blockers(x)
        <5>1. ASSUME NEW q \in Slot PROVE q \in Blockers(x)' <=> q \in Blockers(x)
          <6>1. CASE q = p /\ blocks
            BY <1>1, <3>4, <6>1 DEF Blockers, par
          <6>2. CASE ~(q = p /\ blocks)
            BY <1>1, <6>2 DEF Blockers, Live
          <6> QED
            BY <6>1, <6>2
        <5>2. Blockers(x) \subseteq Slot /\ Blockers(x)' \subseteq Slot
          BY DEF Blockers
        <5> QED
          BY <5>1, <5>2
      <4>2. procs'[x].lock = procs[x].lock /\ procs'[x].mark = procs[x].mark
        BY <1>1, <3>4
      <4> QED
        BY <1>1, <3>2, <4>1, <4>2
    <3> QED
      BY <3>3, <3>4
  <2>2. \A x \in Slot : Live(x)' <=> Live(x)
    BY <1>1 DEF Live
  <2> QED
    BY <2>1, <2>2 DEF LocksCountBlockers
<1>5. StartsOK'
  <2>1. DOMAIN stack' = 1 .. n - 1 /\ \A i \in 1 .. n - 1 : stack'[i] = stack[i]
    <3>1. From(Callers, n - 1) /\ Len(stack) <= (n - 1) + 1
      BY <1>1, <1>2, FromCallers DEF n
    <3>2. Keeps(n - 1) /\ DOMAIN stack' = 1 .. n - 1
      BY <1>1, <3>1, KeepsBase
    <3> QED
      BY <1>1, <3>2, StackTop DEF n
  <2>2. ASSUME NEW i \in DOMAIN stack', stack'[i].fn = "start"
        PROVE  i \in DOMAIN stack /\ i # n /\ stack[i] = stack'[i] /\ stack'[i].p \in Slot \ {p}
    <3>1. i \in DOMAIN stack /\ i # n /\ stack[i] = stack'[i]
      BY <1>2, <2>1
    <3>2. stack[i].p \in Slot
      BY <2>2, <3>1, StackShape, FrameShape
    <3>3. stack[i].p # p
      BY <1>1, <1>2, <2>2, <3>1 DEF StartsOK, p
    <3> QED
      BY <3>1, <3>2, <3>3
  <2>3. ASSUME NEW i \in DOMAIN stack', stack'[i].fn = "start"
        PROVE  /\ procs'[stack'[i].p].script # Nil => ~procs'[stack'[i].p].blocking
               /\ \A j \in DOMAIN stack' :
                    stack'[j].fn = "start" /\ stack'[j].p = stack'[i].p => j = i
    <3>1. procs'[stack'[i].p].script # Nil => ~procs'[stack'[i].p].blocking
      <4>1. PICK y \in Slot \ {p} : y = stack'[i].p
        BY <2>2, <2>3
      <4>2. procs'[y].script = procs[y].script /\ procs'[y].blocking = procs[y].blocking
        BY <1>1, <4>1
      <4>3. procs[y].script # Nil => ~procs[y].blocking
        BY <2>2, <2>3, <4>1 DEF StartsOK, Live
      <4> QED
        BY <4>1, <4>2, <4>3
    <3>2. \A j \in DOMAIN stack' :
            stack'[j].fn = "start" /\ stack'[j].p = stack'[i].p => j = i
      BY <2>2, <2>3 DEF StartsOK
    <3> QED
      BY <3>1, <3>2
  <2> QED
    BY <2>3 DEF StartsOK, Live
<1> QED
  BY <1>4, <1>5

(* Freeing a flagged proc takes it from its parent's count.                 *)
LEMMA LocksFree ==
  ASSUME CoreInv, LockInv, TypeOK', DeleteFree
  PROVE  LockInv'
<1> USE DEF CoreInv, LockInv
<1> DEFINE p == Top.p
           par == procs[p].parent
<1>1. /\ \A x \in Slot :
           /\ procs'[x].script = IF x = p THEN Nil ELSE procs[x].script
           /\ procs'[x].parent = procs[x].parent
           /\ procs'[x].mark = procs[x].mark /\ procs'[x].blocking = procs[x].blocking
           /\ procs'[x].lock = IF procs[p].blocking /\ x = par
                               THEN (procs[x].lock + 255) % 256 ELSE procs[x].lock
      /\ stack # << >> /\ Top.fn = "delete" /\ Top.at = "free" /\ p \in Slot
      /\ paused' = paused
  <2>1. stack # << >> /\ Top.fn = "delete" /\ paused' = paused
    BY DEF DeleteFree, Doing
  <2> QED
    BY <2>1, FreeWrites, StackTop, FrameShape
<1>2. Live(p)
  <2>1. Len(stack) \in DOMAIN stack /\ Top = stack[Len(stack)]
    BY <1>1, StackTop
  <2> QED
    BY <1>1, <2>1 DEF GravesOK
<1>3. \A x \in Slot : Live(x)' <=> Live(x) /\ x # p
  BY <1>1, Slots DEF Live
<1> HIDE DEF p, par
<1>4. LocksCountBlockers'
  <2>1. ASSUME NEW x \in Slot, Live(x)
        PROVE  procs'[x].lock = Cardinality(Blockers(x)')
                                + (IF procs'[x].mark \in paused' THEN 1 ELSE 0)
    <3>1. IsFiniteSet(Blockers(x)) /\ Cardinality(Blockers(x)) \in 0 .. 254
      BY BlockersSize
    <3>2. procs[x].lock = Cardinality(Blockers(x))
                          + (IF procs[x].mark \in paused THEN 1 ELSE 0)
      BY <2>1 DEF LocksCountBlockers
    <3>3. Blockers(x)' = Blockers(x) \ {p}
      BY <1>1, <1>3 DEF Blockers
    <3>4. CASE procs[p].blocking /\ x = par
      <4>1. p \in Blockers(x)
        BY <1>1, <1>2, <3>4 DEF Blockers, par
      <4>2. Cardinality(Blockers(x)') = Cardinality(Blockers(x)) - 1
        BY <3>1, <3>3, <4>1, FS_RemoveElement
      <4>3. Cardinality(Blockers(x)) # 0
        BY <3>1, <4>1, FS_EmptySet
      <4>4. procs'[x].lock = (procs[x].lock + 255) % 256 /\ procs'[x].mark = procs[x].mark
        BY <1>1, <3>4
      <4> DEFINE c == Cardinality(Blockers(x))
                 k == IF procs[x].mark \in paused THEN 1 ELSE 0
      <4>5. procs[x].lock = c + k /\ c \in 1 .. 254 /\ k \in {0, 1}
        BY <3>1, <3>2, <4>3
      <4>6. k = IF procs'[x].mark \in paused' THEN 1 ELSE 0
        BY <1>1, <4>4
      <4>7. Cardinality(Blockers(x)') = c - 1
        BY <4>2
      <4> HIDE DEF c, k
      <4>8. procs'[x].lock = (c - 1) + k
        BY <4>4, <4>5
      <4> QED
        BY <4>6, <4>7, <4>8
    <3>5. CASE ~(procs[p].blocking /\ x = par)
      <4>1. p \notin Blockers(x)
        BY <3>5 DEF Blockers, par
      <4>2. Blockers(x)' = Blockers(x)
        BY <3>3, <4>1
      <4>3. procs'[x].lock = procs[x].lock /\ procs'[x].mark = procs[x].mark
        BY <1>1, <3>5
      <4> QED
        BY <1>1, <3>2, <4>2, <4>3
    <3> QED
      BY <3>4, <3>5
  <2> QED
    BY <1>3, <2>1 DEF LocksCountBlockers
<1>5. StartsOK'
  <2>1. Moves
    BY DeleteMoves
  <2> QED
    BY <1>1, <1>3, <2>1, StartsKept
<1> QED
  BY <1>4, <1>5

(* A mark set while it pauses nobody, and marks paused and released. *)
LEMMA LocksMarks ==
  ASSUME Careful, CoreInv, LockInv, TypeOK', SetMark \/ BlockMarked \/ UnblockMarked
  PROVE  LockInv'
<1> USE DEF CoreInv, LockInv
<1>1. procs \in [Slot -> Proc] /\ \A q \in Slot : procs[q].lock \in Lock
  BY ProcFields DEF TypeOK
<1>2. ASSUME \A q \in Slot :
               /\ procs'[q].script = procs[q].script /\ procs'[q].parent = procs[q].parent
               /\ procs'[q].blocking = procs[q].blocking
               /\ Live(q) => procs'[q].lock - (IF procs'[q].mark \in paused' THEN 1 ELSE 0)
                             = procs[q].lock - (IF procs[q].mark \in paused THEN 1 ELSE 0)
      PROVE  LocksCountBlockers'
  <2>1. \A p \in Slot : Blockers(p)' = Blockers(p) /\ (Live(p)' <=> Live(p))
    BY <1>2 DEF Blockers, Live
  <2>2. ASSUME NEW p \in Slot, Live(p)
        PROVE  procs'[p].lock = Cardinality(Blockers(p)')
                                + (IF procs'[p].mark \in paused' THEN 1 ELSE 0)
    <3> DEFINE c == Cardinality(Blockers(p))
               k == IF procs[p].mark \in paused THEN 1 ELSE 0
               h == IF procs'[p].mark \in paused' THEN 1 ELSE 0
    <3>1. procs[p].lock = c + k /\ procs'[p].lock - h = procs[p].lock - k
      BY <1>2, <2>2 DEF LocksCountBlockers
    <3>2. c \in 0 .. 254 /\ k \in {0, 1} /\ h \in {0, 1}
      BY BlockersSize
    <3>3. procs'[p].lock \in Int /\ procs[p].lock \in Int
      <4>1. procs'[p] \in Proc /\ procs[p] \in Proc
        BY DEF TypeOK
      <4> QED
        BY <4>1 DEF Lock, Proc
    <3>4. Cardinality(Blockers(p)') = c
      BY <2>1
    <3> HIDE DEF c, k, h
    <3>5. procs'[p].lock = c + h
      BY <3>1, <3>2, <3>3
    <3> QED
      BY <3>4, <3>5 DEF h
  <2> QED
    BY <2>1, <2>2 DEF LocksCountBlockers
<1>3. ASSUME NEW p \in Slot, Live(p)
      PROVE  /\ procs[p].mark \in paused => procs[p].lock \in 1 .. 255
             /\ procs[p].mark \notin paused => procs[p].lock \in 0 .. 254
  <2>1. Cardinality(Blockers(p)) \in 0 .. 254
    BY BlockersSize
  <2>2. procs[p].lock = Cardinality(Blockers(p)) + (IF procs[p].mark \in paused THEN 1 ELSE 0)
    BY <1>3 DEF LocksCountBlockers
  <2> QED
    BY <2>1, <2>2
<1>4. ASSUME SetMark PROVE LocksCountBlockers'
  <2>1. PICK m \in Mark, x \in Slot :
          /\ paused \cap {m, procs[x].mark} = {}
          /\ procs' = [procs EXCEPT ![x].mark = m]
    BY <1>4 DEF SetMark
  <2>2. paused' = paused
    BY <1>4 DEF SetMark
  <2>3. ASSUME NEW q \in Slot
        PROVE  /\ procs'[q].script = procs[q].script /\ procs'[q].parent = procs[q].parent
               /\ procs'[q].blocking = procs[q].blocking
               /\ procs'[q].lock = procs[q].lock
               /\ procs'[q].mark \in paused' <=> procs[q].mark \in paused
    BY <1>1, <2>1, <2>2 DEF Proc
  <2> QED
    BY <1>2, <2>3
<1>5. ASSUME BlockMarked PROVE LocksCountBlockers'
  <2>1. PICK m \in Mark \ paused :
          /\ paused' = paused \cup {m}
          /\ procs' = [q \in Slot |-> [procs[q] EXCEPT
                         !.lock = IF procs[q].mark = m THEN (@ + 1) % 256 ELSE @]]
    BY <1>5 DEF BlockMarked
  <2>2. ASSUME NEW q \in Slot
        PROVE  /\ procs'[q].script = procs[q].script /\ procs'[q].parent = procs[q].parent
               /\ procs'[q].blocking = procs[q].blocking /\ procs'[q].mark = procs[q].mark
               /\ procs'[q].lock = IF procs[q].mark = m THEN (procs[q].lock + 1) % 256
                                                        ELSE procs[q].lock
    BY <2>1, ProcFields DEF Proc
  <2>3. ASSUME NEW q \in Slot, Live(q)
        PROVE  procs'[q].lock - (IF procs'[q].mark \in paused' THEN 1 ELSE 0)
               = procs[q].lock - (IF procs[q].mark \in paused THEN 1 ELSE 0)
    <3>1. CASE procs[q].mark = m
      <4>1. procs[q].lock \in 0 .. 254 /\ procs[q].mark \notin paused
        BY <1>3, <2>1, <2>3, <3>1
      <4>2. procs'[q].mark \in paused' /\ procs'[q].lock = (procs[q].lock + 1) % 256
        BY <2>1, <2>2, <3>1
      <4> QED
        BY <4>1, <4>2
    <3>2. CASE procs[q].mark # m
      BY <2>1, <2>2, <3>2
    <3> QED
      BY <3>1, <3>2
  <2> QED
    BY <1>2, <2>2, <2>3
<1>6. ASSUME UnblockMarked PROVE LocksCountBlockers'
  <2>1. PICK m \in paused :
          /\ paused' = paused \ {m}
          /\ procs' = [q \in Slot |-> [procs[q] EXCEPT
                         !.lock = IF procs[q].mark = m /\ @ > 0 THEN @ - 1 ELSE @]]
    BY <1>6 DEF UnblockMarked
  <2>2. ASSUME NEW q \in Slot
        PROVE  /\ procs'[q].script = procs[q].script /\ procs'[q].parent = procs[q].parent
               /\ procs'[q].blocking = procs[q].blocking /\ procs'[q].mark = procs[q].mark
               /\ procs'[q].lock = IF procs[q].mark = m /\ procs[q].lock > 0
                                   THEN procs[q].lock - 1 ELSE procs[q].lock
    BY <2>1, ProcFields DEF Proc
  <2>3. ASSUME NEW q \in Slot, Live(q)
        PROVE  procs'[q].lock - (IF procs'[q].mark \in paused' THEN 1 ELSE 0)
               = procs[q].lock - (IF procs[q].mark \in paused THEN 1 ELSE 0)
    <3>1. CASE procs[q].mark = m
      <4>1. procs[q].lock \in 1 .. 255 /\ procs[q].mark \in paused
        BY <1>3, <2>1, <2>3, <3>1
      <4>2. procs'[q].mark \notin paused' /\ procs'[q].lock = procs[q].lock - 1
        BY <2>1, <2>2, <3>1, <4>1
      <4> QED
        BY <4>1, <4>2
    <3>2. CASE procs[q].mark # m
      BY <2>1, <2>2, <3>2
    <3> QED
      BY <3>1, <3>2
  <2> QED
    BY <1>2, <2>2, <2>3
<1>7. StartsOK'
  <2>1. Moves
    BY CallMoves
  <2>2. \A q \in Slot : procs'[q].script = procs[q].script /\ procs'[q].blocking = procs[q].blocking
    <3>1. CASE SetMark
      BY <1>1, <3>1 DEF SetMark, Proc
    <3>2. CASE BlockMarked \/ UnblockMarked
      BY <3>2, ProcFields DEF BlockMarked, UnblockMarked, Proc
    <3> QED
      BY <3>1, <3>2
  <2> QED
    BY <2>1, <2>2, StartsKept DEF Live
<1> QED
  BY <1>4, <1>5, <1>6, <1>7

(* LockInv is inductive relative to CoreInv.                                *)
LEMMA LockStep ==
  ASSUME Careful, CoreInv, LockInv, [Next]_vars
  PROVE  LockInv'
<1>1. TypeOK /\ TypeOK'
  BY TypeStep DEF CoreInv
<1>2. CASE Starting
  BY <1>1, <1>2, LocksStarts
<1>3. CASE SetMark \/ BlockMarked \/ UnblockMarked
  BY <1>1, <1>3, LocksMarks
<1>4. CASE FinishStart
  BY <1>1, <1>4, LocksFinish
<1>5. CASE DeleteFree
  BY <1>1, <1>5, LocksFree
<1>6. CASE \/ \E r \in Root : Run(r)
           \/ RunOlder \/ RunBlocked \/ RunScript \/ RunIdle \/ RunDone
           \/ ScriptReturn \/ CmdCall \/ CmdRepeat \/ CallbackReturn
           \/ CallSetRepeat \/ Break \/ BreakEach \/ EndEach \/ CallEndMarked \/ DeleteWalk
           \/ CmdEnd \/ CmdEndIfDuplicate \/ CmdEndDuplicates \/ CallEnd
           \/ EndEachLoop \/ EndMarkedLoop
  <2>1. SameLocks
    BY <1>1, <1>6, LocksRuns, LocksEnds
  <2>2. Moves
    BY <1>1, <1>6, RunMoves, CallMoves, EndMoves, DeleteMoves
  <2> QED
    BY <1>1, <2>1, <2>2, LocksIdle
<1>7. CASE UNCHANGED vars
  <2>1. Moves
    BY <1>1, <1>7, MoveSame DEF vars
  <2>2. SameLocks
    BY <1>7 DEF vars, SameLocks
  <2> QED
    BY <1>1, <2>1, <2>2, LocksIdle
<1> QED
  BY <1>2, <1>3, <1>4, <1>5, <1>6, <1>7 DEF Next, Starting

(* LockInv holds of an empty table.                                         *)
LEMMA LockInit ==
  ASSUME Init
  PROVE  LockInv
<1>1. stack = << >> /\ DOMAIN stack = {} /\ \A p \in Slot : procs[p].script = Nil
  BY EmptySeq DEF Init
<1> QED
  BY <1>1 DEF LockInv, LocksCountBlockers, StartsOK, Live

(* proc_lockCnt of a live proc is the number of its live blocking children, *)
(* and one more while its mark is paused, although the child that blocks    *)
(* may end, or its parent may, before Proc_StartBlocking returns.           *)
THEOREM LocksBalanced ==
  ASSUME Careful
  PROVE  Spec => []LocksCountBlockers
<1>1. Init => CoreInv /\ LockInv
  BY CoreInit, LockInit
<1>2. CoreInv /\ LockInv /\ [Next]_vars => (CoreInv /\ LockInv)'
  BY CoreStep, LockStep
<1>3. CoreInv /\ LockInv => LocksCountBlockers
  BY DEF LockInv
<1> QED
  BY <1>1, <1>2, <1>3, PTL DEF Spec
-----------------------------------------------------------------------------
(* Every proc is visited. *)

(* The ancestors of a live proc do not change while it lives.               *)
LEMMA SameAncestors ==
  ASSUME TypeOK, TreeOK, NEW q \in Slot, Live(q),
         \A x \in Slot : Live(x) => procs'[x].parent = procs[x].parent
  PROVE  Reach(Par', {q}) = Reach(Par, {q})
<1> DEFINE f == Par
           g == Par'
<1>1. \A x \in Reach(f, {q}) : Live(x) /\ x \in Slot
  BY LiveReach, ReachBase
<1>2. \A x \in Reach(f, {q}) : g[x] = f[x]
  BY <1>1 DEF Par
<1> HIDE DEF f, g
<1>3. Reach(g, {q}) = Reach(f, {q})
  BY <1>2, ReachSame
<1> QED
  BY <1>3 DEF f, g

(* Functions called from the traversal leave its frames alone. *)
LEMMA CoverKept ==
  ASSUME TypeOK, TypeOK', TreeOK, CoverInv, NEW n, Keeps(n),
         stack = << >> \/ Top.fn # "run", owed' \subseteq owed,
         \A q \in owed' : Live(q)',
         \A x \in Slot : Live(x) => procs'[x].parent = procs[x].parent
  PROVE  CoverInv'
<1> SUFFICES ASSUME NEW q \in owed' PROVE \E z \in Reach(Par', {q}) : Coming(q, z)'
  BY DEF CoverInv
<1>1. q \in owed /\ Live(q) /\ q \in Slot
  BY DEF CoverInv, TypeOK
<1>2. PICK z \in Reach(Par, {q}) : Coming(q, z)
  BY <1>1 DEF CoverInv
<1>3. stack = << >> => DOMAIN stack = {}
  BY EmptySeq
<1>4. PICK i \in DOMAIN stack : /\ stack[i].fn = "run" /\ stack[i].p = z
                                /\ z = q => stack[i].at \in {"prev", "self"}
  BY <1>2 DEF Coming, Doing
<1>5. i # Len(stack) /\ stack # << >>
  BY <1>3, <1>4 DEF Top
<1>6. i \in 1 .. n /\ i < Len(stack) /\ i \in DOMAIN stack'
  BY <1>5, KeptDomain
<1>7. stack'[i] = stack[i]
  BY <1>6 DEF Keeps
<1>8. Coming(q, z)'
  BY <1>4, <1>6, <1>7 DEF Coming
<1>9. Reach(Par', {q}) = Reach(Par, {q})
  BY <1>1, SameAncestors
<1> QED
  BY <1>2, <1>8, <1>9

(* A step of a function called by a traversal leaves the traversal where it *)
(* is, and no ancestor of a live proc changes.                              *)
LEMMA CoverMoves ==
  ASSUME TypeOK, TypeOK', TreeOK, CoverInv, Moves,
         stack = << >> \/ Top.fn # "run", owed' \subseteq owed,
         \A q \in owed' : Live(q)',
         \A x \in Slot : Live(x) => procs'[x].parent = procs[x].parent
  PROVE  CoverInv'
<1>1. \E n : Keeps(n)
  <2>1. PICK s, n : /\ From(s, n) /\ Len(stack) <= n + 1
                    /\ stack' = s \/ \E f \in Frame : f.fn # "start" /\ stack' = Append(s, f)
    BY DEF Moves
  <2>2. CASE stack' = s
    BY <2>1, <2>2, KeepsBase
  <2>3. CASE stack' # s
    BY <2>1, <2>3, KeepsPush
  <2> QED
    BY <2>2, <2>3
<1> QED
  BY <1>1, CoverKept

(* Nobody is owed a visit when no traversal runs. *)
LEMMA CoverNone ==
  ASSUME TypeOK, CoverInv
  PROVE  EveryProcVisited
<1> SUFFICES ASSUME stack = << >>, NEW q \in owed PROVE FALSE
  BY DEF EveryProcVisited
<1>1. DOMAIN stack = {}
  BY EmptySeq
<1> QED
  BY <1>1 DEF CoverInv, Coming, Doing

(* A tree is entered at its newest proc, from which the list leads to all.  *)
LEMMA CoverRun ==
  ASSUME CoreInv, TypeOK', NEW r \in Root, Run(r)
  PROVE  CoverInv'
<1> USE DEF CoreInv
<1>1. /\ stack = << >> /\ owed' = InTree(r) /\ procs' = procs
      /\ stack' = IF root[r] = Nil THEN << >> ELSE Call(<< >>, "run", root[r], "prev")
  BY DEF Run
<1>2. Doomed = {} /\ r \in Open
  <2>1. DOMAIN stack = {}
    BY <1>1, EmptySeq
  <2> QED
    BY <2>1 DEF Doomed, Open
<1>3. ListOK(r) /\ Newest(r) = root[r]
  BY <1>2 DEF Newest
<1>4. ASSUME NEW q \in owed'
      PROVE  Live(q)' /\ \E z \in Reach(Par', {q}) : Coming(q, z)'
  <2>1. PICK x \in Reach(Par, {q}) : procs[x].parent = r /\ Live(q) /\ q \in Slot
    BY <1>1, <1>4, UpwardReach DEF InTree
  <2>2. x \in Slot /\ Live(x)
    BY <2>1, LiveReach, ReachBase
  <2>3. x \in Kids(r)
    BY <1>2, <2>1, <2>2 DEF Kids
  <2>4. root[r] \in Slot /\ x \in Reach(Back, {root[r]})
    <3>1. root[r] \in Kids(r) /\ x \in Reach(Back, {Newest(r)})
      BY <1>3, <2>3 DEF ListOK
    <3> QED
      BY <1>3, <3>1 DEF Kids
  <2> DEFINE f == [fn |-> "run", at |-> "prev", p |-> root[r]]
  <2>5. stack' = << f >>
    BY <1>1, <2>4, Slots DEF Call
  <2>6. Doing("run", "prev")' /\ Top' = f
    BY <2>5 DEF Doing, Top
  <2>7. Par' = Par /\ Back' = Back /\ Live(q)'
    BY <1>1, <2>1 DEF Par, Back, Live
  <2>8. Coming(q, x)'
    BY <2>4, <2>6, <2>7 DEF Coming
  <2> QED
    BY <2>1, <2>7, <2>8
<1> QED
  BY <1>4 DEF CoverInv

(* The list of a proc's children leads to the branch a descendant is in.    *)
LEMMA CoverKids ==
  ASSUME CoreInv, Doomed = {}, NEW q \in Slot, Live(q), NEW p \in Reach(Par, {q}), p # q
  PROVE  /\ procs[p].child \in Slot /\ ~procs[p].ended
         /\ \E c \in Reach(Par, {q}) : c \in Reach(Back, {procs[p].child})
<1> USE DEF CoreInv
<1>1. \A x \in Reach(Par, {q}) : Live(x) /\ x \in Slot
  BY LiveReach, ReachBase
<1>2. PICK c \in Reach(Par, {q}) : Par[c] = p
  BY ReachLast
<1>3. c \in Kids(p) /\ p \in Slot /\ Live(p)
  BY <1>1, <1>2 DEF Kids, Par
<1>4. p \in Open
  BY <1>3, DoomedLive DEF Open
<1>5. Newest(p) = procs[p].child
  BY <1>3, Slots DEF Newest
<1>6. Newest(p) \in Kids(p) /\ c \in Reach(Back, {Newest(p)})
  BY <1>3, <1>4 DEF ListOK
<1> QED
  BY <1>3, <1>5, <1>6 DEF Kids, TreeOK

(* What is yet to come of the traversal, when the older siblings of the     *)
(* proc it is at have been run.                                             *)
LEMMA ComingTop ==
  ASSUME TypeOK, stack # << >>, Top.fn = "run", NEW q, NEW z, Coming(q, z),
         Top.at = "prev" => procs[Top.p].prev = Nil
  PROVE  \/ \E i \in DOMAIN Callers : /\ Callers[i].fn = "run" /\ Callers[i].p = z
                                      /\ z = q => Callers[i].at \in {"prev", "self"}
         \/ z = Top.p /\ (z = q => Top.at \in {"prev", "self"})
<1>1. /\ Len(stack) \in Nat \ {0} /\ DOMAIN stack = 1 .. Len(stack)
      /\ Top = stack[Len(stack)] /\ DOMAIN Callers = 1 .. Len(stack) - 1
      /\ \A i \in 1 .. Len(stack) - 1 : Callers[i] = stack[i]
  BY StackTop, LenProperties
<1>2. CASE \E i \in DOMAIN stack : /\ stack[i].fn = "run" /\ stack[i].p = z
                                   /\ z = q => stack[i].at \in {"prev", "self"}
  <2>1. PICK i \in DOMAIN stack : /\ stack[i].fn = "run" /\ stack[i].p = z
                                  /\ z = q => stack[i].at \in {"prev", "self"}
    BY <1>2
  <2>2. i = Len(stack) \/ i \in DOMAIN Callers
    BY <1>1
  <2> QED
    BY <1>1, <2>1, <2>2
<1>3. CASE Doing("run", "prev") /\ z \in Reach(Back, {Top.p})
  <2>1. Top.p \in Slot /\ procs[Top.p].prev = Nil /\ Top.at = "prev"
    BY <1>1, <1>3, StackTop, FrameShape DEF Doing
  <2>2. z = Top.p
    <3> SUFFICES ASSUME z # Top.p PROVE FALSE
      OBVIOUS
    <3>1. z \in Reach(Back, {Back[Top.p]})
      BY <1>3, ReachTail
    <3>2. Back[Top.p] = Nil
      BY <2>1 DEF Back
    <3>3. Reach(Back, {Nil}) \subseteq {}
      <4>1. {Nil} \cap Slot \subseteq {}
        BY Slots
      <4> QED
        BY <4>1, ReachLeast
    <3> QED
      BY <3>1, <3>2, <3>3
  <2> QED
    BY <2>1, <2>2
<1> QED
  BY <1>2, <1>3 DEF Coming

(* Frames below the top stay where they are.                                *)
LEMMA CallersStay ==
  ASSUME TypeOK, stack # << >>, NEW s \in Seq(Frame), NEW f \in Frame,
         s = Callers \/ \E g \in Frame : s = Append(Callers, g),
         NEW t, t = s \/ t = Append(s, f)
  PROVE  \A i \in DOMAIN Callers : i \in DOMAIN t /\ t[i] = Callers[i]
<1> DEFINE c == Callers
<1>1. c \in Seq(Frame)
  BY StackTop
<1>2. s = c \/ \E g \in Frame : s = Append(c, g)
  OBVIOUS
<1> HIDE DEF c
<1>3. DOMAIN c = 1 .. Len(c) /\ Len(c) \in Nat /\ DOMAIN s = 1 .. Len(s) /\ Len(s) \in Nat
  BY <1>1, LenProperties
<1>4. \A i \in 1 .. Len(c) : i \in 1 .. Len(s) /\ s[i] = c[i]
  <2>1. CASE s = c
    BY <2>1
  <2>2. CASE \E g \in Frame : s = Append(c, g)
    <3>1. PICK g \in Frame : s = Append(c, g)
      BY <2>2
    <3>2. Len(s) = Len(c) + 1 /\ \A i \in 1 .. Len(c) : s[i] = c[i]
      BY <1>1, <3>1, FramesIn
    <3> QED
      BY <1>3, <3>2
  <2> QED
    BY <1>2, <2>1, <2>2
<1>5. \A i \in 1 .. Len(s) : i \in DOMAIN t /\ t[i] = s[i]
  <2>1. CASE t = s
    BY <1>3, <2>1
  <2>2. CASE t = Append(s, f)
    <3> DEFINE k == Len(s)
    <3>1. /\ DOMAIN t = 1 .. k + 1
          /\ \A i \in 1 .. k : t[i] = s[i]
      BY <2>2, FramesIn
    <3>2. k \in Nat
      BY <1>3
    <3> HIDE DEF k
    <3>3. \A i \in 1 .. k : i \in DOMAIN t /\ t[i] = s[i]
      BY <3>1, <3>2
    <3> QED
      BY <3>3 DEF k
  <2> QED
    BY <2>1, <2>2
<1>6. \A i \in DOMAIN c : i \in DOMAIN t /\ t[i] = c[i]
  BY <1>3, <1>4, <1>5
<1> QED
  BY <1>6 DEF c

(* The proc has been visited, its children are next. *)
LEMMA CoverChildren ==
  ASSUME CoreInv, CoverInv, TypeOK', stack # << >>, Top.fn = "run", procs' = procs,
         RunChildren(Top.p) \/ (procs[Top.p].ended /\ Return), owed' \subseteq owed,
         Top.p \in owed' => Top.at \notin {"prev", "self"},
         Top.at = "prev" => procs[Top.p].prev = Nil
  PROVE  CoverInv'
<1> USE DEF CoreInv
<1>1. Idle /\ Doomed = {}
  BY TopSays DEF Idle
<1>2. Par' = Par /\ Back' = Back /\ \A q : Live(q)' <=> Live(q)
  BY DEF Par, Back, Live
<1>3. Top.p \in Slot /\ procs[Top.p].child \in Slot \cup {Nil}
  BY StackTop, FrameShape, ProcFields
<1>4. ASSUME NEW q \in owed'
      PROVE  Live(q)' /\ \E z \in Reach(Par', {q}) : Coming(q, z)'
  <2>1. q \in owed /\ Live(q) /\ q \in Slot
    BY <1>4 DEF CoverInv, TypeOK
  <2>2. PICK z \in Reach(Par, {q}) : Coming(q, z)
    BY <2>1 DEF CoverInv
  <2> DEFINE f == [fn |-> "run", at |-> "prev", p |-> procs[Top.p].child]
  <2>3. stack' = Callers \/ (procs[Top.p].child # Nil /\ f \in Frame /\ stack' = Append(Callers, f))
    BY <1>3, NewFrames DEF RunChildren, Call, Return
  <2>4. CASE \E i \in DOMAIN Callers : /\ Callers[i].fn = "run" /\ Callers[i].p = z
                                       /\ z = q => Callers[i].at \in {"prev", "self"}
    <3>1. PICK i \in DOMAIN Callers : /\ Callers[i].fn = "run" /\ Callers[i].p = z
                                      /\ z = q => Callers[i].at \in {"prev", "self"}
      BY <2>4
    <3>2. i \in DOMAIN stack' /\ stack'[i] = Callers[i]
      <4>1. Callers \in Seq(Frame)
        BY StackTop
      <4> HIDE DEF f
      <4> QED
        BY <2>3, <4>1, CallersStay
    <3>3. Coming(q, z)'
      BY <3>1, <3>2 DEF Coming
    <3> QED
      BY <1>2, <2>1, <2>2, <3>3
  <2>5. CASE z = Top.p /\ (z = q => Top.at \in {"prev", "self"})
    <3>1. z # q
      BY <1>4, <2>5
    <3>2. /\ procs[Top.p].child \in Slot /\ ~procs[Top.p].ended
          /\ \E c \in Reach(Par, {q}) : c \in Reach(Back, {procs[Top.p].child})
      BY <1>1, <2>1, <2>2, <2>5, <3>1, CoverKids
    <3>3. PICK c \in Reach(Par, {q}) : c \in Reach(Back, {procs[Top.p].child})
      BY <3>2
    <3>4. f \in Frame /\ stack' = Append(Callers, f)
      BY <3>2, Slots, NewFrames DEF RunChildren, Call
    <3>5. stack' # << >> /\ Top' = f
      <4>1. Callers \in Seq(Frame)
        BY StackTop
      <4> DEFINE c1 == Callers
      <4>2. c1 \in Seq(Frame) /\ stack' = Append(c1, f)
        BY <3>4, <4>1
      <4> HIDE DEF f, c1
      <4>3. Len(stack') = Len(c1) + 1 /\ stack'[Len(c1) + 1] = f /\ Len(c1) \in Nat
        BY <3>4, <4>2, FramesIn
      <4>4. stack' # << >>
        BY <4>3, EmptySeq
      <4> QED
        BY <4>3, <4>4 DEF Top
    <3>6. Coming(q, c)'
      BY <1>2, <3>3, <3>5 DEF Coming, Doing
    <3> QED
      BY <1>2, <2>1, <3>6
  <2> HIDE DEF f
  <2>6. \/ \E i \in DOMAIN Callers : /\ Callers[i].fn = "run" /\ Callers[i].p = z
                                     /\ z = q => Callers[i].at \in {"prev", "self"}
        \/ z = Top.p /\ (z = q => Top.at \in {"prev", "self"})
    BY <2>2, ComingTop
  <2> QED
    BY <2>4, <2>5, <2>6
<1> QED
  BY <1>4 DEF CoverInv

(* The proc is visited: its script or its idle callback runs. *)
LEMMA CoverVisit ==
  ASSUME CoreInv, CoverInv, TypeOK', stack # << >>, Top.fn = "run", procs' = procs,
         NEW a \in {"idle", "ended"}, NEW f \in Frame, stack' = Append(At(a), f),
         Visited(Top.p), Top.at = "prev" => procs[Top.p].prev = Nil
  PROVE  CoverInv'
<1> USE DEF CoreInv
<1>1. Par' = Par /\ \A q : Live(q)' <=> Live(q)
  BY DEF Par, Live
<1> DEFINE g == [fn |-> "run", at |-> a, p |-> Top.p]
           s == Append(Callers, g)
           n == Len(stack)
<1>2. Top.p \in Slot /\ n \in Nat \ {0} /\ g \in Frame /\ Alike(Top, g) /\ stack' = Append(s, f)
  <2>1. Top.p \in Slot /\ n \in Nat \ {0}
    BY StackTop, FrameShape
  <2> QED
    BY <2>1, NewFrames, Moved DEF Alike
<1>3. g.fn = "run" /\ g.p = Top.p
  OBVIOUS
<1>4. s \in Seq(Frame) /\ Len(s) = n /\ s[n] = g
  <2>1. From(s, n) /\ s[n] = g
    <3> HIDE DEF g
    <3> QED
      BY <1>2, FromTop
  <2> QED
    BY <2>1 DEF From
<1>5. n \in DOMAIN stack' /\ stack'[n] = g
  <2> HIDE DEF g, s
  <2>1. /\ DOMAIN stack' = 1 .. n + 1
        /\ \A i \in 1 .. n : stack'[i] = s[i]
    BY <1>2, <1>4, FramesIn
  <2> HIDE DEF n
  <2> QED
    BY <1>2, <1>4, <2>1
<1>6. \A i \in DOMAIN Callers : i \in DOMAIN stack' /\ stack'[i] = Callers[i]
  <2>1. \E h \in Frame : s = Append(Callers, h)
    BY <1>2
  <2> HIDE DEF g, s
  <2> QED
    BY <1>2, <1>4, <2>1, CallersStay
<1> HIDE DEF g, s, n
<1>7. ASSUME NEW q \in owed'
      PROVE  Live(q)' /\ \E z \in Reach(Par', {q}) : Coming(q, z)'
  <2>1. q \in owed /\ Live(q) /\ q # Top.p
    BY <1>7 DEF CoverInv, Visited
  <2>2. PICK z \in Reach(Par, {q}) : Coming(q, z)
    BY <2>1 DEF CoverInv
  <2>3. Coming(q, z)'
    <3>1. CASE \E i \in DOMAIN Callers : /\ Callers[i].fn = "run" /\ Callers[i].p = z
                                         /\ z = q => Callers[i].at \in {"prev", "self"}
      BY <1>6, <3>1 DEF Coming
    <3>2. CASE z = Top.p
      BY <1>3, <1>5, <2>1, <3>2 DEF Coming
    <3> QED
      BY <2>2, <3>1, <3>2, ComingTop
  <2> QED
    BY <1>1, <2>1, <2>2, <2>3
<1> QED
  BY <1>7 DEF CoverInv

(* The older siblings come first. *)
LEMMA CoverOlder ==
  ASSUME CoreInv, CoverInv, TypeOK', RunOlder
  PROVE  CoverInv'
<1> USE DEF CoreInv
<1> DEFINE g == [fn |-> "run", at |-> "self", p |-> Top.p]
           o == procs[Top.p].prev
           f == [fn |-> "run", at |-> "prev", p |-> o]
           s == Append(Callers, g)
           n == Len(stack)
<1>1. /\ stack # << >> /\ Top.fn = "run" /\ Top.at = "prev" /\ o # Nil
      /\ procs' = procs /\ owed' = owed /\ stack' = Append(At("self"), f)
  BY DEF RunOlder, Doing, Call
<1>2. Par' = Par /\ Back' = Back /\ \A q : Live(q)' <=> Live(q)
  BY <1>1 DEF Par, Back, Live
<1>3. Top.p \in Slot /\ n \in Nat \ {0} /\ o \in Slot
  <2>1. Top.p \in Slot /\ n \in Nat \ {0}
    BY <1>1, StackTop, FrameShape
  <2> QED
    BY <1>1, <2>1, ProcFields
<1>4. g \in Frame /\ f \in Frame /\ Alike(Top, g) /\ stack' = Append(s, f)
      /\ g.fn = "run" /\ g.at = "self" /\ g.p = Top.p
      /\ f.fn = "run" /\ f.at = "prev" /\ f.p = o
  BY <1>1, <1>3, NewFrames, Moved DEF Alike
<1>5. s \in Seq(Frame) /\ Len(s) = n /\ s[n] = g
  <2>1. From(s, n) /\ s[n] = g
    <3> HIDE DEF g
    <3> QED
      BY <1>1, <1>4, FromTop
  <2> QED
    BY <2>1 DEF From
<1>6. /\ n \in DOMAIN stack' /\ stack'[n] = g
      /\ stack' # << >> /\ Top' = f
  <2> HIDE DEF g, s, f
  <2>1. /\ DOMAIN stack' = 1 .. n + 1 /\ Len(stack') = n + 1 /\ stack'[n + 1] = f
        /\ \A i \in 1 .. n : stack'[i] = s[i]
    BY <1>4, <1>5, FramesIn
  <2> HIDE DEF n
  <2>2. n \in DOMAIN stack' /\ stack'[n] = g
    BY <1>3, <1>5, <2>1
  <2>3. stack' # << >>
    BY <2>2, EmptySeq
  <2> QED
    BY <2>1, <2>2, <2>3 DEF Top
<1>7. \A i \in DOMAIN Callers : i \in DOMAIN stack' /\ stack'[i] = Callers[i]
  <2>1. \E h \in Frame : s = Append(Callers, h)
    BY <1>4
  <2> HIDE DEF g, s, f
  <2> QED
    BY <1>1, <1>4, <1>5, <2>1, CallersStay
<1>8. Back[Top.p] = o
  BY <1>3 DEF Back
<1>9. /\ DOMAIN stack = 1 .. n /\ Top = stack[n] /\ DOMAIN Callers = 1 .. n - 1
      /\ \A i \in 1 .. n - 1 : Callers[i] = stack[i]
  BY <1>1, StackTop, LenProperties
<1> HIDE DEF g, s, f, n, o
<1>10. ASSUME NEW q \in owed'
       PROVE  Live(q)' /\ \E z \in Reach(Par', {q}) : Coming(q, z)'
  <2>1. q \in owed /\ Live(q)
    BY <1>1, <1>10 DEF CoverInv
  <2>2. PICK z \in Reach(Par, {q}) : Coming(q, z)
    BY <2>1 DEF CoverInv
  <2>3. Coming(q, z)'
    <3>1. CASE z = Top.p
      BY <1>4, <1>6, <3>1 DEF Coming
    <3>2. CASE z # Top.p /\ Doing("run", "prev") /\ z \in Reach(Back, {Top.p})
      <4>1. z \in Reach(Back, {o})
        BY <1>8, <3>2, ReachTail
      <4>2. z \in Reach(Back', {Top'.p})
        BY <1>2, <1>4, <1>6, <4>1
      <4> QED
        BY <1>4, <1>6, <4>2 DEF Coming, Doing
    <3>3. CASE /\ z # Top.p
               /\ \E i \in DOMAIN stack : /\ stack[i].fn = "run" /\ stack[i].p = z
                                          /\ z = q => stack[i].at \in {"prev", "self"}
      <4>1. PICK i \in DOMAIN stack : /\ stack[i].fn = "run" /\ stack[i].p = z
                                      /\ z = q => stack[i].at \in {"prev", "self"}
        BY <3>3
      <4>2. i \in DOMAIN Callers /\ Callers[i] = stack[i]
        BY <1>3, <1>9, <3>3, <4>1
      <4> QED
        BY <1>7, <4>1, <4>2 DEF Coming
    <3> QED
      BY <2>2, <3>1, <3>2, <3>3 DEF Coming
  <2> QED
    BY <1>2, <2>1, <2>2, <2>3
<1> QED
  BY <1>10 DEF CoverInv

(* A step of the traversal itself passes nobody it owes a visit: it runs    *)
(* down the older siblings, then the proc, then its children.               *)
LEMMA CoverRuns ==
  ASSUME CoreInv, CoverInv, TypeOK',
         RunOlder \/ RunBlocked \/ RunScript \/ RunIdle \/ RunDone
  PROVE  CoverInv'
<1>1. stack # << >> /\ Top.fn = "run" /\ TypeOK
  BY DEF RunOlder, RunBlocked, RunScript, RunIdle, RunDone, ItsTurn, Doing, CoreInv
<1>2. CASE RunOlder
  BY <1>2, CoverOlder
<1>3. CASE RunBlocked
  <2>1. /\ procs' = procs /\ RunChildren(Top.p) /\ owed' = owed \ {Top.p}
        /\ Top.at = "prev" => procs[Top.p].prev = Nil
    BY <1>3 DEF RunBlocked, Visited, ItsTurn, Doing
  <2> QED
    BY <1>1, <2>1, CoverChildren
<1>4. CASE RunScript
  <2>1. [fn |-> "script", at |-> "fetch", p |-> Top.p] \in Frame
    BY <1>1, StackTop, FrameShape, NewFrames
  <2>2. /\ procs' = procs /\ Visited(Top.p)
        /\ stack' = Append(At("idle"), [fn |-> "script", at |-> "fetch", p |-> Top.p])
        /\ Top.at = "prev" => procs[Top.p].prev = Nil
    BY <1>4 DEF RunScript, ItsTurn, Doing, Call
  <2> QED
    BY <1>1, <2>1, <2>2, CoverVisit
<1>5. CASE RunIdle
  <2>1. [fn |-> "callback", at |-> "body", p |-> Top.p] \in Frame
    BY <1>1, StackTop, FrameShape, NewFrames
  <2>2. /\ procs' = procs /\ Visited(Top.p)
        /\ stack' = Append(At("ended"), [fn |-> "callback", at |-> "body", p |-> Top.p])
        /\ Top.at = "prev" => procs[Top.p].prev = Nil
    BY <1>5 DEF RunIdle, ItsTurn, Doing, Call
  <2> QED
    BY <1>1, <2>1, <2>2, CoverVisit
<1>6. CASE RunDone
  <2>1. /\ procs' = procs /\ owed' = owed /\ Top.at \in {"idle", "ended"}
        /\ RunChildren(Top.p) \/ (procs[Top.p].ended /\ Return)
    BY <1>6 DEF RunDone, Doing
  <2> QED
    BY <1>1, <2>1, CoverChildren
<1> QED
  BY <1>2, <1>3, <1>4, <1>5, <1>6

(* Whoever started it, a new proc has another slot than those on the way.   *)
LEMMA CoverStart ==
  ASSUME CoreInv, CoverInv, TypeOK', NEW frames, NEW n, From(frames, n), Len(stack) <= n + 1,
         stack = << >> \/ Top.fn # "run", NEW s \in Script, NEW par \in Root \cup Slot,
         par \in Slot => Live(par), NEW kind \in {"plain", "blocking"},
         Start(frames, s, par, kind)
  PROVE  CoverInv'
<1> USE DEF CoreInv
<1>1. /\ Started(s, par) /\ Fresh \in Slot /\ ~Live(Fresh)
      /\ \A q \in Slot : Live(q)' <=> Live(q) \/ q = Fresh
  BY StartWrites
<1>2. /\ owed' = owed \ {Fresh}
      /\ stack' = Append(Append(frames, [fn |-> "start", at |-> kind, p |-> Fresh]),
                         [fn |-> "script", at |-> "fetch", p |-> Fresh])
  BY DEF Start, Fresh, Call
<1>3. Keeps(n)
  <2> DEFINE f == [fn |-> "start", at |-> kind, p |-> Fresh]
             g == [fn |-> "script", at |-> "fetch", p |-> Fresh]
  <2>1. f \in Frame /\ g \in Frame
    BY <1>1, NewFrames
  <2>2. stack' = Append(Append(frames, f), g)
    BY <1>2
  <2> HIDE DEF f, g
  <2> QED
    BY <2>1, <2>2, KeepsPushTwo
<1>4. \A x \in Slot : Live(x) => procs'[x].parent = procs[x].parent
  BY <1>1 DEF Started
<1>5. \A q \in owed' : Live(q)'
  BY <1>1, <1>2 DEF CoverInv, TypeOK
<1>6. owed' \subseteq owed
  BY <1>2
<1> QED
  BY <1>3, <1>4, <1>5, <1>6, CoverKept

(* A new proc is owed no visit, and whoever was on the way stays on it.     *)
LEMMA CoverStarts ==
  ASSUME CoreInv, CoverInv, TypeOK', Starting
  PROVE  CoverInv'
<1>1. CASE CmdStart
  <2>1. stack # << >> /\ Live(Top.p) /\ Top.fn = "script" /\ Top.fn # "run"
    BY <1>1 DEF CmdStart, Fetching, Doing
  <2>2. TypeOK /\ Top.p \in Slot
    BY <2>1, StackTop, FrameShape DEF CoreInv
  <2>3. PICK s \in Script :
          \/ Start(stack, s, Top.p, "plain")
          \/ Start(Callers, s, Top.p, "blocking")
          \/ \E r \in Root : Start(stack, s, r, "plain")
    BY <1>1 DEF CmdStart
  <2>4. From(stack, Len(stack)) /\ Len(stack) <= Len(stack) + 1
    BY <2>2, FromStack, StackShape
  <2>5. From(Callers, Len(stack) - 1) /\ Len(stack) <= (Len(stack) - 1) + 1
    BY <2>1, <2>2, FromCallers, StackShape
  <2>6. CASE Start(stack, s, Top.p, "plain")
    BY <2>1, <2>2, <2>4, <2>6, CoverStart
  <2>7. CASE Start(Callers, s, Top.p, "blocking")
    BY <2>1, <2>2, <2>5, <2>7, CoverStart
  <2>8. CASE \E r \in Root : Start(stack, s, r, "plain")
    BY <2>1, <2>4, <2>8, CoverStart, Slots
  <2> QED
    BY <2>3, <2>6, <2>7, <2>8
<1>2. CASE CallStart
  <2>1. PICK s \in Script, par \in Root \cup Target, kind \in {"plain", "blocking"} :
          Start(stack, s, par, kind)
    BY <1>2 DEF CallStart
  <2>2. par \in Root \cup Slot /\ (par \in Slot => Live(par)) /\ Top.fn # "run"
    BY <1>2, Slots DEF Target, CallStart, InCallback, Doing
  <2>3. From(stack, Len(stack)) /\ Len(stack) <= Len(stack) + 1
    BY FromStack, StackShape DEF CoreInv
  <2> QED
    BY <2>1, <2>2, <2>3, CoverStart
<1>3. CASE \E r \in Root, s \in Script : Boot(s, r)
  <2>1. PICK r \in Root, s \in Script : Boot(s, r)
    BY <1>3
  <2>2. stack = << >> /\ Start(<< >>, s, r, "plain")
    BY <2>1 DEF Boot
  <2>3. From(<< >>, 0) /\ Len(stack) <= 0 + 1
    BY <2>2, FromNone DEF CoreInv
  <2>4. r \in Root \cup Slot /\ r \notin Slot
    BY Slots
  <2> QED
    BY <2>2, <2>3, <2>4, CoverStart
<1> QED
  BY <1>1, <1>2, <1>3 DEF Starting

(* What is freed is owed no visit and is no ancestor of a live proc.        *)
LEMMA CoverFree ==
  ASSUME CoreInv, CoverInv, TypeOK', DeleteFree
  PROVE  CoverInv'
<1> USE DEF CoreInv
<1>1. /\ \A x \in Slot :
           /\ procs'[x].script = IF x = Top.p THEN Nil ELSE procs[x].script
           /\ procs'[x].parent = procs[x].parent
      /\ stack # << >> /\ Top.fn = "delete"
  BY FreeWrites
<1>2. owed' = owed \ {Top.p}
  BY DEF DeleteFree
<1>3. Moves
  BY DeleteMoves
<1>4. \A q \in owed' : Live(q)'
  <2> TAKE q \in owed'
  <2>1. q \in Slot /\ q # Top.p /\ Live(q)
    BY <1>2 DEF CoverInv, TypeOK
  <2> QED
    BY <1>1, <2>1 DEF Live
<1> QED
  BY <1>1, <1>2, <1>3, <1>4, CoverMoves

(* Steps that do not visit, start or free a proc. *)
LEMMA CoverIdle ==
  ASSUME TypeOK, TypeOK', TreeOK, CoverInv, Moves, stack = << >> \/ Top.fn # "run",
         owed' = owed,
         \A x \in Slot : procs'[x].script = procs[x].script /\ procs'[x].parent = procs[x].parent
  PROVE  CoverInv'
<1>1. \A q \in owed' : Live(q)'
  BY DEF CoverInv, TypeOK, Live
<1> QED
  BY <1>1, CoverMoves

(* Commands, callbacks and the walk of a deletion keep CoverInv.            *)
LEMMA CoverCalls ==
  ASSUME CoreInv, CoverInv, TypeOK',
         \/ ScriptReturn \/ CmdCall \/ CmdRepeat \/ CallbackReturn
         \/ CallSetRepeat \/ Break \/ BreakEach \/ EndEach \/ CallEndMarked \/ DeleteWalk
         \/ CmdEnd \/ CmdEndIfDuplicate \/ CmdEndDuplicates \/ CallEnd
         \/ EndEachLoop \/ EndMarkedLoop
         \/ SetMark \/ BlockMarked \/ UnblockMarked \/ FinishStart
  PROVE  CoverInv'
<1> USE DEF CoreInv
<1>1. Moves
  BY CallMoves, EndMoves, DeleteMoves
<1>2. owed' = owed
  BY DEF ScriptReturn, CmdCall, CmdRepeat, CallbackReturn, CallSetRepeat, Break, BreakEach,
         EndEach, CallEndMarked, DeleteWalk, CmdEnd, CmdEndIfDuplicate, CmdEndDuplicates,
         CallEnd, EndEachLoop, EndMarkedLoop, LoopEnd, End, SetMark, BlockMarked,
         UnblockMarked, FinishStart
<1>3. Top.fn # "run"
  BY DEF ScriptReturn, CmdCall, CmdRepeat, CallbackReturn, CallSetRepeat, Break, BreakEach,
         EndEach, CallEndMarked, DeleteWalk, CmdEnd, CmdEndIfDuplicate, CmdEndDuplicates,
         CallEnd, EndEachLoop, EndMarkedLoop, SetMark, BlockMarked,
         UnblockMarked, FinishStart, Fetching, InCallback, Doing
<1>4. \A x \in Slot : procs'[x].script = procs[x].script /\ procs'[x].parent = procs[x].parent
  <2>1. CASE SetMark
    BY <2>1 DEF SetMark, TypeOK, Proc
  <2>2. CASE BlockMarked \/ UnblockMarked
    BY <2>2, ProcFields DEF BlockMarked, UnblockMarked, Proc
  <2>3. CASE FinishStart
    BY <2>3, FinishWrites
  <2>4. CASE SameLocks
    BY <2>4 DEF SameLocks
  <2> QED
    BY <2>1, <2>2, <2>3, <2>4, LocksRuns, LocksEnds
<1> QED
  BY <1>1, <1>2, <1>3, <1>4, CoverIdle

(* CoverInv is inductive relative to CoreInv.                               *)
LEMMA CoverStep ==
  ASSUME CoreInv, CoverInv, [Next]_vars
  PROVE  CoverInv'
<1>1. TypeOK'
  BY TypeStep DEF CoreInv
<1>2. CASE \E r \in Root : Run(r)
  BY <1>1, <1>2, CoverRun
<1>3. CASE RunOlder \/ RunBlocked \/ RunScript \/ RunIdle \/ RunDone
  BY <1>1, <1>3, CoverRuns
<1>4. CASE Starting
  BY <1>1, <1>4, CoverStarts
<1>5. CASE DeleteFree
  BY <1>1, <1>5, CoverFree
<1>6. CASE \/ ScriptReturn \/ CmdCall \/ CmdRepeat \/ CallbackReturn
           \/ CallSetRepeat \/ Break \/ BreakEach \/ EndEach \/ CallEndMarked \/ DeleteWalk
           \/ CmdEnd \/ CmdEndIfDuplicate \/ CmdEndDuplicates \/ CallEnd
           \/ EndEachLoop \/ EndMarkedLoop
           \/ SetMark \/ BlockMarked \/ UnblockMarked \/ FinishStart
  BY <1>1, <1>6, CoverCalls
<1>7. CASE UNCHANGED vars
  <2>1. procs' = procs /\ stack' = stack /\ owed' = owed
    BY <1>7 DEF vars
  <2>2. Par' = Par /\ Back' = Back /\ Top' = Top /\ \A q : Live(q)' <=> Live(q)
    BY <2>1 DEF Par, Back, Top, Live
  <2>3. \A q, z : Coming(q, z)' <=> Coming(q, z)
    BY <2>1, <2>2 DEF Coming, Doing
  <2> QED
    BY <2>1, <2>2, <2>3 DEF CoverInv
<1> QED
  BY <1>2, <1>3, <1>4, <1>5, <1>6, <1>7 DEF Next, Starting

(* A traversal visits every proc that was in the tree when it began and is  *)
(* still alive when it ends, whatever its callbacks start, end or reuse.    *)
THEOREM NoProcSkipped ==
  ASSUME Careful
  PROVE  Spec => []EveryProcVisited
<1>1. Init => CoreInv /\ CoverInv
  <2>1. Init => CoverInv
    BY DEF Init, CoverInv
  <2> QED
    BY <2>1, CoreInit
<1>2. CoreInv /\ CoverInv /\ [Next]_vars => (CoreInv /\ CoverInv)'
  BY CoreStep, CoverStep
<1>3. CoreInv /\ CoverInv => EveryProcVisited
  BY CoverNone DEF CoreInv
<1> QED
  BY <1>1, <1>2, <1>3, PTL DEF Spec
==============================================================================
