------------------------------ MODULE ProcSched ------------------------------
(***************************************************************************)
(* The cooperative process scheduler of src/proc.c.                        *)
(*                                                                         *)
(* Every activity of the game is a "proc": a slot of a fixed table, linked *)
(* into a tree, that runs a script of commands and callbacks.  Callbacks   *)
(* run inside the traversal of the tree and may start, end, break and      *)
(* block any proc, the ones being traversed included, so the C call stack  *)
(* is part of the state: a step of the specification is one step of the    *)
(* function on top of `stack'.                                             *)
(*                                                                         *)
(* A script is abstracted to its identity: which command a proc fetches    *)
(* next, and what a callback calls, is a free choice; commands that only   *)
(* move the cursor are stuttering steps.  PROC_SLEEP installs the idle     *)
(* callback UpdateSleep, which is one that may call Proc_Break.            *)
(***************************************************************************)
EXTENDS Integers, Sequences, FiniteSets

CONSTANTS
  NProc,     \* number of slots, MAX_PROC_COUNT in the code
  Root,      \* indices of the trees, gProcTreeRootArray
  Script,    \* scripts a proc can be started with
  Mark,      \* marks a script can set
  Careful,   \* do callers avoid the uses the code does not guard against?
  MaxStarts, \* bound on the number of procs started
  MaxDepth   \* bound on the length of the call stack

Nil  == 0
Slot == 1 .. NProc

ASSUME ProcAssumption ==
  /\ NProc \in 1 .. 255
  /\ Careful \in BOOLEAN
  /\ MaxStarts \in Nat
  /\ MaxDepth \in Nat
  /\ Root \cap (0 .. NProc) = {}
  /\ Nil \notin Script
  /\ Nil \notin Mark

VARIABLES
  procs,      \* the table sProcArray
  freeList,   \* sProcAllocList from sProcAllocListHead on: slots to hand out
  root,       \* newest proc of each tree
  stack,      \* functions being executed, innermost last
  paused,     \* marks whose procs Proc_BlockEachMarked holds up
  owed,       \* history: procs the current traversal has still to visit
  starts      \* number of procs started so far

vars == <<procs, freeList, root, stack, paused, owed, starts>>

Lock == 0 .. 255     \* proc_lockCnt is a u8

Proc == [script : Script \cup {Nil}, parent : Root \cup Slot \cup {Nil},
         child : Slot \cup {Nil}, next : Slot \cup {Nil}, prev : Slot \cup {Nil},
         mark : Mark \cup {Nil}, lock : Lock, idle : BOOLEAN,
         ended : BOOLEAN, blocking : BOOLEAN, starting : BOOLEAN]

(* The functions of proc.c and the place each has reached.  A loop over the *)
(* table carries what it looks for in `at' and the next slot in `p'.        *)
Frame ==
  [fn : {"run"}, at : {"prev", "self", "idle", "ended"}, p : Slot] \cup
  [fn : {"script"}, at : {"fetch"}, p : Slot] \cup
  [fn : {"start"}, at : {"plain", "blocking"}, p : Slot] \cup
  [fn : {"delete"}, at : {"prev", "child", "check", "free"}, p : Slot] \cup
  [fn : {"callback"}, at : {"body"}, p : Slot] \cup
  [fn : {"endEach"}, at : Script, p : 1 .. NProc + 1] \cup
  [fn : {"endMarked"}, at : Mark, p : 1 .. NProc + 1]

(* Every field of every slot, the free list and the call stack have the     *)
(* types proc.h declares.                                                   *)
TypeOK ==
  /\ procs \in [Slot -> Proc]
  /\ freeList \in Seq(Slot)
  /\ root \in [Root -> Slot \cup {Nil}]
  /\ stack \in Seq(Frame)
  /\ paused \subseteq Mark
  /\ owed \subseteq Slot
  /\ starts \in 0 .. MaxStarts

Live(p) == procs[p].script # Nil
-----------------------------------------------------------------------------
(* The call stack. *)

Top         == stack[Len(stack)]
Callers     == SubSeq(stack, 1, Len(stack) - 1)
Doing(f, place) == stack # << >> /\ Top.fn = f /\ Top.at = place
Return      == stack' = Callers
At(place)   == Append(Callers, [Top EXCEPT !.at = place])
Call(frames, f, p, place) ==
  Append(frames, [fn |-> f, at |-> place, p |-> p])

(* Procs with a DeleteProcessRecursive in progress, and a set of procs with *)
(* all the ancestors of its members.                                        *)
Dying == {stack[i].p : i \in {j \in DOMAIN stack : stack[j].fn = "delete"}}

Upward(S) ==
  {q \in Slot : \A C \in SUBSET Slot :
     (S \subseteq C /\ \A x \in C : procs[x].parent \in Slot => procs[x].parent \in C)
       => q \in C}

(* Slots a Proc_Start in progress will write to when its script yields, and *)
(* Proc_EndEachMarked in progress.  Careful excludes uses proc.c does not   *)
(* guard against: a slot held is handed out again; procs get or lose a mark *)
(* while it is blocked; Proc_EndEachMarked runs while a freed slot carries  *)
(* the mark, or, under it, an end callback starts or marks a proc or runs   *)
(* it again (those of the procs the game ends by mark do none of these).    *)
Held     == {stack[i].p : i \in {j \in DOMAIN stack : stack[j].fn = "start"}}
Sweeping == \E i \in DOMAIN stack : stack[i].fn = "endMarked"

(* What callbacks may do while an end callback runs: the game never ends a  *)
(* proc that is being deleted or its ancestors, and starts no child under   *)
(* one.  Outside deletions every live proc qualifies.                       *)
Target == {q \in Slot : Live(q) /\ q \notin Upward(Dying)}
-----------------------------------------------------------------------------
(* Mutant: the terminator of the list is taken for a slot. *)
InitOffByOne ==
  /\ procs = [p \in Slot |->
       [script |-> Nil, parent |-> Nil, child |-> Nil, next |-> Nil, prev |-> Nil,
        mark |-> Nil, lock |-> 0, idle |-> FALSE,
        ended |-> FALSE, blocking |-> FALSE, starting |-> FALSE]]
  /\ freeList = [i \in 1 .. NProc + 1 |-> i]
  /\ root = [r \in Root |-> Nil]
  /\ stack = << >>
  /\ paused = {}
  /\ owed = {}
  /\ starts = 0

(* Proc_Init *)
Init ==
  /\ procs = [p \in Slot |->
       [script |-> Nil, parent |-> Nil, child |-> Nil, next |-> Nil, prev |-> Nil,
        mark |-> Nil, lock |-> 0, idle |-> FALSE,
        ended |-> FALSE, blocking |-> FALSE, starting |-> FALSE]]
  /\ freeList = [i \in 1 .. NProc |-> i]
  /\ root = [r \in Root |-> Nil]
  /\ stack = << >>
  /\ paused = {}
  /\ owed = {}
  /\ starts = 0

Newest(par) == IF par \in Root THEN root[par] ELSE procs[par].child

(* Proc_Start up to the call of RunProcessScript: AllocateProcess takes the *)
(* head of the free list, the fields are reset and the proc becomes the     *)
(* newest child of its parent, or the newest root.                          *)
Start(frames, s, par, kind) ==
  LET p == Head(freeList)
      sibling == Newest(par)
  IN  /\ freeList # << >>
      /\ Careful => p \notin Held /\ ~Sweeping
      /\ starts < MaxStarts /\ starts' = starts + 1
      /\ freeList' = Tail(freeList)
      /\ procs' = [q \in Slot |->
           IF q = p
           THEN [script |-> s, parent |-> par, child |-> Nil, next |-> Nil,
                 prev |-> sibling, mark |-> Nil, lock |-> 0, idle |-> FALSE,
                 ended |-> FALSE, blocking |-> FALSE, starting |-> TRUE]
           ELSE [procs[q] EXCEPT !.next  = IF q = sibling THEN p ELSE @,
                                 !.child = IF q = par THEN p ELSE @]]
      /\ root' = IF par \in Root THEN [root EXCEPT ![par] = p] ELSE root
      /\ owed' = owed \ {p}
      /\ stack' = Call(Call(frames, "start", p, kind), "script", p, "fetch")
      /\ UNCHANGED paused

(* Mutant: Proc_StartBlocking does not look whether the proc ended itself.  *)
FinishStartUnchecked ==
  /\ stack # << >> /\ Top.fn = "start"
  /\ LET p == Top.p
         blocks == Top.at = "blocking"
     IN  procs' = [q \in Slot |-> [procs[q] EXCEPT
           !.starting = IF q = p THEN FALSE ELSE @,
           !.blocking = IF q = p /\ blocks THEN TRUE ELSE @,
           !.lock = IF blocks /\ q = procs[p].parent THEN (@ + 1) % 256 ELSE @]]
  /\ Return
  /\ UNCHANGED <<freeList, root, owed, starts, paused>>

(* The rest of Proc_Start and Proc_StartBlocking.  A root parent has no     *)
(* lock count.                                                              *)
FinishStart ==
  /\ stack # << >> /\ Top.fn = "start"
  /\ LET p == Top.p
         blocks == Top.at = "blocking" /\ Live(p)
     IN  procs' = [q \in Slot |-> [procs[q] EXCEPT
           !.starting = IF q = p THEN FALSE ELSE @,
           !.blocking = IF q = p /\ blocks THEN TRUE ELSE @,
           !.lock = IF blocks /\ q = procs[p].parent THEN (@ + 1) % 256 ELSE @]]
  /\ Return
  /\ UNCHANGED <<freeList, root, owed, starts, paused>>

(* Mutant: the newer sibling keeps pointing at the unlinked proc. *)
UnlinkedOneWay(p) ==
  LET d == procs[p]
  IN  [q \in Slot |-> [procs[q] EXCEPT
         !.prev  = IF q = p THEN Nil ELSE @,
         !.next  = IF q = p THEN Nil ELSE IF q = d.prev THEN d.next ELSE @,
         !.child = IF q = d.parent /\ @ = p THEN d.prev ELSE @]]

(* UnlinkProcess *)
Unlinked(p) ==
  LET d == procs[p]
  IN  [q \in Slot |-> [procs[q] EXCEPT
         !.prev  = IF q = p THEN Nil ELSE IF q = d.next THEN d.prev ELSE @,
         !.next  = IF q = p THEN Nil ELSE IF q = d.prev THEN d.next ELSE @,
         !.child = IF q = d.parent /\ @ = p THEN d.prev ELSE @]]

UnlinkedRootKept(p) == root    \* mutant: the tree keeps an ended newest proc

UnlinkedRoot(p) ==
  LET d == procs[p]
  IN  [r \in Root |-> IF r = d.parent /\ root[r] = p THEN d.prev ELSE root[r]]

(* Proc_End up to the call of DeleteProcessRecursive *)
End(frames, p) ==
  /\ procs' = Unlinked(p)
  /\ root' = UnlinkedRoot(p)
  /\ stack' = Call(frames, "delete", p, "prev")
  /\ UNCHANGED <<freeList, owed, starts, paused>>
-----------------------------------------------------------------------------
(* DeleteProcessRecursive: older siblings, children, then the proc itself,  *)
(* whose end callback runs before the slot is freed.                        *)
DeleteWalk ==
  /\ stack # << >> /\ Top.fn = "delete" /\ Top.at # "free"
  /\ LET d     == procs[Top.p]
         older == IF Top.at = "prev" THEN d.prev ELSE Nil
         child == IF Top.at # "check" THEN d.child ELSE Nil
     IN  stack' = CASE older # Nil -> Call(At("child"), "delete", older, "prev")
                    [] older = Nil /\ child # Nil -> Call(At("check"), "delete", child, "prev")
                    [] older = Nil /\ child = Nil /\ d.ended -> Callers
                    [] OTHER -> Call(At("free"), "callback", Top.p, "body")
  /\ UNCHANGED <<procs, freeList, root, owed, starts, paused>>

(* Mutants: the script survives; the parent is not released. *)
DeleteFreeKeepsScript ==
  /\ Doing("delete", "free")
  /\ LET p == Top.p
         d == procs[p]
     IN  /\ freeList' = <<p>> \o freeList
         /\ procs' = [q \in Slot |-> [procs[q] EXCEPT
              !.idle   = IF q = p THEN FALSE ELSE @,
              !.ended  = IF q = p THEN TRUE ELSE @,
              !.lock   = IF d.blocking /\ q = d.parent THEN (@ + 255) % 256 ELSE @]]
         /\ owed' = owed \ {p}
  /\ Return
  /\ UNCHANGED <<root, starts, paused>>

DeleteFreeKeepsLock ==
  /\ Doing("delete", "free")
  /\ LET p == Top.p
     IN  /\ freeList' = <<p>> \o freeList
         /\ procs' = [procs EXCEPT ![p].script = Nil, ![p].idle = FALSE, ![p].ended = TRUE]
         /\ owed' = owed \ {p}
  /\ Return
  /\ UNCHANGED <<root, starts, paused>>

(* FreeProcess and what follows it *)
DeleteFree ==
  /\ Doing("delete", "free")
  /\ LET p == Top.p
         d == procs[p]
     IN  /\ freeList' = <<p>> \o freeList
         /\ procs' = [q \in Slot |-> [procs[q] EXCEPT
              !.script = IF q = p THEN Nil ELSE @,
              !.idle   = IF q = p THEN FALSE ELSE @,
              !.ended  = IF q = p THEN TRUE ELSE @,
              !.lock   = IF d.blocking /\ q = d.parent THEN (@ + 255) % 256 ELSE @]]
         /\ owed' = owed \ {p}
  /\ Return
  /\ UNCHANGED <<root, starts, paused>>
-----------------------------------------------------------------------------
(* RunProcessRecursive.  The frame keeps the slot it was called with while  *)
(* older siblings run.                                                      *)

RunOlder ==
  /\ Doing("run", "prev")
  /\ procs[Top.p].prev # Nil
  /\ stack' = Call(At("self"), "run", procs[Top.p].prev, "prev")
  /\ UNCHANGED <<procs, freeList, root, owed, starts, paused>>

ItsTurn == Doing("run", "self") \/ (Doing("run", "prev") /\ procs[Top.p].prev = Nil)
Blocked(p) == procs[p].lock # 0 \/ procs[p].starting

RunChildren(p) == stack' = IF procs[p].child = Nil THEN Callers
                           ELSE Call(Callers, "run", procs[p].child, "prev")
Visited(p) == owed' = owed \ {p}

(* Mutant: a blocked proc hides its children from the traversal. *)
RunBlockedSkipsTree ==
  /\ ItsTurn
  /\ Blocked(Top.p)
  /\ Return
  /\ Visited(Top.p)
  /\ UNCHANGED <<procs, freeList, root, starts, paused>>

RunBlocked ==
  /\ ItsTurn
  /\ Blocked(Top.p)
  /\ RunChildren(Top.p)
  /\ Visited(Top.p)
  /\ UNCHANGED <<procs, freeList, root, starts, paused>>

RunScript ==
  /\ ItsTurn
  /\ ~Blocked(Top.p) /\ ~procs[Top.p].idle
  /\ stack' = Call(At("idle"), "script", Top.p, "fetch")
  /\ Visited(Top.p)
  /\ UNCHANGED <<procs, freeList, root, starts, paused>>

RunIdle ==      \* the script may just have installed the idle callback
  /\ Doing("run", "idle") \/ (ItsTurn /\ ~Blocked(Top.p))
  /\ procs[Top.p].idle
  /\ stack' = Call(At("ended"), "callback", Top.p, "body")
  /\ Visited(Top.p)
  /\ UNCHANGED <<procs, freeList, root, starts, paused>>

RunDone ==
  /\ Doing("run", "ended") \/ (Doing("run", "idle") /\ ~procs[Top.p].idle)
  /\ IF procs[Top.p].ended THEN Return ELSE RunChildren(Top.p)
  /\ UNCHANGED <<procs, freeList, root, owed, starts, paused>>
-----------------------------------------------------------------------------
(* RunProcessScript: fetch and execute commands until one of them yields or *)
(* the proc has ended.  A command that returns FALSE leaves the loop, so    *)
(* its frame is gone before the functions it calls are entered.             *)

Fetching == Doing("script", "fetch") /\ Live(Top.p) /\ Len(stack) <= MaxDepth

InCallback == Doing("callback", "body") /\ Len(stack) <= MaxDepth

ScriptReturn ==     \* the proc ended, or PROC_BLOCK, PROC_YIELD, PROC_WHILE_EXISTS
  /\ Doing("script", "fetch")
  /\ Return
  /\ UNCHANGED <<procs, freeList, root, owed, starts, paused>>

CmdEnd ==           \* PROC_END
  /\ Fetching
  /\ End(Callers, Top.p)

CmdCall ==          \* PROC_CALL, and PROC_CALL_2, PROC_CALL_ARG, PROC_WHILE
  /\ Fetching
  /\ \E frames \in {stack, Callers} :
       stack' = Call(frames, "callback", Top.p, "body")
  /\ UNCHANGED <<procs, freeList, root, owed, starts, paused>>

CmdRepeat ==        \* PROC_REPEAT, PROC_SLEEP
  /\ Fetching
  /\ procs' = [procs EXCEPT ![Top.p].idle = TRUE]
  /\ Return
  /\ UNCHANGED <<freeList, root, owed, starts, paused>>

CmdStart ==         \* PROC_START_CHILD, PROC_START_CHILD_BLOCKING, PROC_START_MAIN_BUGGED
  /\ Fetching
  /\ \E s \in Script :
       \/ Start(stack, s, Top.p, "plain")
       \/ Start(Callers, s, Top.p, "blocking")
       \/ \E r \in Root : Start(stack, s, r, "plain")

SetMark ==          \* PROC_MARK, Proc_SetMark
  /\ \E m \in Mark, q \in Slot :
       /\ (Fetching /\ q = Top.p) \/ (InCallback /\ Live(q))
       /\ Careful => ~Sweeping /\ paused \cap {m, procs[q].mark} = {}
       /\ procs' = [procs EXCEPT ![q].mark = m]
  /\ UNCHANGED <<freeList, root, stack, owed, starts, paused>>

SameScript(p) == {q \in Slot \ {p} : procs[q].script = procs[p].script}

CmdEndIfDuplicate ==
  /\ Fetching
  /\ SameScript(Top.p) # {}
  /\ End(Callers, Top.p)

CmdEndDuplicates == \* ends the first duplicate only
  /\ Fetching
  /\ \E q \in SameScript(Top.p) \cap Target :
       /\ \A x \in SameScript(Top.p) : q <= x
       /\ End(stack, q)
-----------------------------------------------------------------------------
(* The loops over the table: Proc_EndEach and Proc_EndEachMarked.  The      *)
(* latter does not look whether the slot holds a live proc.                 *)

LoopEnd(matching) ==
  LET todo == {q \in matching : q >= Top.p}
  IN  \/ /\ todo = {}
         /\ Return
         /\ UNCHANGED <<procs, freeList, root, owed, starts, paused>>
      \/ \E q \in todo :
           /\ \A x \in todo : q <= x
           /\ End(Append(Callers, [Top EXCEPT !.p = q + 1]), q)

EndEachLoop ==
  /\ stack # << >> /\ Top.fn = "endEach"
  /\ LoopEnd({q \in Slot : procs[q].script = Top.at})

EndMarkedLoop ==
  /\ stack # << >> /\ Top.fn = "endMarked"
  /\ LoopEnd({q \in Slot : procs[q].mark = Top.at})
-----------------------------------------------------------------------------
(* What a callback may do. *)

CallbackReturn ==
  /\ Doing("callback", "body")
  /\ Return
  /\ UNCHANGED <<procs, freeList, root, owed, starts, paused>>

CallStart ==        \* Proc_Start, Proc_StartBlocking
  /\ InCallback
  /\ \E s \in Script, par \in Root \cup Target, kind \in {"plain", "blocking"} :
       Start(stack, s, par, kind)

CallEnd ==          \* Proc_End
  /\ InCallback
  /\ \E q \in Target : End(stack, q)

(* Proc_Break, Proc_Goto, Proc_GotoScript; PROC_GOTO and PROC_JUMP *)
Break ==
  /\ \E q \in Slot :
       /\ InCallback \/ (Fetching /\ q = Top.p)
       /\ Live(q) /\ procs[q].idle
       /\ procs' = [procs EXCEPT ![q].idle = FALSE]
  /\ UNCHANGED <<freeList, root, stack, owed, starts, paused>>

CallSetRepeat ==    \* Proc_SetRepeatCb
  /\ InCallback
  /\ \E q \in Slot :
       /\ Live(q) /\ ~procs[q].idle
       /\ procs' = [procs EXCEPT ![q].idle = TRUE]
  /\ UNCHANGED <<freeList, root, stack, owed, starts, paused>>

EndEach ==          \* Proc_EndEach, PROC_END_EACH
  /\ InCallback \/ Fetching
  /\ \E s \in Script :
       /\ \A q \in Upward(Dying) : procs[q].script # s
       /\ stack' = Call(stack, "endEach", 1, s)
  /\ UNCHANGED <<procs, freeList, root, owed, starts, paused>>

BreakEach ==        \* Proc_BreakEach, PROC_BREAK_EACH
  /\ InCallback \/ Fetching
  /\ \E s \in Script :
       procs' = [q \in Slot |-> [procs[q] EXCEPT
                  !.idle = IF procs[q].script = s THEN FALSE ELSE @]]
  /\ UNCHANGED <<freeList, root, stack, owed, starts, paused>>

CallEndMarked ==    \* Proc_EndEachMarked
  /\ InCallback
  /\ \E m \in Mark :
       /\ \A q \in Upward(Dying) : procs[q].mark # m
       /\ Careful => ~Sweeping /\ \A q \in Slot : procs[q].mark = m => Live(q)
       /\ stack' = Call(stack, "endMarked", 1, m)
  /\ UNCHANGED <<procs, freeList, root, owed, starts, paused>>

(* Proc_BlockEachMarked and Proc_UnblockEachMarked come in pairs and are    *)
(* not nested (BMapDispSuspend counts).  They count up and down in every    *)
(* slot that carries the mark, freed ones included.                         *)
BlockMarked ==
  /\ InCallback
  /\ \E m \in Mark \ paused :
       /\ paused' = paused \cup {m}
       /\ procs' = [q \in Slot |-> [procs[q] EXCEPT
                      !.lock = IF procs[q].mark = m THEN (@ + 1) % 256 ELSE @]]
  /\ UNCHANGED <<freeList, root, stack, owed, starts>>

UnblockMarked ==
  /\ InCallback
  /\ \E m \in paused :
       /\ paused' = paused \ {m}
       /\ procs' = [q \in Slot |-> [procs[q] EXCEPT
                      !.lock = IF procs[q].mark = m /\ @ > 0 THEN @ - 1 ELSE @]]
  /\ UNCHANGED <<freeList, root, stack, owed, starts>>
-----------------------------------------------------------------------------
(* Proc_Run(gProcTreeRootArray[r]), called by the main loop *)
InTree(r) == {q \in Slot : Live(q) /\ \E x \in Upward({q}) : procs[x].parent = r}

Run(r) ==
  /\ stack = << >>
  /\ stack' = IF root[r] = Nil THEN << >> ELSE Call(<< >>, "run", root[r], "prev")
  /\ owed' = InTree(r)
  /\ UNCHANGED <<procs, freeList, root, starts, paused>>

(* Code outside every proc (AgbMain, the start of a game) starts trees. *)
Boot(s, r) ==
  /\ stack = << >>
  /\ Start(<< >>, s, r, "plain")

Next ==
  \/ \E r \in Root : Run(r) \/ \E s \in Script : Boot(s, r)
  \/ FinishStart
  \/ DeleteWalk \/ DeleteFree
  \/ RunOlder \/ RunBlocked \/ RunScript \/ RunIdle \/ RunDone
  \/ ScriptReturn \/ CmdEnd \/ CmdCall \/ CmdRepeat \/ CmdStart
  \/ CmdEndIfDuplicate \/ CmdEndDuplicates
  \/ EndEachLoop \/ EndMarkedLoop
  \/ CallbackReturn \/ CallStart \/ CallEnd \/ CallSetRepeat \/ CallEndMarked
  \/ Break \/ BreakEach \/ EndEach \/ SetMark \/ BlockMarked \/ UnblockMarked

Spec == Init /\ [][Next]_vars
-----------------------------------------------------------------------------
(* The free list holds every slot without a script exactly once: no proc is *)
(* freed twice and none leaks, however deletions nest through end           *)
(* callbacks (AllocateProcess and FreeProcess check nothing).               *)
FreeListExact ==
  /\ \A i, j \in DOMAIN freeList : i # j => freeList[i] # freeList[j]
  /\ {freeList[i] : i \in DOMAIN freeList} = {p \in Slot : ~Live(p)}

(* proc_lockCnt counts the live blocking children of a proc, and            *)
(* Proc_BlockEachMarked: the increment in Proc_StartBlocking and the        *)
(* decrement in DeleteProcessRecursive match although the child may end, or *)
(* its parent may, before Proc_StartBlocking returns.                       *)
Blockers(p) == {q \in Slot : Live(q) /\ procs[q].blocking /\ procs[q].parent = p}

LocksCountBlockers ==
  \A p \in Slot : Live(p) =>
    procs[p].lock = Cardinality(Blockers(p))
                      + (IF procs[p].mark \in paused THEN 1 ELSE 0)

(* Outside a deletion every live proc is in its tree: its parent is a root  *)
(* or alive, sibling links agree in both directions, and the list starts at *)
(* the newest child.  A proc off its list would never run nor end again.    *)
WellLinked ==
  Dying = {} =>
    \A p \in Slot : Live(p) =>
      LET d == procs[p]
      IN  /\ d.parent \in Root \/ (d.parent \in Slot /\ Live(d.parent))
          /\ \A q \in {d.prev, d.next} \ {Nil} : Live(q) /\ procs[q].parent = d.parent
          /\ d.prev # Nil => procs[d.prev].next = p
          /\ d.next # Nil => procs[d.next].prev = p
          /\ d.next = Nil <=> Newest(d.parent) = p

(* A traversal reaches every proc that was in the tree when it began and is *)
(* still alive when it ends, although procs start, end and reuse slots      *)
(* under it.                                                                *)
EveryProcVisited == stack = << >> => owed = {}
=============================================================================
