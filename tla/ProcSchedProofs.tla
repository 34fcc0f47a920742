--------------------------- MODULE ProcSchedProofs ---------------------------
(***************************************************************************)
(* The table, the free list and the trees of ProcSched, for any number of  *)
(* slots, trees, scripts and marks and any depth of calls.                 *)
(*                                                                         *)
(* FreeListExact and WellLinked are not inductive: while a deletion runs,  *)
(* the lists are not whole, and end callbacks run code that may change     *)
(* them further.  What is invariant is a relation between the trees and    *)
(* the call stack.  A list stays whole while somebody may still use it:    *)
(* that of every proc but those DeleteProcessRecursive has left for good   *)
(* (ListOK, Open).  Of the others it is known what the frames on the stack *)
(* will still read (RestOK, HeadOK), that no frame refers to what the      *)
(* frames below it delete (FramesOK), and that Proc_EndEachMarked, which   *)
(* also ends slots that are free already, finds nothing of value there     *)
(* (GravesOK).                                                             *)
(***************************************************************************)
EXTENDS ProcSched, FiniteSetTheorems, SequenceTheorems, TLAPS

(* Members of Slot reached from S by following f. *)
Reach(f, S) ==
  {q \in Slot : \A C \in SUBSET Slot :
     (S \cap Slot \subseteq C /\ \A x \in C : f[x] \in Slot => f[x] \in C) => q \in C}

Par  == [p \in Slot |-> procs[p].parent]
Back == [p \in Slot |-> procs[p].prev]

(* Live procs being deleted by the frames below the i-th, and by any frame. *)
Dies(i)  == stack[i].fn = "delete" /\ Live(stack[i].p)
Under(i) == {stack[k].p : k \in {j \in DOMAIN stack : j < i /\ Dies(j)}}
Doomed   == {stack[k].p : k \in {j \in DOMAIN stack : Dies(j)}}

(* Those whose child pointer is not read again. *)
Closing == {stack[k].p : k \in {j \in DOMAIN stack : Dies(j) /\ stack[j].at \in {"check", "free"}}}

Kids(par) == {q \in Slot : Live(q) /\ procs[q].parent = par /\ q \notin Doomed}

(* A live proc hangs in a tree. *)
TreeOK ==
  \A p \in Slot : Live(p) =>
    /\ ~procs[p].ended
    /\ procs[p].parent \in Root \/ (procs[p].parent \in Slot /\ Live(procs[p].parent))
    /\ p \notin Reach(Par, {procs[p].parent})

(* The list of children that end callbacks and traversals may still use. *)
ListOK(par) ==
  /\ IF Newest(par) = Nil THEN Kids(par) = {} ELSE Newest(par) \in Kids(par)
  /\ \A q \in Kids(par) :
       /\ procs[q].prev \in Kids(par) \cup {Nil}
       /\ procs[q].next \in Kids(par) \cup {Nil}
       /\ procs[q].prev # Nil => procs[procs[q].prev].next = q
       /\ procs[q].next # Nil => procs[procs[q].next].prev = q
       /\ procs[q].next = Nil <=> Newest(par) = q
       /\ q \in Reach(Back, {Newest(par)})

Open == Root \cup {p \in Slot : Live(p) /\ p \notin Closing}

(* What is left of the list DeleteProcessRecursive walks.                   *)
RestOK ==
  \A par \in Closing, q \in Slot : q \in Kids(par) =>
    /\ Doing("delete", "prev") /\ procs[Top.p].parent = par
    /\ q \in Reach(Back, {Top.p})
    /\ q \notin Reach(Par, Doomed)
    /\ procs[q].prev \in Kids(par) \cup {Nil}
    /\ procs[q].prev # Nil => procs[procs[q].prev].next = q

HeadOK ==
  Doing("delete", "prev") /\ Live(Top.p) /\ procs[Top.p].prev # Nil =>
    /\ procs[Top.p].parent \in Closing
    /\ procs[Top.p].prev \in Kids(procs[Top.p].parent)
    /\ procs[procs[Top.p].prev].next = Top.p

FrameOK(i) ==
  LET f == stack[i]
      A == Reach(Par, Under(i))
  IN  /\ f.fn = "delete" => (Live(f.p) => f.p \notin A) /\ (i < Len(stack) => f.at # "prev")
      /\ f.fn = "script" => f.p \notin A
      /\ f.fn = "endEach" => \A q \in A : procs[q].script # f.at
      /\ f.fn = "endMarked" => \A q \in A : procs[q].mark # f.at
      /\ f.fn = "run" => \A j \in DOMAIN stack : j < i => stack[j].fn = "run"

FramesOK == \A i \in DOMAIN stack : FrameOK(i)

(* Slots freed since Proc_EndEachMarked began: no link of theirs leads to a *)
(* proc that lives on.                                                      *)
Above(i) == {stack[j].p : j \in {k \in DOMAIN stack : k > i /\ stack[k].fn = "delete"}}
Grave(K, i) ==
  LET Dead == K \cup {Nil} \cup Above(i)
  IN  /\ \A k \in K : ~Live(k) /\ procs[k].ended
                      /\ {procs[k].child, procs[k].prev, procs[k].next} \subseteq Dead
      /\ \A q \in Slot : ~Live(q) /\ procs[q].mark = stack[i].at => q \in K
      /\ \A j \in DOMAIN stack :
           /\ stack[j].fn = "endMarked" => j = i
           /\ j > i /\ stack[j].fn = "delete" =>
              /\ ~Live(stack[j].p) => stack[j].p \in K
              /\ Live(stack[j].p) =>
                   /\ procs[stack[j].p].next \in Dead
                   /\ stack[j].at # "prev" => procs[stack[j].p].prev \in Dead
                   /\ stack[j].at \in {"check", "free"} => procs[stack[j].p].child \in Dead
GravesOK ==
  /\ \A i \in DOMAIN stack : stack[i].fn = "endMarked" => \E K \in SUBSET Slot : Grave(K, i)
  /\ \A i \in DOMAIN stack : stack[i].fn = "delete" /\ ~Live(stack[i].p) =>
       /\ stack[i].at # "free"
       /\ \E j \in DOMAIN stack :
            /\ j < i /\ stack[j].fn = "endMarked"
            /\ \A k \in DOMAIN stack : k > j => stack[k].fn = "delete" /\ ~Live(stack[k].p)

CoreInv ==
  /\ TypeOK /\ FreeListExact /\ TreeOK /\ (\A par \in Open : ListOK(par))
  /\ RestOK /\ HeadOK /\ FramesOK /\ GravesOK
-----------------------------------------------------------------------------
(* What Reach reaches. *)

(* Slots are numbers, none of them Nil or the number of a tree. *)
LEMMA Slots ==
  /\ Slot \subseteq Nat /\ Nil \notin Slot /\ Root \cap Slot = {} /\ Nil \notin Root
  /\ Nil \notin Script /\ Nil \notin Mark
BY ProcAssumption DEF Slot, Nil

(* What is reached are slots, those of S among them.                        *)
LEMMA ReachBase ==
  ASSUME NEW f, NEW S
  PROVE  Reach(f, S) \subseteq Slot /\ S \cap Slot \subseteq Reach(f, S)
BY DEF Reach

(* What is reached is closed under f.                                       *)
LEMMA ReachStep ==
  ASSUME NEW f, NEW S, NEW q \in Reach(f, S), f[q] \in Slot
  PROVE  f[q] \in Reach(f, S)
BY DEF Reach

(* Every set that contains S and is closed under f contains what is         *)
(* reached: the form in which every fact about reachable slots is proved.   *)
LEMMA ReachLeast ==
  ASSUME NEW f, NEW S, NEW C, S \cap Slot \subseteq C,
         \A x \in C \cap Reach(f, S) : f[x] \in Slot => f[x] \in C
  PROVE  Reach(f, S) \subseteq C
<1> DEFINE D == C \cap Reach(f, S)
<1>1. D \in SUBSET Slot /\ S \cap Slot \subseteq D
  BY ReachBase
<1>2. \A x \in D : f[x] \in Slot => f[x] \in D
  BY ReachStep
<1>3. Reach(f, S) \subseteq D
  BY <1>1, <1>2 DEF Reach
<1> QED
  BY <1>3

(* Following f from what is reached reaches nothing new. *)
LEMMA ReachTrans ==
  ASSUME NEW f, NEW S, NEW T, S \cap Slot \subseteq Reach(f, T)
  PROVE  Reach(f, S) \subseteq Reach(f, T)
<1>1. \A x \in Reach(f, T) : f[x] \in Slot => f[x] \in Reach(f, T)
  BY ReachStep
<1> QED
  BY <1>1, ReachLeast

(* What is reached from two sets is reached from one of them.               *)
LEMMA ReachUnion ==
  ASSUME NEW f, NEW S, NEW T
  PROVE  Reach(f, S \cup T) = Reach(f, S) \cup Reach(f, T)
<1> DEFINE C == Reach(f, S) \cup Reach(f, T)
<1>1. (S \cup T) \cap Slot \subseteq C
  BY ReachBase
<1>2. \A x \in C : f[x] \in Slot => f[x] \in C
  BY ReachStep
<1>3. Reach(f, S \cup T) \subseteq C
  BY <1>1, <1>2, ReachLeast
<1>4. S \cap Slot \subseteq Reach(f, S \cup T) /\ T \cap Slot \subseteq Reach(f, S \cup T)
  BY ReachBase
<1>5. Reach(f, S) \subseteq Reach(f, S \cup T) /\ Reach(f, T) \subseteq Reach(f, S \cup T)
  BY <1>4, ReachTrans
<1> QED
  BY <1>3, <1>5

(* Whatever is reached from q is q or is reached from where q leads. *)
LEMMA ReachTail ==
  ASSUME NEW f, NEW q, NEW z \in Reach(f, {q}), z # q
  PROVE  z \in Reach(f, {f[q]})
<1> DEFINE C == {q} \cup Reach(f, {f[q]})
<1>1. \A x \in C : f[x] \in Slot => f[x] \in C
  BY ReachBase, ReachStep
<1>2. {q} \cap Slot \subseteq C /\ (z \in C => z \in Reach(f, {f[q]}))
  OBVIOUS
<1> HIDE DEF C
<1>3. Reach(f, {q}) \subseteq C
  BY <1>1, <1>2, ReachLeast
<1> QED
  BY <1>2, <1>3

(* What is reached from a slot is the slot and what is reached from where   *)
(* it leads.                                                                *)
LEMMA ReachHead ==
  ASSUME NEW f, NEW q \in Slot
  PROVE  Reach(f, {q}) = {q} \cup Reach(f, {f[q]})
<1>1. q \in Reach(f, {q})
  BY ReachBase
<1>2. {f[q]} \cap Slot \subseteq Reach(f, {q})
  BY <1>1, ReachStep
<1>3. Reach(f, {f[q]}) \subseteq Reach(f, {q})
  BY <1>2, ReachTrans
<1> QED
  BY <1>1, <1>3, ReachTail

(* Whatever is reached from q other than q is where a slot reached leads. *)
LEMMA ReachLast ==
  ASSUME NEW f, NEW q, NEW z \in Reach(f, {q}), z # q
  PROVE  \E c \in Reach(f, {q}) : c # z /\ f[c] = z
<1> SUFFICES ASSUME \A c \in Reach(f, {q}) : c # z => f[c] # z PROVE FALSE
  OBVIOUS
<1> DEFINE C == Reach(f, {q}) \ {z}
<1>1. {q} \cap Slot \subseteq C
  BY ReachBase
<1>2. \A x \in C : f[x] \in Slot => f[x] \in C
  BY ReachStep
<1>3. z \notin C
  OBVIOUS
<1> HIDE DEF C
<1>4. Reach(f, {q}) \subseteq C
  BY <1>1, <1>2, ReachLeast
<1> QED
  BY <1>3, <1>4

(* The same of the list that starts at m. *)
LEMMA BackLast ==
  ASSUME NEW m, NEW z \in Reach(Back, {m}), z # m
  PROVE  \E c \in Reach(Back, {m}) : c # z /\ Back[c] = z
BY ReachLast

(* What is reached depends on what the slots reached hold only. *)
LEMMA ReachSame ==
  ASSUME NEW f, NEW g, NEW S, \A x \in Reach(f, S) : g[x] = f[x]
  PROVE  Reach(g, S) = Reach(f, S)
<1>1. \A x \in Reach(f, S) : g[x] \in Slot => g[x] \in Reach(f, S)
  BY ReachStep
<1>2. Reach(g, S) \subseteq Reach(f, S)
  BY <1>1, ReachBase, ReachLeast
<1>3. \A x \in Reach(g, S) : f[x] \in Slot => f[x] \in Reach(g, S)
  BY <1>2, ReachStep
<1>4. Reach(f, S) \subseteq Reach(g, S)
  BY <1>3, ReachBase, ReachLeast
<1> QED
  BY <1>2, <1>4

(* Taking q out of the list that starts at n loses no other member. *)
LEMMA ReachCut ==
  ASSUME NEW f, NEW g, NEW n, NEW q \in Slot, NEW m,
         m = IF n = q THEN f[q] ELSE n,
         \A x \in Reach(f, {n}) \ {q} : g[x] = IF f[x] = q THEN f[q] ELSE f[x]
  PROVE  Reach(f, {n}) \ {q} \subseteq Reach(g, {m})
<1> SUFFICES ASSUME NEW C, {m} \cap Slot \subseteq C, C \subseteq Slot,
                    \A x \in C : g[x] \in Slot => g[x] \in C
             PROVE  Reach(f, {n}) \ {q} \subseteq C
  <2>1. Reach(g, {m}) \subseteq Slot /\ {m} \cap Slot \subseteq Reach(g, {m})
    BY ReachBase
  <2>2. \A x \in Reach(g, {m}) : g[x] \in Slot => g[x] \in Reach(g, {m})
    BY ReachStep
  <2> QED
    BY <2>1, <2>2
<1> DEFINE R == Reach(f, {n})
<1>1. R \subseteq Slot /\ {n} \cap Slot \subseteq R
  BY ReachBase
<1>2. \A x \in R : f[x] \in Slot => f[x] \in R
  BY ReachStep
<1>3. CASE f[q] \in Slot => f[q] \in C
  <2> DEFINE D == C \cup {q}
  <2>1. {n} \cap Slot \subseteq D
    OBVIOUS
  <2>2. ASSUME NEW x \in D \cap Reach(f, {n}), f[x] \in Slot PROVE f[x] \in D
    <3>1. CASE x = q
      BY <1>3, <2>2, <3>1
    <3>2. CASE x # q
      BY <2>2, <3>2
    <3> QED
      BY <3>1, <3>2
  <2>3. Reach(f, {n}) \subseteq D
    BY <2>1, <2>2, ReachLeast
  <2> QED
    BY <2>3
<1>4. CASE f[q] \in Slot /\ f[q] \notin C
  <2> DEFINE D == C \ {q}
  <2>1. {n} \cap Slot \subseteq D
    BY <1>4
  <2>2. ASSUME NEW x \in D \cap Reach(f, {n}), f[x] \in Slot PROVE f[x] \in D
    <3>1. x \in C /\ x # q /\ x \in R
      BY <2>2
    <3>2. g[x] = IF f[x] = q THEN f[q] ELSE f[x]
      BY <3>1
    <3>3. f[x] # q
      BY <1>4, <3>1, <3>2
    <3> QED
      BY <2>2, <3>1, <3>2, <3>3
  <2>3. Reach(f, {n}) \subseteq D
    BY <2>1, <2>2, ReachLeast
  <2> QED
    BY <2>3
<1> QED
  BY <1>3, <1>4
-----------------------------------------------------------------------------
(* The call stack, frame by frame. *)

(* A stack that is not empty is its callers and its top.                    *)
LEMMA StackTop ==
  ASSUME TypeOK, stack # << >>
  PROVE  /\ Len(stack) \in Nat \ {0} /\ DOMAIN stack = 1 .. Len(stack)
         /\ Top = stack[Len(stack)] /\ Top \in Frame
         /\ Callers \in Seq(Frame) /\ Len(Callers) = Len(stack) - 1
         /\ \A i \in 1 .. Len(stack) - 1 : Callers[i] = stack[i]
<1>1. stack \in Seq(Frame) /\ Len(stack) \in Nat \ {0} /\ DOMAIN stack = 1 .. Len(stack)
  BY EmptySeq, LenProperties DEF TypeOK
<1>2. Top \in Frame
  BY <1>1, ElementOfSeq DEF Top
<1>3. /\ Callers \in Seq(Frame) /\ Len(Callers) = Len(stack) - 1
      /\ \A i \in 1 .. Len(stack) - 1 : Callers[i] = stack[i]
  BY <1>1, SubSeqProperties DEF Callers
<1> QED
  BY <1>1, <1>2, <1>3 DEF Top

(* Pushing a frame leaves the others where they are.                        *)
LEMMA FramesIn ==
  ASSUME NEW s \in Seq(Frame), NEW f \in Frame
  PROVE  /\ Append(s, f) \in Seq(Frame) /\ Len(Append(s, f)) = Len(s) + 1 /\ Len(s) \in Nat
         /\ \A i \in 1 .. Len(s) : Append(s, f)[i] = s[i]
         /\ Append(s, f)[Len(s) + 1] = f
         /\ DOMAIN Append(s, f) = 1 .. Len(s) + 1
BY AppendProperties, LenProperties

(* The frames the functions push. *)
LEMMA NewFrames ==
  ASSUME NEW p \in Slot
  PROVE  /\ \A a \in {"prev", "self", "idle", "ended"} : [fn |-> "run", at |-> a, p |-> p] \in Frame
         /\ [fn |-> "script", at |-> "fetch", p |-> p] \in Frame
         /\ \A a \in {"plain", "blocking"} : [fn |-> "start", at |-> a, p |-> p] \in Frame
         /\ \A a \in {"prev", "child", "check", "free"} :
              [fn |-> "delete", at |-> a, p |-> p] \in Frame
         /\ [fn |-> "callback", at |-> "body", p |-> p] \in Frame
BY DEF Frame

(* The loops over the table have frames for every slot and for the end of   *)
(* the table.                                                               *)
LEMMA LoopFrames ==
  /\ \A s \in Script, q \in 1 .. NProc + 1 : [fn |-> "endEach", at |-> s, p |-> q] \in Frame
  /\ \A m \in Mark, q \in 1 .. NProc + 1 : [fn |-> "endMarked", at |-> m, p |-> q] \in Frame
BY DEF Frame

(* What a frame's function says about its other fields. *)
LEMMA FrameShape ==
  ASSUME NEW f \in Frame
  PROVE  /\ f = [fn |-> f.fn, at |-> f.at, p |-> f.p]
         /\ f.fn \in {"run", "script", "start", "delete", "callback"} => f.p \in Slot
         /\ f.fn \in {"run", "script", "start", "delete", "callback", "endEach", "endMarked"}
         /\ f.fn = "run" => f.at \in {"prev", "self", "idle", "ended"}
         /\ f.fn = "start" => f.at \in {"plain", "blocking"}
         /\ f.fn = "delete" => f.at \in {"prev", "child", "check", "free"}
         /\ f.fn = "script" => f.at = "fetch"
         /\ f.fn = "callback" => f.at = "body"
         /\ f.fn = "endEach" => f.at \in Script /\ f.p \in 1 .. NProc + 1
         /\ f.fn = "endMarked" => f.at \in Mark /\ f.p \in 1 .. NProc + 1
BY DEF Frame

(* The function on top moves on. *)
LEMMA Moved ==
  ASSUME TypeOK, stack # << >>, NEW a
  PROVE  /\ [Top EXCEPT !.at = a] = [fn |-> Top.fn, at |-> a, p |-> Top.p]
         /\ At(a) = Append(Callers, [fn |-> Top.fn, at |-> a, p |-> Top.p])
<1>1. Top = [fn |-> Top.fn, at |-> Top.at, p |-> Top.p]
  BY StackTop, FrameShape
<1> QED
  BY <1>1 DEF At

(* A loop that moves on changes the slot of its frame only.                 *)
LEMMA Bumped ==
  ASSUME TypeOK, stack # << >>, NEW q
  PROVE  [Top EXCEPT !.p = q] = [fn |-> Top.fn, at |-> Top.at, p |-> q]
<1>1. Top = [fn |-> Top.fn, at |-> Top.at, p |-> Top.p]
  BY StackTop, FrameShape
<1> QED
  BY <1>1
-----------------------------------------------------------------------------
(* Type correctness. *)

(* The types of the fields of a proc.                                       *)
LEMMA ProcFields ==
  ASSUME TypeOK, NEW p \in Slot
  PROVE  /\ procs[p] \in Proc
         /\ procs[p].script \in Script \cup {Nil}
         /\ procs[p].parent \in Root \cup Slot \cup {Nil}
         /\ procs[p].child \in Slot \cup {Nil}
         /\ procs[p].next \in Slot \cup {Nil} /\ procs[p].prev \in Slot \cup {Nil}
         /\ procs[p].mark \in Mark \cup {Nil} /\ procs[p].lock \in Lock
         /\ procs[p].idle \in BOOLEAN /\ procs[p].ended \in BOOLEAN
         /\ procs[p].blocking \in BOOLEAN /\ procs[p].starting \in BOOLEAN
BY DEF TypeOK, Proc

(* Proc_Start keeps the types.                                              *)
LEMMA TypeStart ==
  ASSUME TypeOK, NEW frames \in Seq(Frame), NEW s \in Script, NEW par \in Root \cup Slot,
         NEW kind \in {"plain", "blocking"}, Start(frames, s, par, kind)
  PROVE  TypeOK'
<1> DEFINE p == Head(freeList)
           sibling == Newest(par)
<1>1. p \in Slot /\ Tail(freeList) \in Seq(Slot)
  BY HeadTailProperties DEF TypeOK, Start
<1>2. sibling \in Slot \cup {Nil}
  BY Slots, ProcFields DEF Newest, TypeOK
<1>3. [script |-> s, parent |-> par, child |-> Nil, next |-> Nil,
       prev |-> sibling, mark |-> Nil, lock |-> 0, idle |-> FALSE,
       ended |-> FALSE, blocking |-> FALSE, starting |-> TRUE] \in Proc
  BY <1>2 DEF Proc, Lock
<1>4. ASSUME NEW q \in Slot, NEW n \in Slot \cup {Nil}, NEW c \in Slot \cup {Nil}
      PROVE  [procs[q] EXCEPT !.next = n, !.child = c] \in Proc
  BY ProcFields DEF Proc
<1>5. procs' \in [Slot -> Proc]
  <2> DEFINE d(q) == [procs[q] EXCEPT !.next  = IF q = sibling THEN p ELSE @,
                                      !.child = IF q = par THEN p ELSE @]
  <2>1. ASSUME NEW q \in Slot PROVE d(q) \in Proc
    BY <1>1, <1>4, ProcFields
  <2> QED
    BY <1>3, <2>1 DEF Start
<1>6. stack' \in Seq(Frame)
  <2>1. /\ [fn |-> "start", at |-> kind, p |-> p] \in Frame
        /\ [fn |-> "script", at |-> "fetch", p |-> p] \in Frame
    BY <1>1, NewFrames
  <2>2. Append(frames, [fn |-> "start", at |-> kind, p |-> p]) \in Seq(Frame)
    BY <2>1, FramesIn
  <2> QED
    BY <2>1, <2>2, FramesIn DEF Start, Call
<1>7. root' \in [Root -> Slot \cup {Nil}]
  BY <1>1 DEF TypeOK, Start
<1>8. starts' \in 0 .. MaxStarts
  <2>1. starts \in 0 .. MaxStarts /\ starts < MaxStarts /\ starts' = starts + 1
    BY DEF TypeOK, Start
  <2> QED
    BY <2>1, ProcAssumption
<1>9. freeList' \in Seq(Slot) /\ paused' \subseteq Mark /\ owed' \subseteq Slot
  BY <1>1 DEF TypeOK, Start
<1> QED
  BY <1>5, <1>6, <1>7, <1>8, <1>9 DEF TypeOK

(* Unlinking a proc keeps the types of the table and of the tree roots.     *)
LEMMA TypeUnlink ==
  ASSUME TypeOK, NEW p \in Slot
  PROVE  Unlinked(p) \in [Slot -> Proc] /\ UnlinkedRoot(p) \in [Root -> Slot \cup {Nil}]
<1>1. ASSUME NEW q \in Slot, NEW v \in Slot \cup {Nil}, NEW n \in Slot \cup {Nil},
             NEW c \in Slot \cup {Nil}
      PROVE  [procs[q] EXCEPT !.prev = v, !.next = n, !.child = c] \in Proc
  BY ProcFields DEF Proc
<1>2. Unlinked(p) \in [Slot -> Proc]
  BY <1>1, ProcFields DEF Unlinked
<1>3. UnlinkedRoot(p) \in [Root -> Slot \cup {Nil}]
  BY ProcFields DEF UnlinkedRoot, TypeOK
<1> QED
  BY <1>2, <1>3

(* Proc_End keeps the types.                                                *)
LEMMA TypeEnd ==
  ASSUME TypeOK, NEW frames \in Seq(Frame), NEW p \in Slot, End(frames, p)
  PROVE  TypeOK'
<1>1. stack' \in Seq(Frame)
  BY NewFrames, FramesIn DEF End, Call
<1> QED
  BY <1>1, TypeUnlink DEF TypeOK, End

(* Updates of single fields. *)
LEMMA TypeUpdate ==
  ASSUME TypeOK, NEW q \in Slot
  PROVE  /\ \A m \in Mark : [procs[q] EXCEPT !.mark = m] \in Proc
         /\ \A b \in BOOLEAN : [procs[q] EXCEPT !.idle = b] \in Proc
         /\ \A k \in Lock : [procs[q] EXCEPT !.lock = k] \in Proc
         /\ \A a, b \in BOOLEAN, k \in Lock :
              [procs[q] EXCEPT !.starting = a, !.blocking = b, !.lock = k] \in Proc
         /\ \A s \in Script \cup {Nil}, a, b \in BOOLEAN, k \in Lock :
              [procs[q] EXCEPT !.script = s, !.idle = a, !.ended = b, !.lock = k] \in Proc
BY ProcFields DEF Proc

(* The lock count wraps like the byte it is.                                *)
LEMMA Locks ==
  /\ \A k \in Lock : (k + 1) % 256 \in Lock /\ (k + 255) % 256 \in Lock
  /\ \A k \in Lock : k > 0 => k - 1 \in Lock
BY DEF Lock

(* A step that pushes and pops frames only, or changes fields of procs too. *)
LEMMA TypeRest ==
  ASSUME TypeOK, procs' \in [Slot -> Proc], stack' \in Seq(Frame), paused' \subseteq Mark,
         owed' \subseteq Slot, UNCHANGED <<freeList, root, starts>>
  PROVE  TypeOK'
BY DEF TypeOK

(* A round of a loop over the table keeps the types, whether it ends a proc *)
(* or goes on to the next slot.                                             *)
LEMMA TypeLoop ==
  ASSUME TypeOK, NEW S \in SUBSET Slot, stack # << >>, Top.fn \in {"endEach", "endMarked"},
         LoopEnd(S)
  PROVE  TypeOK'
<1>1. CASE /\ Return
           /\ UNCHANGED <<procs, freeList, root, owed, starts, paused>>
  BY <1>1, StackTop DEF TypeOK, Return
<1>2. ASSUME NEW q \in S, End(Append(Callers, [Top EXCEPT !.p = q + 1]), q)
      PROVE  TypeOK'
  <2>1. q \in Slot /\ q + 1 \in 1 .. NProc + 1
    BY ProcAssumption DEF Slot
  <2>2. [Top EXCEPT !.p = q + 1] \in Frame
    BY <2>1, StackTop, Bumped, FrameShape, LoopFrames
  <2>3. Append(Callers, [Top EXCEPT !.p = q + 1]) \in Seq(Frame)
    BY <2>2, StackTop, FramesIn
  <2> QED
    BY <1>2, <2>1, <2>3, TypeEnd
<1> QED
  BY <1>1, <1>2 DEF LoopEnd

(* Every step keeps the types.                                              *)
LEMMA TypeStep == TypeOK /\ [Next]_vars => TypeOK'
<1> SUFFICES ASSUME TypeOK, [Next]_vars PROVE TypeOK'
  OBVIOUS
<1>1. /\ stack \in Seq(Frame) /\ procs \in [Slot -> Proc] /\ owed \subseteq Slot
      /\ paused \subseteq Mark /\ << >> \in Seq(Frame)
  BY EmptySeq DEF TypeOK
<1>2. stack # << >> => Callers \in Seq(Frame) /\ Top \in Frame
  BY StackTop
<1>3. stack # << >> /\ Top.fn \in {"run", "script", "start", "delete", "callback"} => Top.p \in Slot
  BY <1>2, FrameShape
<1>4. ASSUME NEW s \in Seq(Frame), NEW p \in Slot
      PROVE  /\ Call(s, "callback", p, "body") \in Seq(Frame)
             /\ Call(s, "script", p, "fetch") \in Seq(Frame)
             /\ Call(s, "run", p, "prev") \in Seq(Frame)
             /\ Call(s, "delete", p, "prev") \in Seq(Frame)
  BY NewFrames, FramesIn DEF Call
<1>5. CASE UNCHANGED vars
  BY <1>5 DEF vars, TypeOK
<1>6. ASSUME NEW r \in Root, Run(r) PROVE TypeOK'
  <2>1. root[r] # Nil => root[r] \in Slot
    BY DEF TypeOK
  <2>2. stack' \in Seq(Frame)
    BY <1>1, <1>4, <1>6, <2>1 DEF Run
  <2> QED
    BY <1>1, <1>6, <2>2, TypeRest DEF Run, InTree
<1>7. ASSUME NEW r \in Root, NEW s \in Script, Boot(s, r) PROVE TypeOK'
  BY <1>1, <1>7, TypeStart DEF Boot
<1>8. CASE FinishStart
  <2>1. procs' \in [Slot -> Proc]
    <3> DEFINE p == Top.p
               blocks == Top.at = "blocking" /\ Live(p)
               d(q) == [procs[q] EXCEPT
                          !.starting = IF q = p THEN FALSE ELSE @,
                          !.blocking = IF q = p /\ blocks THEN TRUE ELSE @,
                          !.lock = IF blocks /\ q = procs[p].parent THEN (@ + 1) % 256 ELSE @]
    <3>1. ASSUME NEW q \in Slot PROVE d(q) \in Proc
      <4> DEFINE a == IF q = p THEN FALSE ELSE procs[q].starting
                 b == IF q = p /\ blocks THEN TRUE ELSE procs[q].blocking
                 k == IF blocks /\ q = procs[p].parent THEN (procs[q].lock + 1) % 256
                      ELSE procs[q].lock
      <4>1. a \in BOOLEAN /\ b \in BOOLEAN /\ k \in Lock
        BY ProcFields, Locks
      <4>2. d(q) = [procs[q] EXCEPT !.starting = a, !.blocking = b, !.lock = k]
        BY ProcFields DEF Proc
      <4> HIDE DEF a, b, k, d
      <4>3. [procs[q] EXCEPT !.starting = a, !.blocking = b, !.lock = k] \in Proc
        BY <4>1, TypeUpdate
      <4> QED
        BY <4>2, <4>3
    <3> QED
      BY <1>8, <3>1 DEF FinishStart
  <2> QED
    BY <1>1, <1>2, <1>8, <2>1, TypeRest DEF FinishStart, Return
<1>9. CASE DeleteWalk
  <2>1. Top.p \in Slot /\ stack # << >> /\ Top.fn = "delete"
    BY <1>3, <1>9 DEF DeleteWalk
  <2>2. ASSUME NEW a \in {"child", "check", "free"} PROVE At(a) \in Seq(Frame)
    <3>1. [fn |-> "delete", at |-> a, p |-> Top.p] \in Frame
      BY <2>1, NewFrames
    <3>2. At(a) = Append(Callers, [fn |-> "delete", at |-> a, p |-> Top.p])
      BY <2>1, Moved
    <3> QED
      BY <1>2, <2>1, <3>1, <3>2, FramesIn
  <2>3. procs[Top.p].prev # Nil => procs[Top.p].prev \in Slot
    BY <2>1, ProcFields
  <2>4. procs[Top.p].child # Nil => procs[Top.p].child \in Slot
    BY <2>1, ProcFields
  <2>5. /\ procs[Top.p].prev # Nil => Call(At("child"), "delete", procs[Top.p].prev, "prev") \in Seq(Frame)
        /\ procs[Top.p].child # Nil => Call(At("check"), "delete", procs[Top.p].child, "prev") \in Seq(Frame)
        /\ Call(At("free"), "callback", Top.p, "body") \in Seq(Frame)
    BY <1>4, <2>1, <2>2, <2>3, <2>4
  <2>6. \/ stack' = Callers
        \/ procs[Top.p].prev # Nil /\ stack' = Call(At("child"), "delete", procs[Top.p].prev, "prev")
        \/ procs[Top.p].child # Nil /\ stack' = Call(At("check"), "delete", procs[Top.p].child, "prev")
        \/ stack' = Call(At("free"), "callback", Top.p, "body")
    BY <1>9 DEF DeleteWalk
  <2>7. stack' \in Seq(Frame)
    BY <1>2, <2>1, <2>5, <2>6
  <2> QED
    BY <1>1, <1>9, <2>7, TypeRest DEF DeleteWalk
<1>10. CASE DeleteFree
  <2>1. Top.p \in Slot /\ stack # << >>
    BY <1>3, <1>10 DEF DeleteFree, Doing
  <2>2. procs' \in [Slot -> Proc]
    <3> DEFINE p == Top.p
               d(q) == [procs[q] EXCEPT
                          !.script = IF q = p THEN Nil ELSE @,
                          !.idle   = IF q = p THEN FALSE ELSE @,
                          !.ended  = IF q = p THEN TRUE ELSE @,
                          !.lock   = IF procs[p].blocking /\ q = procs[p].parent
                                     THEN (@ + 255) % 256 ELSE @]
    <3>1. ASSUME NEW q \in Slot PROVE d(q) \in Proc
      <4> DEFINE s == IF q = p THEN Nil ELSE procs[q].script
                 a == IF q = p THEN FALSE ELSE procs[q].idle
                 b == IF q = p THEN TRUE ELSE procs[q].ended
                 k == IF procs[p].blocking /\ q = procs[p].parent
                      THEN (procs[q].lock + 255) % 256 ELSE procs[q].lock
      <4>1. s \in Script \cup {Nil} /\ a \in BOOLEAN /\ b \in BOOLEAN /\ k \in Lock
        BY ProcFields, Locks
      <4>2. d(q) = [procs[q] EXCEPT !.script = s, !.idle = a, !.ended = b, !.lock = k]
        BY ProcFields DEF Proc
      <4> HIDE DEF s, a, b, k, d
      <4>3. [procs[q] EXCEPT !.script = s, !.idle = a, !.ended = b, !.lock = k] \in Proc
        BY <4>1, TypeUpdate
      <4> QED
        BY <4>2, <4>3
    <3> QED
      BY <1>10, <3>1 DEF DeleteFree
  <2>3. freeList' \in Seq(Slot)
    <3>1. <<Top.p>> \in Seq(Slot) /\ freeList \in Seq(Slot)
      BY <2>1 DEF TypeOK
    <3> QED
      BY <1>10, <3>1, ConcatProperties DEF DeleteFree
  <2>4. owed' \subseteq Slot /\ stack' \in Seq(Frame)
    BY <1>1, <1>2, <1>10, <2>1 DEF DeleteFree, Return
  <2> QED
    BY <1>10, <2>2, <2>3, <2>4 DEF DeleteFree, TypeOK
<1>11. CASE RunOlder \/ RunBlocked \/ RunScript \/ RunIdle \/ RunDone
  <2>1. Top.p \in Slot /\ stack # << >> /\ Top.fn = "run"
    BY <1>3, <1>11 DEF RunOlder, RunBlocked, RunScript, RunIdle, RunDone, ItsTurn, Doing
  <2>2. ASSUME NEW a \in {"self", "idle", "ended"} PROVE At(a) \in Seq(Frame)
    <3>1. [fn |-> "run", at |-> a, p |-> Top.p] \in Frame
      BY <2>1, NewFrames
    <3>2. At(a) = Append(Callers, [fn |-> "run", at |-> a, p |-> Top.p])
      BY <2>1, Moved
    <3> QED
      BY <1>2, <2>1, <3>1, <3>2, FramesIn
  <2>3. /\ procs[Top.p].prev # Nil => procs[Top.p].prev \in Slot
        /\ procs[Top.p].child # Nil => procs[Top.p].child \in Slot
    BY <2>1, ProcFields
  <2>4. stack' \in Seq(Frame)
    <3>1. CASE RunOlder
      BY <1>4, <2>1, <2>2, <2>3, <3>1 DEF RunOlder
    <3>2. CASE RunBlocked
      BY <1>2, <1>4, <2>1, <2>3, <3>2 DEF RunBlocked, RunChildren
    <3>3. CASE RunScript
      BY <1>4, <2>1, <2>2, <3>3 DEF RunScript
    <3>4. CASE RunIdle
      BY <1>4, <2>1, <2>2, <3>4 DEF RunIdle
    <3>5. CASE RunDone
      BY <1>2, <1>4, <2>1, <2>3, <3>5 DEF RunDone, RunChildren, Return
    <3> QED
      BY <1>11, <3>1, <3>2, <3>3, <3>4, <3>5
  <2>5. /\ UNCHANGED <<procs, freeList, root, starts, paused>>
        /\ owed' \subseteq owed
    BY <1>11 DEF RunOlder, RunBlocked, RunScript, RunIdle, RunDone, Visited
  <2> QED
    BY <1>1, <2>4, <2>5, TypeRest
<1>12. CASE ScriptReturn \/ CallbackReturn
  BY <1>1, <1>2, <1>12, TypeRest DEF ScriptReturn, CallbackReturn, Doing, Return
<1>13. CASE CmdEnd \/ CmdEndIfDuplicate
  BY <1>2, <1>3, <1>13, TypeEnd DEF CmdEnd, CmdEndIfDuplicate, Fetching, Doing
<1>14. CASE CmdEndDuplicates \/ CallEnd
  BY <1>1, <1>14, TypeEnd DEF CmdEndDuplicates, CallEnd, Target
<1>15. CASE CmdCall
  <2>1. Top.p \in Slot /\ stack # << >>
    BY <1>3, <1>15 DEF CmdCall, Fetching, Doing
  <2>2. \A frames \in {stack, Callers} : Call(frames, "callback", Top.p, "body") \in Seq(Frame)
    BY <1>1, <1>2, <1>4, <2>1
  <2> QED
    BY <1>1, <1>15, <2>2, TypeRest DEF CmdCall
<1>16. CASE CmdRepeat
  <2>1. Top.p \in Slot /\ stack # << >>
    BY <1>3, <1>16 DEF CmdRepeat, Fetching, Doing
  <2>2. [procs[Top.p] EXCEPT !.idle = TRUE] \in Proc
    BY <2>1, TypeUpdate
  <2>3. procs' \in [Slot -> Proc]
    BY <1>1, <1>16, <2>1, <2>2 DEF CmdRepeat
  <2> QED
    BY <1>1, <1>2, <1>16, <2>1, <2>3, TypeRest DEF CmdRepeat, Return
<1>17. CASE CmdStart
  <2>1. Top.p \in Slot /\ stack # << >>
    BY <1>3, <1>17 DEF CmdStart, Fetching, Doing
  <2> QED
    BY <1>1, <1>2, <1>17, <2>1, TypeStart DEF CmdStart
<1>18. CASE CallStart
  BY <1>1, <1>18, TypeStart DEF CallStart, Target
<1>19. CASE SetMark
  <2>1. PICK m \in Mark, q \in Slot : procs' = [procs EXCEPT ![q].mark = m]
    BY <1>19 DEF SetMark
  <2>2. [procs[q] EXCEPT !.mark = m] \in Proc
    BY TypeUpdate
  <2>3. procs' \in [Slot -> Proc]
    BY <1>1, <2>1, <2>2
  <2> QED
    BY <1>1, <1>19, <2>3, TypeRest DEF SetMark
<1>20. CASE EndEachLoop
  BY <1>20, TypeLoop DEF EndEachLoop
<1>21. CASE EndMarkedLoop
  BY <1>21, TypeLoop DEF EndMarkedLoop
<1>22. CASE Break \/ CallSetRepeat
  <2>1. PICK q \in Slot, b \in BOOLEAN : procs' = [procs EXCEPT ![q].idle = b]
    BY <1>22 DEF Break, CallSetRepeat
  <2>2. [procs[q] EXCEPT !.idle = b] \in Proc
    BY TypeUpdate
  <2>3. procs' \in [Slot -> Proc]
    BY <1>1, <2>1, <2>2
  <2> QED
    BY <1>1, <1>22, <2>3, TypeRest DEF Break, CallSetRepeat
<1>23. CASE BreakEach
  <2>1. ASSUME NEW q \in Slot, NEW s \in Script
        PROVE  [procs[q] EXCEPT !.idle = IF procs[q].script = s THEN FALSE ELSE @] \in Proc
    BY ProcFields, TypeUpdate
  <2>2. procs' \in [Slot -> Proc]
    BY <1>23, <2>1 DEF BreakEach
  <2> QED
    BY <1>1, <1>23, <2>2, TypeRest DEF BreakEach
<1>24. CASE BlockMarked \/ UnblockMarked
  <2>1. ASSUME NEW q \in Slot, NEW m \in Mark
        PROVE  /\ [procs[q] EXCEPT !.lock = IF procs[q].mark = m THEN (@ + 1) % 256 ELSE @] \in Proc
               /\ [procs[q] EXCEPT !.lock = IF procs[q].mark = m /\ @ > 0 THEN @ - 1 ELSE @] \in Proc
    <3> DEFINE k == procs[q].lock
               a == IF procs[q].mark = m THEN (k + 1) % 256 ELSE k
               b == IF procs[q].mark = m /\ k > 0 THEN k - 1 ELSE k
    <3>1. k \in Lock
      BY ProcFields
    <3> HIDE DEF k
    <3>2. a \in Lock /\ b \in Lock
      BY <3>1, Locks
    <3> HIDE DEF a, b
    <3>3. [procs[q] EXCEPT !.lock = a] \in Proc /\ [procs[q] EXCEPT !.lock = b] \in Proc
      BY <3>2, TypeUpdate
    <3> QED
      BY <3>3 DEF a, b, k
  <2>2. procs' \in [Slot -> Proc]
    <3>1. CASE BlockMarked
      <4>1. PICK m \in Mark :
              procs' = [q \in Slot |-> [procs[q] EXCEPT
                         !.lock = IF procs[q].mark = m THEN (@ + 1) % 256 ELSE @]]
        BY <3>1 DEF BlockMarked
      <4> QED
        BY <2>1, <4>1
    <3>2. CASE UnblockMarked
      <4>1. PICK m \in paused :
              procs' = [q \in Slot |-> [procs[q] EXCEPT
                         !.lock = IF procs[q].mark = m /\ @ > 0 THEN @ - 1 ELSE @]]
        BY <3>2 DEF UnblockMarked
      <4>2. m \in Mark
        BY <1>1
      <4> QED
        BY <2>1, <4>1, <4>2
    <3> QED
      BY <1>24, <3>1, <3>2
  <2> QED
    BY <1>1, <1>24, <2>2, TypeRest DEF BlockMarked, UnblockMarked
<1>25. CASE EndEach \/ CallEndMarked
  <2>1. 1 \in 1 .. NProc + 1
    BY ProcAssumption
  <2>2. /\ \A s \in Script : Call(stack, "endEach", 1, s) \in Seq(Frame)
        /\ \A m \in Mark : Call(stack, "endMarked", 1, m) \in Seq(Frame)
    BY <1>1, <2>1, LoopFrames, FramesIn DEF Call
  <2> QED
    BY <1>1, <1>25, <2>2, TypeRest DEF EndEach, CallEndMarked
<1> QED
  BY <1>5, <1>6, <1>7, <1>8, <1>9, <1>10, <1>11, <1>12, <1>13, <1>14, <1>15, <1>16, <1>17,
     <1>18, <1>19, <1>20, <1>21, <1>22, <1>23, <1>24, <1>25 DEF Next

(* The initial states have the types.                                       *)
LEMMA TypeInit == Init => TypeOK
<1> SUFFICES ASSUME Init PROVE TypeOK
  OBVIOUS
<1>1. freeList \in Seq(Slot)
  <2>1. freeList = [i \in 1 .. NProc |-> i] /\ NProc \in Nat
    BY ProcAssumption DEF Init
  <2> QED
    BY <2>1, IsASeq DEF Slot
<1>2. starts \in 0 .. MaxStarts
  BY ProcAssumption DEF Init
<1>3. procs \in [Slot -> Proc]
  BY DEF Init, Proc, Lock
<1> QED
  BY <1>1, <1>2, <1>3, EmptySeq DEF Init, TypeOK

(* The table of procs, the free list and the call stack keep their types    *)
(* whatever the callers of proc.c do: no function leaves the table.          *)
THEOREM TypeCorrect == Spec => []TypeOK
<1> QED
  BY TypeInit, TypeStep, PTL DEF Spec
-----------------------------------------------------------------------------
(* Steps of the call stack. *)

(* The function that is running is not DeleteProcessRecursive. *)
Idle == stack = << >> \/ Top.fn # "delete"

(* g is what a step makes of the frame f; a loop moves to its next slot and *)
(* a traversal to its next place.                                           *)
Alike(f, g) ==
  /\ g.fn = f.fn
  /\ f.fn \notin {"endEach", "endMarked"} => g.p = f.p
  /\ f.fn \notin {"run", "delete"} => g.at = f.at

(* s holds the first n frames of the stack, the innermost of all possibly   *)
(* moved on.                                                                *)
From(s, n) ==
  /\ s \in Seq(Frame) /\ n \in Nat /\ Len(s) = n /\ n <= Len(stack)
  /\ \A i \in 1 .. n : Alike(stack[i], s[i]) /\ (i < Len(stack) => s[i] = stack[i])

Keeps(n) ==
  /\ n \in Nat /\ n <= Len(stack) /\ Len(stack) <= n + 1 /\ n <= Len(stack')
  /\ \A i \in 1 .. n : Alike(stack[i], stack'[i]) /\ (i < Len(stack) => stack'[i] = stack[i])

(* The call stack is a sequence of frames; unless DeleteProcessRecursive    *)
(* runs, the frame on top deletes nothing.                                  *)
LEMMA StackShape ==
  ASSUME TypeOK
  PROVE  /\ DOMAIN stack = 1 .. Len(stack) /\ Len(stack) \in Nat
         /\ stack = << >> <=> Len(stack) = 0
         /\ \A i \in DOMAIN stack : stack[i] \in Frame
         /\ Idle => \A i \in DOMAIN stack : stack[i].fn = "delete" => i # Len(stack)
<1>1. /\ DOMAIN stack = 1 .. Len(stack) /\ Len(stack) \in Nat
      /\ stack = << >> <=> Len(stack) = 0
      /\ \A i \in DOMAIN stack : stack[i] \in Frame
  BY LenProperties, EmptySeq, ElementOfSeq DEF TypeOK
<1>2. ASSUME Idle, NEW i \in DOMAIN stack, stack[i].fn = "delete" PROVE i # Len(stack)
  <2>1. stack # << >>
    BY <1>1, <1>2
  <2> QED
    BY <1>2, <2>1 DEF Idle, Top
<1> QED
  BY <1>1, <1>2

(* A step that calls starts from the whole stack.                           *)
LEMMA FromStack ==
  ASSUME TypeOK
  PROVE  From(stack, Len(stack))
BY LenProperties DEF TypeOK, From, Alike

(* A step that returns starts from the callers of the function on top.      *)
LEMMA FromCallers ==
  ASSUME TypeOK, stack # << >>
  PROVE  From(Callers, Len(stack) - 1)
<1>1. \A i \in 1 .. Len(stack) - 1 : Alike(stack[i], Callers[i]) /\ Callers[i] = stack[i]
  BY StackTop DEF Alike
<1>2. Callers \in Seq(Frame) /\ Len(Callers) = Len(stack) - 1 /\ Len(stack) \in Nat \ {0}
  BY StackTop
<1>3. Len(stack) - 1 \in Nat /\ Len(stack) - 1 <= Len(stack)
  BY <1>2
<1> QED
  BY <1>1, <1>2, <1>3 DEF From

(* A step of the main loop starts from an empty stack.                      *)
LEMMA FromNone ==
  ASSUME TypeOK, stack = << >>
  PROVE  From(<< >>, 0) /\ Len(stack) = 0
BY EmptySeq DEF From, Alike

(* A step that moves on starts from the stack with its top moved on.        *)
LEMMA FromTop ==
  ASSUME TypeOK, stack # << >>, NEW f \in Frame, Alike(Top, f)
  PROVE  From(Append(Callers, f), Len(stack)) /\ Append(Callers, f)[Len(stack)] = f
<1> DEFINE s == Append(Callers, f)
<1>1. /\ s \in Seq(Frame) /\ Len(s) = Len(stack) /\ Len(stack) \in Nat \ {0}
      /\ \A i \in 1 .. Len(stack) - 1 : s[i] = stack[i]
      /\ s[Len(stack)] = f
  <2> DEFINE c == Callers
  <2>1. /\ c \in Seq(Frame) /\ Len(c) = Len(stack) - 1 /\ Len(stack) \in Nat \ {0}
        /\ \A i \in 1 .. Len(stack) - 1 : c[i] = stack[i]
    BY StackTop
  <2> HIDE DEF c
  <2>2. /\ Append(c, f) \in Seq(Frame) /\ Len(Append(c, f)) = Len(c) + 1
        /\ \A i \in 1 .. Len(c) : Append(c, f)[i] = c[i]
        /\ Append(c, f)[Len(c) + 1] = f
    BY <2>1, FramesIn
  <2>3. s = Append(c, f)
    BY DEF c
  <2> QED
    BY <2>1, <2>2, <2>3
<1>2. ASSUME NEW i \in 1 .. Len(stack)
      PROVE  Alike(stack[i], s[i]) /\ (i < Len(stack) => s[i] = stack[i])
  <2>1. CASE i = Len(stack)
    BY <1>1, <2>1, StackTop
  <2>2. CASE i # Len(stack)
    <3>1. i \in 1 .. Len(stack) - 1
      BY <1>1, <2>2
    <3> QED
      BY <1>1, <3>1 DEF Alike
  <2> QED
    BY <2>1, <2>2
<1> HIDE DEF s
<1>3. From(s, Len(stack))
  BY <1>1, <1>2 DEF From
<1> QED
  BY <1>1, <1>3 DEF s

(* A step that pushes nothing keeps the frames it starts from.              *)
LEMMA KeepsBase ==
  ASSUME TypeOK, NEW s, NEW n, From(s, n), Len(stack) <= n + 1, stack' = s
  PROVE  Keeps(n) /\ Len(stack') = n /\ DOMAIN stack' = 1 .. n
BY LenProperties DEF From, Keeps

(* A step that calls a function keeps the frames below the call.            *)
LEMMA KeepsPush ==
  ASSUME TypeOK, NEW s, NEW n, From(s, n), Len(stack) <= n + 1, NEW f \in Frame,
         stack' = Append(s, f)
  PROVE  /\ Keeps(n) /\ Len(stack') = n + 1 /\ stack'[n + 1] = f
         /\ DOMAIN stack' = 1 .. n + 1 /\ Top' = f
         /\ \A i \in 1 .. n : stack'[i] = s[i]
<1>1. /\ s \in Seq(Frame) /\ Len(s) = n /\ n \in Nat
  BY DEF From
<1>2. /\ Len(stack') = n + 1 /\ stack'[n + 1] = f /\ DOMAIN stack' = 1 .. n + 1
      /\ \A i \in 1 .. n : stack'[i] = s[i]
  BY <1>1, FramesIn
<1> QED
  BY <1>1, <1>2 DEF From, Keeps, Top

(* Proc_Start calls the script from a frame of its own: two frames more.    *)
LEMMA KeepsPushTwo ==
  ASSUME TypeOK, NEW s, NEW n, From(s, n), Len(stack) <= n + 1, NEW f \in Frame, NEW g \in Frame,
         stack' = Append(Append(s, f), g)
  PROVE  /\ Keeps(n) /\ Len(stack') = n + 2 /\ stack'[n + 1] = f /\ stack'[n + 2] = g
         /\ DOMAIN stack' = 1 .. n + 2 /\ Top' = g
<1>1. /\ s \in Seq(Frame) /\ Len(s) = n /\ n \in Nat
  BY DEF From
<1>2. /\ Append(s, f) \in Seq(Frame) /\ Len(Append(s, f)) = n + 1 /\ Append(s, f)[n + 1] = f
      /\ \A i \in 1 .. n : Append(s, f)[i] = s[i]
  BY <1>1, FramesIn
<1> DEFINE u == Append(s, f)
<1> HIDE DEF u
<1>3. /\ Len(stack') = n + 2 /\ stack'[n + 2] = g /\ DOMAIN stack' = 1 .. n + 2
      /\ \A i \in 1 .. n + 1 : stack'[i] = u[i]
  <2>1. u \in Seq(Frame) /\ Len(u) = n + 1 /\ stack' = Append(u, g)
    BY <1>2 DEF u
  <2> QED
    BY <1>1, <2>1, FramesIn
<1>4. stack'[n + 1] = f /\ \A i \in 1 .. n : stack'[i] = s[i]
  BY <1>1, <1>2, <1>3 DEF u
<1> QED
  BY <1>1, <1>3, <1>4 DEF From, Keeps, Top

(* When the function that is running is not DeleteProcessRecursive, no slot   *)
(* on the stack is deleted twice, and no list is half deleted.              *)
LEMMA IdleLive ==
  ASSUME TypeOK, GravesOK, Idle
  PROVE  \A i \in DOMAIN stack : stack[i].fn = "delete" => Dies(i)
<1> SUFFICES ASSUME NEW i \in DOMAIN stack, stack[i].fn = "delete", ~Live(stack[i].p)
             PROVE  FALSE
  BY DEF Dies
<1>1. stack # << >> /\ DOMAIN stack = 1 .. Len(stack) /\ Len(stack) \in Nat \ {0}
  BY StackTop, EmptySeq
<1>2. stack[Len(stack)].fn = "delete"
  <2>1. PICK j \in DOMAIN stack :
          j < i /\ \A k \in DOMAIN stack : k > j => stack[k].fn = "delete"
    BY DEF GravesOK
  <2> QED
    BY <1>1, <2>1
<1> QED
  BY <1>1, <1>2, StackTop DEF Idle

(* Unless DeleteProcessRecursive runs, nothing is left of lists whose heads *)
(* are not read again.                                                      *)
LEMMA IdleClosed ==
  ASSUME RestOK, Idle
  PROVE  \A par \in Closing : Kids(par) = {}
<1>1. ~Doing("delete", "prev")
  BY DEF Idle, Doing
<1> QED
  BY <1>1 DEF RestOK, Kids

(* What the frames that stay say. *)
LEMMA KeptFrames ==
  ASSUME TypeOK, TypeOK', NEW n, Keeps(n), Idle, \A p \in Slot : Live(p) => Live(p)',
         \A i \in DOMAIN stack : stack[i].fn = "delete" => Dies(i)
  PROVE  /\ \A i \in 1 .. n : Dies(i)' <=> Dies(i)
         /\ \A i \in 1 .. n : stack[i].fn = "delete" => stack'[i] = stack[i]
         /\ \A i \in 1 .. n + 1 : Under(i)' = Under(i)
         /\ Under(n + 1) = Doomed
<1>1. DOMAIN stack = 1 .. Len(stack) /\ Len(stack) \in Nat /\ n \in Nat
      /\ n <= Len(stack) /\ Len(stack) <= n + 1 /\ n <= Len(stack')
  BY LenProperties DEF TypeOK, Keeps
<1>2. ASSUME NEW i \in 1 .. n, stack[i].fn = "delete" PROVE stack'[i] = stack[i]
  <2>1. i < Len(stack)
    BY <1>1, <1>2, StackShape
  <2> QED
    BY <2>1 DEF Keeps
<1>3. ASSUME NEW i \in 1 .. n PROVE (Dies(i)' <=> Dies(i)) /\ stack'[i].fn = stack[i].fn
  <2>1. i \in DOMAIN stack /\ stack'[i].fn = stack[i].fn
    BY <1>1 DEF Keeps, Alike
  <2>2. CASE stack[i].fn = "delete"
    <3>1. Dies(i) /\ stack[i] \in Frame
      BY <2>1, <2>2, ElementOfSeq DEF TypeOK
    <3>2. stack[i].p \in Slot
      BY <2>2, <3>1, FrameShape
    <3> QED
      BY <1>2, <2>2, <3>1, <3>2 DEF Dies, Live
  <2>3. CASE stack[i].fn # "delete"
    BY <2>1, <2>3 DEF Dies
  <2> QED
    BY <2>2, <2>3
<1>4. ASSUME NEW i \in 1 .. n + 1 PROVE Under(i)' = Under(i)
  <2>1. DOMAIN stack' = 1 .. Len(stack') /\ Len(stack') \in Nat
    BY LenProperties DEF TypeOK
  <2>2. /\ {j \in DOMAIN stack : j < i /\ Dies(j)} = {j \in 1 .. n : j < i /\ Dies(j)}
        /\ {j \in DOMAIN stack : j < i /\ Dies(j)}' = {j \in 1 .. n : j < i /\ Dies(j)}
    BY <1>1, <1>3, <2>1
  <2>3. \A j \in 1 .. n : Dies(j) => stack'[j].p = stack[j].p
    BY <1>2 DEF Dies
  <2> QED
    BY <2>2, <2>3 DEF Under
<1>5. Under(n + 1) = Doomed
  <2>1. ASSUME NEW j \in DOMAIN stack, Dies(j) PROVE j < n + 1
    <3>1. j # Len(stack) /\ j \in 1 .. Len(stack)
      BY <1>1, <2>1, StackShape DEF Dies
    <3> QED
      BY <1>1, <3>1
  <2> QED
    BY <2>1 DEF Under, Doomed
<1> QED
  BY <1>2, <1>3, <1>4, <1>5

(* The frames kept are frames of both stacks, and all but the old top are   *)
(* kept.                                                                    *)
LEMMA KeptDomain ==
  ASSUME TypeOK, TypeOK', NEW n, Keeps(n)
  PROVE  /\ n \in Nat /\ Len(stack) \in Nat /\ Len(stack') \in Nat
         /\ n <= Len(stack) /\ Len(stack) <= n + 1 /\ n <= Len(stack')
         /\ DOMAIN stack = 1 .. Len(stack) /\ DOMAIN stack' = 1 .. Len(stack')
         /\ \A i \in 1 .. n : /\ i \in DOMAIN stack /\ i \in DOMAIN stack' /\ i \in Nat
                            /\ i <= Len(stack')
         /\ \A i \in DOMAIN stack : i # Len(stack) => i \in 1 .. n /\ i < Len(stack)
         /\ \A i \in 1 .. n, j \in DOMAIN stack' : j < i => j \in 1 .. n
<1>1. /\ n \in Nat /\ Len(stack) \in Nat /\ Len(stack') \in Nat
      /\ n <= Len(stack) /\ Len(stack) <= n + 1 /\ n <= Len(stack')
      /\ DOMAIN stack = 1 .. Len(stack) /\ DOMAIN stack' = 1 .. Len(stack')
  BY LenProperties DEF TypeOK, Keeps
<1> QED
  BY <1>1
-----------------------------------------------------------------------------
(* Steps that leave the trees alone. *)

SameTree ==
  /\ \A p \in Slot :
       /\ procs'[p].script = procs[p].script /\ procs'[p].parent = procs[p].parent
       /\ procs'[p].child = procs[p].child /\ procs'[p].next = procs[p].next
       /\ procs'[p].prev = procs[p].prev /\ procs'[p].ended = procs[p].ended
  /\ freeList' = freeList /\ root' = root

SameMarks == \A p \in Slot : procs'[p].mark = procs[p].mark

(* What holds of a frame such a step pushes on the first n.                 *)
Pushed(f, n) ==
  LET A == Reach(Par, Doomed)
  IN  /\ f.fn # "delete"
      /\ f.fn = "script" => f.p \notin A
      /\ f.fn = "endEach" => \A q \in A : procs[q].script # f.at
      /\ f.fn = "run" => \A j \in 1 .. n : stack[j].fn = "run"
      /\ f.fn = "endMarked" =>
           /\ ~Sweeping /\ SameMarks
           /\ \A q \in A : procs[q].mark # f.at
           /\ \A q \in Slot : procs[q].mark = f.at => Live(q)

(* The stack grows by such a frame, or loses one. *)
Grows(n) ==
  /\ Keeps(n)
  /\ Len(stack') = n \/ (Len(stack') = n + 1 /\ Pushed(stack'[n + 1], n))

(* Steps that change no link leave the live procs, what is reached and the  *)
(* newest children.                                                         *)
LEMMA SameTreeFacts ==
  ASSUME TypeOK, TypeOK', SameTree
  PROVE  /\ \A p \in Slot : Live(p)' <=> Live(p)
         /\ Par' = Par /\ Back' = Back
         /\ \A par \in Root \cup Slot : Newest(par)' = Newest(par)
BY DEF SameTree, Live, Par, Back, Newest

(* The frames a step keeps say the same of an unchanged tree. *)
LEMMA KeptSay ==
  ASSUME TypeOK, TypeOK', NEW n, Keeps(n), NEW i \in 1 .. n, FrameOK(i),
         \A j \in 1 .. n : stack[j].fn = "delete" => stack'[j] = stack[j],
         LET A == Reach(Par, Under(i))
         IN  /\ Reach(Par', Under(i)') = A
             /\ \A q \in A : procs'[q].script = procs[q].script
             /\ (\A q \in A : procs'[q].mark = procs[q].mark) \/ ~Sweeping,
         stack[i].fn = "delete" /\ procs'[stack[i].p].script # Nil => Live(stack[i].p),
         stack[i].fn = "delete" /\ stack[i].at = "prev" => i = Len(stack')
  PROVE  FrameOK(i)'
<1> DEFINE A == Reach(Par, Under(i))
           f == stack[i]
           g == stack'[i]
<1>1. /\ i \in DOMAIN stack /\ i \in DOMAIN stack' /\ i \in Nat
      /\ DOMAIN stack' = 1 .. Len(stack') /\ Len(stack') \in Nat /\ i <= Len(stack')
      /\ f \in Frame /\ g \in Frame
      /\ \A j \in DOMAIN stack' : j < i => j \in DOMAIN stack /\ stack'[j].fn = stack[j].fn
  <2>1. /\ DOMAIN stack = 1 .. Len(stack) /\ Len(stack) \in Nat
        /\ DOMAIN stack' = 1 .. Len(stack') /\ Len(stack') \in Nat
        /\ n \in Nat /\ n <= Len(stack) /\ n <= Len(stack')
    BY KeptDomain
  <2> HIDE DEF A, f, g
  <2>2. i \in DOMAIN stack /\ i \in DOMAIN stack' /\ i \in Nat /\ i <= Len(stack')
    BY KeptDomain
  <2>3. f \in Frame /\ g \in Frame
    BY <2>2, ElementOfSeq, <2>1 DEF TypeOK, f, g
  <2>4. \A j \in DOMAIN stack' : j < i => j \in DOMAIN stack /\ j \in 1 .. n
    BY KeptDomain
  <2> QED
    BY <2>1, <2>2, <2>3, <2>4 DEF Keeps, Alike
<1>2. Alike(f, g)
  BY DEF Keeps
<1>3. Reach(Par, Under(i))' = A
  OBVIOUS
<1>4. CASE f.fn = "delete"
  <2>1. f.p \in Slot
    BY <1>1, <1>4, FrameShape
  <2>2. procs'[f.p].script # Nil => procs[f.p].script # Nil
    BY <1>4 DEF Live
  <2>3. g = f
    BY <1>4
  <2>4. procs[f.p].script # Nil => f.p \notin A
    BY <1>4 DEF FrameOK, Live
  <2>5. i < Len(stack') => f.at # "prev"
    BY <1>1, <1>4
  <2> HIDE DEF A, f, g
  <2>6. /\ g.fn = "delete" => (procs'[g.p].script # Nil => g.p \notin A)
                              /\ (i < Len(stack') => g.at # "prev")
        /\ g.fn = "delete"
    BY <1>4, <2>2, <2>3, <2>4, <2>5
  <2> QED
    BY <1>3, <2>6 DEF FrameOK, Live, g
<1>5. CASE f.fn # "delete"
  <2>1. f.fn = "endMarked" => \E j \in DOMAIN stack : stack[j].fn = "endMarked"
    BY <1>1
  <2> QED
    BY <1>1, <1>2, <1>3, <1>5, <2>1 DEF FrameOK, Alike, Sweeping
<1> QED
  BY <1>4, <1>5

(* The names of the trees and the slots in use do not change, so neither do *)
(* the lists.                                                               *)
LEMMA QuietTree ==
  ASSUME CoreInv, TypeOK', SameTree, Doomed' = Doomed, Closing' = Closing
  PROVE  /\ TreeOK' /\ FreeListExact'
         /\ \A par : Kids(par)' = Kids(par)
         /\ (\A par \in Open : ListOK(par))'
<1>1. /\ \A p \in Slot : Live(p)' <=> Live(p)
      /\ Par' = Par /\ Back' = Back
      /\ \A par \in Root \cup Slot : Newest(par)' = Newest(par)
  BY SameTreeFacts DEF CoreInv
<1>2. TreeOK'
  BY <1>1 DEF CoreInv, TreeOK, SameTree
<1>3. FreeListExact'
  BY <1>1 DEF CoreInv, FreeListExact, SameTree
<1>4. \A par : Kids(par)' = Kids(par)
  BY <1>1 DEF Kids, SameTree
<1>5. Open' = Open /\ Open \subseteq Root \cup Slot
  BY <1>1 DEF Open
<1>6. ASSUME NEW par \in Open PROVE ListOK(par)'
  <2>1. ListOK(par)
    BY DEF CoreInv
  <2>2. Newest(par)' = Newest(par) /\ Kids(par)' = Kids(par)
    BY <1>1, <1>4, <1>5
  <2>3. \A q \in Kids(par) : q \in Slot
    BY DEF Kids
  <2>4. \A q \in Kids(par) : procs'[q].prev = procs[q].prev /\ procs'[q].next = procs[q].next
    BY <2>3 DEF SameTree
  <2>5. \A q \in Kids(par) : procs[q].prev # Nil =>
          procs'[procs[q].prev].next = procs[procs[q].prev].next
    BY <2>1, <2>4 DEF ListOK
  <2>6. \A q \in Kids(par) : procs[q].next # Nil =>
          procs'[procs[q].next].prev = procs[procs[q].next].prev
    BY <2>1, <2>4 DEF ListOK
  <2>7. \A q \in Kids(par) : procs'[q].prev # Nil => procs'[procs'[q].prev].next = q
    BY <2>1, <2>4, <2>5 DEF ListOK
  <2>8. \A q \in Kids(par) : procs'[q].next # Nil => procs'[procs'[q].next].prev = q
    BY <2>1, <2>4, <2>6 DEF ListOK
  <2> QED
    BY <1>1, <2>1, <2>2, <2>4, <2>7, <2>8 DEF ListOK
<1> QED
  BY <1>2, <1>3, <1>4, <1>5, <1>6

(* Nothing is being deleted but what was before.                            *)
LEMMA KeptDoomed ==
  ASSUME TypeOK, TypeOK', Idle, NEW n, Keeps(n), \A p \in Slot : Live(p) => Live(p)',
         \A i \in DOMAIN stack : stack[i].fn = "delete" => Dies(i),
         \A i \in DOMAIN stack' : i \notin 1 .. n => stack'[i].fn # "delete"
  PROVE  /\ Doomed' = Doomed /\ Closing' = Closing
         /\ \A i \in DOMAIN stack' : i \notin 1 .. n => Under(i)' = Doomed
         /\ \A i \in DOMAIN stack' : stack'[i].fn = "delete" => i \in 1 .. n
<1>1. /\ \A i \in 1 .. n : Dies(i)' <=> Dies(i)
      /\ \A i \in 1 .. n : stack[i].fn = "delete" => stack'[i] = stack[i]
      /\ \A i \in 1 .. n + 1 : Under(i)' = Under(i)
      /\ Under(n + 1) = Doomed
  BY KeptFrames
<1>2. ASSUME NEW i \in DOMAIN stack, Dies(i) PROVE i \in 1 .. n
  <2>1. i # Len(stack)
    BY <1>2, StackShape DEF Dies
  <2> QED
    BY <2>1, KeptDomain
<1>3. ASSUME NEW i \in DOMAIN stack', Dies(i)' PROVE i \in 1 .. n
  <2>1. stack'[i].fn = "delete"
    BY <1>3 DEF Dies
  <2> QED
    BY <2>1
<1>4. \A i \in 1 .. n : i \in DOMAIN stack /\ i \in DOMAIN stack'
  BY KeptDomain
<1>5. /\ {i \in DOMAIN stack : Dies(i)}' = {i \in DOMAIN stack : Dies(i)}
      /\ \A i \in DOMAIN stack : Dies(i) => stack'[i] = stack[i]
  BY <1>1, <1>2, <1>3, <1>4 DEF Dies
<1>6. Doomed' = Doomed
  BY <1>5 DEF Doomed
<1>7. {i \in DOMAIN stack : Dies(i) /\ stack[i].at \in {"check", "free"}}'
       = {i \in DOMAIN stack : Dies(i) /\ stack[i].at \in {"check", "free"}}
  BY <1>5
<1>8. Closing' = Closing
  BY <1>5, <1>7 DEF Closing
<1>9. ASSUME NEW i \in DOMAIN stack', i \notin 1 .. n PROVE Under(i)' = Doomed
  <2>1. \A j \in 1 .. n : j < i
    BY <1>9, KeptDomain
  <2>2. {j \in DOMAIN stack : j < i /\ Dies(j)}' = {j \in DOMAIN stack : Dies(j)}
    BY <1>3, <1>5, <2>1
  <2> QED
    BY <1>5, <2>2 DEF Under, Doomed
<1> QED
  BY <1>6, <1>8, <1>9

(* A step that leaves the trees alone preserves the invariant. *)
LEMMA QuietCore ==
  ASSUME CoreInv, TypeOK', SameTree, Idle, NEW n, Grows(n),
         SameMarks \/ (~Sweeping /\ Sweeping' = Sweeping)
  PROVE  CoreInv'
<1> USE DEF CoreInv
<1>1. /\ \A p \in Slot : Live(p)' <=> Live(p)
      /\ Par' = Par /\ Back' = Back
  BY SameTreeFacts
<1>2. \A i \in DOMAIN stack : stack[i].fn = "delete" => Dies(i)
  BY IdleLive
<1>3. /\ \A i \in 1 .. n : Dies(i)' <=> Dies(i)
      /\ \A i \in 1 .. n : stack[i].fn = "delete" => stack'[i] = stack[i]
      /\ \A i \in 1 .. n + 1 : Under(i)' = Under(i)
      /\ n \in Nat /\ Len(stack') \in {n, n + 1}
  BY <1>1, <1>2, KeptFrames DEF Grows, Keeps
<1>4. /\ Doomed' = Doomed /\ Closing' = Closing
      /\ Len(stack') = n + 1 => Under(n + 1)' = Doomed
      /\ \A i \in DOMAIN stack' : i \in 1 .. n \/ i = n + 1
      /\ \A i \in DOMAIN stack' : stack'[i].fn = "delete" => i \in 1 .. n
  <2>1. \A i \in DOMAIN stack' : i \in 1 .. n \/ (i = n + 1 /\ Len(stack') = n + 1)
    BY <1>3, KeptDomain DEF Grows
  <2>2. \A i \in DOMAIN stack' : i \notin 1 .. n => stack'[i].fn # "delete"
    BY <1>3, <2>1 DEF Grows, Pushed
  <2>3. Len(stack') = n + 1 => n + 1 \in DOMAIN stack' /\ n + 1 \notin 1 .. n
    BY KeptDomain DEF Grows
  <2> QED
    BY <1>1, <1>2, <2>1, <2>2, <2>3, KeptDoomed DEF Grows
<1>5. /\ TreeOK' /\ FreeListExact'
      /\ \A par : Kids(par)' = Kids(par)
      /\ (\A par \in Open : ListOK(par))'
  BY <1>4, QuietTree
<1>6. \A par \in Closing : Kids(par) = {}
  BY IdleClosed
<1>7. RestOK'
  BY <1>4, <1>5, <1>6 DEF RestOK
<1>8. /\ DOMAIN stack = 1 .. Len(stack) /\ Len(stack) \in Nat /\ n <= Len(stack)
      /\ DOMAIN stack' = 1 .. Len(stack') /\ Len(stack') \in Nat
      /\ \A i \in 1 .. n : i \in DOMAIN stack /\ i \in DOMAIN stack'
  BY <1>3, LenProperties DEF Grows, Keeps, TypeOK
<1>9. \A i \in 1 .. n : stack[i].fn = "delete" => stack[i].at # "prev"
  BY <1>8, StackShape DEF FramesOK, FrameOK
<1>10. HeadOK'
  <2>1. ~Doing("delete", "prev")'
    <3> SUFFICES ASSUME Doing("delete", "prev")' PROVE FALSE
      OBVIOUS
    <3>1. stack' # << >> /\ stack'[Len(stack')].fn = "delete" /\ stack'[Len(stack')].at = "prev"
      BY DEF Doing, Top
    <3>2. Len(stack') \in DOMAIN stack'
      BY <3>1, <1>8, StackShape, EmptySeq DEF TypeOK
    <3>3. Len(stack') \in 1 .. n
      BY <1>4, <3>1, <3>2
    <3>4. stack'[Len(stack')].fn = stack[Len(stack')].fn
      BY <3>3 DEF Grows, Keeps, Alike
    <3> QED
      BY <1>3, <1>9, <3>1, <3>3, <3>4
  <2> QED
    BY <2>1 DEF HeadOK
<1>11. FramesOK'
  <2> SUFFICES ASSUME NEW i \in DOMAIN stack' PROVE FrameOK(i)'
    BY DEF FramesOK
  <2>1. CASE i \in 1 .. n
    <3>1. FrameOK(i)
      BY <1>8, <2>1 DEF FramesOK
    <3>2. Under(i)' = Under(i)
      BY <1>3, <2>1
    <3>3. Reach(Par, Under(i)) \subseteq Slot
      BY ReachBase
    <3>4. LET A == Reach(Par, Under(i))
          IN  /\ Reach(Par', Under(i)') = A
              /\ \A q \in A : procs'[q].script = procs[q].script
              /\ (\A q \in A : procs'[q].mark = procs[q].mark) \/ ~Sweeping
      BY <1>1, <3>2, <3>3 DEF SameTree, SameMarks
    <3>5. stack[i].fn = "delete" /\ stack[i].at = "prev" => i = Len(stack')
      BY <1>9, <2>1
    <3>6. stack[i].fn = "delete" => Live(stack[i].p)
      BY <1>2, <1>8, <2>1 DEF Dies
    <3> QED
      BY <1>3, <2>1, <3>1, <3>4, <3>5, <3>6, KeptSay DEF Grows
  <2>2. CASE i = n + 1 /\ Len(stack') = n + 1
    <3> DEFINE A == Reach(Par, Doomed)
               g == stack'[i]
    <3>1. Reach(Par, Under(i))' = A
      BY <1>1, <1>4, <2>2
    <3>2. Pushed(g, n) /\ A \subseteq Slot
      BY <1>3, <2>2, ReachBase DEF Grows
    <3>3. /\ g.fn # "delete"
          /\ g.fn = "script" => g.p \notin A
          /\ g.fn = "endEach" => \A q \in A : procs'[q].script # g.at
          /\ g.fn = "endMarked" => \A q \in A : procs'[q].mark # g.at
      BY <3>2 DEF Pushed, SameTree, SameMarks
    <3>4. g.fn = "run" => \A j \in DOMAIN stack' : j < i => stack'[j].fn = "run"
      <4>1. \A j \in DOMAIN stack' : j < i => j \in 1 .. n
        BY <1>3, <1>8, <2>2
      <4> QED
        BY <3>2, <4>1 DEF Pushed, Grows, Keeps, Alike
    <3> QED
      BY <3>1, <3>3, <3>4 DEF FrameOK
  <2> QED
    BY <1>3, <1>4, <1>8, <2>1, <2>2
<1>12. GravesOK'
  <2>1. ASSUME NEW i \in DOMAIN stack', stack'[i].fn = "delete"
        PROVE  procs'[stack'[i].p].script # Nil
    <3>1. i \in 1 .. n
      BY <1>4, <2>1
    <3>2. stack[i].fn = "delete" /\ i \in DOMAIN stack /\ stack'[i] = stack[i]
      BY <1>3, <1>8, <2>1, <3>1 DEF Grows, Keeps, Alike
    <3>3. stack[i].p \in Slot /\ Live(stack[i].p)
      BY <1>2, <3>2, StackShape, FrameShape DEF Dies
    <3> QED
      BY <3>2, <3>3 DEF SameTree, Live
  <2>2. ASSUME NEW i \in DOMAIN stack', stack'[i].fn = "endMarked"
        PROVE  (\E K \in SUBSET Slot : Grave(K, i))'
    <3>1. CASE i \in 1 .. n
      <4>1. stack[i].fn = "endMarked" /\ stack[i].at = stack'[i].at /\ i \in DOMAIN stack
        BY <1>8, <2>2, <3>1 DEF Grows, Keeps, Alike
      <4>2. PICK K \in SUBSET Slot : Grave(K, i)
        BY <4>1 DEF GravesOK
      <4>3. Sweeping /\ SameMarks
        BY <4>1, <1>8, <2>2 DEF Sweeping
      <4>4. Above(i)' = Above(i)
        <5>1. ASSUME NEW j \in DOMAIN stack, stack[j].fn = "delete" PROVE j \in 1 .. n
          <6>1. j # Len(stack)
            BY <5>1, StackShape
          <6> QED
            BY <6>1, KeptDomain DEF Grows
        <5>2. {k \in DOMAIN stack : k > i /\ stack[k].fn = "delete"}'
              = {k \in DOMAIN stack : k > i /\ stack[k].fn = "delete"}
          BY <1>4, <1>8, <5>1 DEF Grows, Keeps, Alike
        <5>3. \A k \in DOMAIN stack : stack[k].fn = "delete" => stack'[k] = stack[k]
          BY <1>3, <5>1
        <5> HIDE DEF CoreInv
        <5> QED
          BY <5>2, <5>3 DEF Above
      <4> DEFINE Dead == K \cup {Nil} \cup Above(i)
      <4>5. \A k \in K : ~Live(k)' /\ procs'[k].ended
                         /\ {procs'[k].child, procs'[k].prev, procs'[k].next} \subseteq Dead
        BY <1>1, <4>2 DEF Grave, SameTree
      <4>6. \A q \in Slot : ~Live(q)' /\ procs'[q].mark = stack'[i].at => q \in K
        BY <1>1, <4>1, <4>2, <4>3 DEF Grave, SameMarks
      <4>7. \A j \in DOMAIN stack' : stack'[j].fn = "endMarked" => j = i
        <5> SUFFICES ASSUME NEW j \in DOMAIN stack', stack'[j].fn = "endMarked" PROVE j = i
          OBVIOUS
        <5>1. CASE j \in 1 .. n
          BY <1>8, <4>2, <5>1 DEF Grave, Grows, Keeps, Alike
        <5>2. CASE j = n + 1 /\ Len(stack') = n + 1
          <6>1. Len(stack') # n
            BY <1>3, <5>2
          <6> QED
            BY <4>3, <5>2, <6>1 DEF Grows, Pushed
        <5> QED
          BY <1>3, <1>4, <1>8, <5>1, <5>2
      <4>8. ASSUME NEW j \in DOMAIN stack', j > i, stack'[j].fn = "delete"
            PROVE  /\ procs'[stack'[j].p].next \in Dead
                   /\ stack'[j].at # "prev" => procs'[stack'[j].p].prev \in Dead
                   /\ stack'[j].at \in {"check", "free"} => procs'[stack'[j].p].child \in Dead
        <5>1. j \in 1 .. n
          BY <1>4, <4>8
        <5>2. stack[j].fn = "delete" /\ j \in DOMAIN stack /\ stack'[j] = stack[j]
          BY <1>3, <1>8, <4>8, <5>1 DEF Grows, Keeps, Alike
        <5>3. stack[j].p \in Slot /\ Live(stack[j].p)
          BY <1>2, <5>2, StackShape, FrameShape DEF Dies
        <5> QED
          BY <4>2, <4>8, <5>2, <5>3 DEF Grave, SameTree
      <4> HIDE DEF Dead
      <4>9. Dead = K \cup {Nil} \cup Above(i)'
        BY <4>4 DEF Dead
      <4>10. Grave(K, i)'
        BY <2>1, <4>5, <4>6, <4>7, <4>8, <4>9 DEF Grave, Live
      <4> QED
        BY <4>10
    <3>2. CASE i = n + 1 /\ Len(stack') = n + 1
      <4>1. Pushed(stack'[i], n)
        BY <1>3, <3>2 DEF Grows
      <4>2. /\ ~Sweeping /\ SameMarks
            /\ \A q \in Slot : procs[q].mark = stack'[i].at => Live(q)
        BY <2>2, <4>1 DEF Pushed
      <4>3. \A q \in Slot : ~Live(q)' /\ procs'[q].mark = stack'[i].at => FALSE
        BY <1>1, <4>2 DEF SameMarks
      <4>4. \A j \in DOMAIN stack' : stack'[j].fn = "endMarked" => j = i
        BY <1>4, <1>8, <3>2, <4>2 DEF Sweeping, Grows, Keeps, Alike
      <4>5. \A j \in DOMAIN stack' : ~(j > i)
        BY <1>8, <3>2
      <4>6. Grave({}, i)'
        BY <4>3, <4>4, <4>5 DEF Grave
      <4> QED
        BY <4>6
    <3> QED
      BY <1>3, <1>4, <1>8, <3>1, <3>2
  <2> QED
    BY <2>1, <2>2 DEF GravesOK, Live
<1> QED
  BY <1>5, <1>7, <1>10, <1>11, <1>12
-----------------------------------------------------------------------------
(* The steps that leave the trees alone. *)

(* Nothing is reached from nothing.                                         *)
LEMMA ReachNone ==
  ASSUME NEW f
  PROVE  Reach(f, {}) = {}
BY ReachLeast

(* The ancestors the guards of callbacks spare are the procs reached. *)
LEMMA UpwardReach ==
  ASSUME NEW S \in SUBSET Slot
  PROVE  Upward(S) = Reach(Par, S)
BY DEF Upward, Reach, Par

(* Unless DeleteProcessRecursive runs, the guards of the model (Dying,      *)
(* Upward) speak of what the proofs call Doomed.                            *)
LEMMA IdleDying ==
  ASSUME CoreInv, Idle
  PROVE  /\ Dying = Doomed /\ Doomed \subseteq Slot
         /\ Upward(Dying) = Reach(Par, Doomed)
<1>1. \A i \in DOMAIN stack : stack[i].fn = "delete" => Dies(i) /\ stack[i].p \in Slot
  BY IdleLive, StackShape, FrameShape DEF CoreInv
<1>2. {j \in DOMAIN stack : stack[j].fn = "delete"} = {j \in DOMAIN stack : Dies(j)}
  BY <1>1 DEF Dies
<1>3. Dying = Doomed /\ Doomed \subseteq Slot
  BY <1>1, <1>2 DEF Dying, Doomed, Dies
<1> QED
  BY <1>3, UpwardReach

(* What the running function may rely on. *)
LEMMA TopSays ==
  ASSUME CoreInv, Idle, stack # << >>
  PROVE  LET A == Reach(Par, Doomed)
         IN  /\ Top.fn = "script" => Top.p \notin A
             /\ Top.fn = "endEach" => \A q \in A : procs[q].script # Top.at
             /\ Top.fn = "endMarked" => \A q \in A : procs[q].mark # Top.at
             /\ Top.fn = "run" =>
                  /\ \A j \in DOMAIN stack : stack[j].fn = "run"
                  /\ Doomed = {} /\ A = {} /\ ~Sweeping
<1> DEFINE n == Len(stack)
<1>1. n \in DOMAIN stack /\ DOMAIN stack = 1 .. n /\ n \in Nat /\ Top = stack[n]
  BY StackTop DEF CoreInv
<1>2. \A j \in DOMAIN stack : Dies(j) => j < n
  <2>1. \A j \in DOMAIN stack : Dies(j) => j # n
    BY StackShape DEF CoreInv, Dies
  <2> QED
    BY <1>1, <2>1
<1>3. Under(n) = Doomed
  BY <1>2 DEF Under, Doomed
<1>4. FrameOK(n)
  BY <1>1 DEF CoreInv, FramesOK
<1>5. ASSUME Top.fn = "run"
      PROVE  (\A j \in DOMAIN stack : stack[j].fn = "run") /\ Doomed = {} /\ ~Sweeping
  <2>1. \A j \in DOMAIN stack : j < n \/ j = n
    BY <1>1
  <2>2. \A j \in DOMAIN stack : stack[j].fn = "run"
    BY <1>1, <1>4, <1>5, <2>1 DEF FrameOK
  <2> QED
    BY <2>2 DEF Doomed, Dies, Sweeping
<1> QED
  BY <1>1, <1>3, <1>4, <1>5, ReachNone DEF FrameOK

(* CoreInv is kept by a step that changes no link and at most returns.      *)
LEMMA QuietStay ==
  ASSUME CoreInv, TypeOK', SameTree, Idle, NEW s, NEW n, From(s, n), Len(stack) <= n + 1,
         stack' = s, SameMarks \/ (~Sweeping /\ Sweeping' = Sweeping)
  PROVE  CoreInv'
BY KeepsBase, QuietCore DEF Grows, CoreInv

(* CoreInv is kept by a step that changes no link and calls a function.     *)
LEMMA QuietPush ==
  ASSUME CoreInv, TypeOK', SameTree, Idle, NEW s, NEW n, From(s, n), Len(stack) <= n + 1,
         NEW f \in Frame, stack' = Append(s, f), Pushed(f, n),
         SameMarks \/ (~Sweeping /\ Sweeping' = Sweeping)
  PROVE  CoreInv'
BY KeepsPush, QuietCore DEF Grows, CoreInv

(* A function returns. *)
LEMMA QuietReturn ==
  ASSUME CoreInv, TypeOK', SameTree, SameMarks, Idle, stack # << >>, Return
  PROVE  CoreInv'
<1>1. From(Callers, Len(stack) - 1) /\ Len(stack) \in Nat
  BY FromCallers, StackTop DEF CoreInv
<1> DEFINE n == Len(stack) - 1
<1>2. Len(stack) <= n + 1
  BY <1>1
<1> HIDE DEF n
<1> QED
  BY <1>1, <1>2, QuietStay DEF Return, n

(* A function calls another and stays on the stack, or makes room for it. *)
LEMMA QuietCall ==
  ASSUME CoreInv, TypeOK', SameTree, Idle, stack # << >>, SameMarks,
         NEW f \in Frame, Pushed(f, Len(stack)),
         stack' = Append(stack, f)
  PROVE  CoreInv'
<1>1. From(stack, Len(stack)) /\ Len(stack) \in Nat
  BY FromStack, StackTop DEF CoreInv
<1> QED
  BY <1>1, QuietPush

(* CoreInv is kept by a step that changes no link and replaces the top by a *)
(* call.                                                                    *)
LEMMA QuietJump ==
  ASSUME CoreInv, TypeOK', SameTree, Idle, stack # << >>, SameMarks,
         NEW f \in Frame, Pushed(f, Len(stack)),
         stack' = Append(Callers, f)
  PROVE  CoreInv'
<1>1. From(Callers, Len(stack) - 1) /\ Len(stack) \in Nat \ {0}
  BY FromCallers, StackTop DEF CoreInv
<1> DEFINE n == Len(stack) - 1
<1>2. Len(stack) <= n + 1 /\ \A j \in 1 .. n : j \in 1 .. Len(stack)
  BY <1>1
<1> HIDE DEF n
<1>3. Pushed(f, n)
  BY <1>2 DEF Pushed
<1> QED
  BY <1>1, <1>2, <1>3, QuietPush DEF n

(* CoreInv is kept by a step that changes no link, moves the top on and     *)
(* calls a function.                                                        *)
LEMMA QuietMove ==
  ASSUME CoreInv, TypeOK', SameTree, Idle, stack # << >>, SameMarks,
         NEW g \in Frame, Alike(Top, g), NEW f \in Frame, Pushed(f, Len(stack)),
         stack' = Append(Append(Callers, g), f)
  PROVE  CoreInv'
<1> DEFINE s == Append(Callers, g)
<1>1. From(s, Len(stack)) /\ Len(stack) \in Nat /\ stack' = Append(s, f)
  BY FromTop, StackTop DEF CoreInv
<1> HIDE DEF s
<1> QED
  BY <1>1, QuietPush

(* CoreInv is kept by a step that changes neither links nor stack.          *)
LEMMA QuietTop ==
  ASSUME CoreInv, TypeOK', SameTree, Idle, stack' = stack,
         SameMarks \/ ~Sweeping
  PROVE  CoreInv'
<1>1. From(stack, Len(stack)) /\ Len(stack) \in Nat
  BY FromStack, StackShape DEF CoreInv
<1>2. Sweeping' = Sweeping
  BY DEF Sweeping
<1> QED
  BY <1>1, <1>2, QuietStay

(* A step that leaves the table alone changes no link and no mark.          *)
LEMMA Untouched ==
  UNCHANGED <<procs, freeList, root>> => SameTree /\ SameMarks
BY DEF SameTree, SameMarks

(* Proc_Run and RunProcessRecursive. *)
LEMMA QuietRuns ==
  ASSUME CoreInv, TypeOK',
         (\E r \in Root : Run(r)) \/ RunOlder \/ RunBlocked \/ RunScript \/ RunIdle \/ RunDone
  PROVE  CoreInv'
<1> USE DEF CoreInv
<1>1. SameTree /\ SameMarks
  BY Untouched DEF Run, RunOlder, RunBlocked, RunScript, RunIdle, RunDone
<1>2. CASE \E r \in Root : Run(r)
  <2>1. PICK r \in Root : Run(r)
    BY <1>2
  <2>2. stack = << >> /\ Idle /\ From(<< >>, 0) /\ Len(stack) <= 0 + 1
    <3>1. stack = << >>
      BY <2>1 DEF Run
    <3>2. From(<< >>, 0) /\ Len(stack) = 0
      BY <3>1, FromNone
    <3> QED
      BY <3>1, <3>2 DEF Idle
  <2>3. CASE root[r] = Nil
    BY <1>1, <2>1, <2>2, <2>3, QuietStay DEF Run
  <2>4. CASE root[r] # Nil
    <3> DEFINE f == [fn |-> "run", at |-> "prev", p |-> root[r]]
    <3>1. f \in Frame /\ stack' = Append(<< >>, f)
      BY <2>1, <2>4, NewFrames DEF Run, Call, TypeOK
    <3>2. Pushed(f, 0)
      BY DEF Pushed
    <3> HIDE DEF f
    <3> QED
      BY <1>1, <2>2, <3>1, <3>2, QuietPush
  <2> QED
    BY <2>3, <2>4
<1>3. ASSUME stack # << >>, Top.fn = "run" PROVE CoreInv'
      \/ ~(RunOlder \/ RunBlocked \/ RunScript \/ RunIdle \/ RunDone)
  <2>1. Idle /\ Top \in Frame /\ Top.p \in Slot
    BY <1>3, StackTop, FrameShape DEF Idle
  <2>2. /\ \A j \in DOMAIN stack : stack[j].fn = "run"
        /\ Reach(Par, Doomed) = {} /\ DOMAIN stack = 1 .. Len(stack)
    BY <1>3, <2>1, TopSays, StackTop
  <2>3. \A p \in Slot, a \in {"prev", "self", "idle", "ended"} :
          /\ [fn |-> "run", at |-> a, p |-> p] \in Frame
          /\ Pushed([fn |-> "run", at |-> a, p |-> p], Len(stack))
    BY <2>2, NewFrames DEF Pushed
  <2>4. /\ [fn |-> "script", at |-> "fetch", p |-> Top.p] \in Frame
        /\ Pushed([fn |-> "script", at |-> "fetch", p |-> Top.p], Len(stack))
        /\ [fn |-> "callback", at |-> "body", p |-> Top.p] \in Frame
        /\ Pushed([fn |-> "callback", at |-> "body", p |-> Top.p], Len(stack))
    BY <2>1, <2>2, NewFrames DEF Pushed
  <2>5. ASSUME NEW a \in {"prev", "self", "idle", "ended"}
        PROVE  /\ At(a) = Append(Callers, [fn |-> "run", at |-> a, p |-> Top.p])
               /\ Alike(Top, [fn |-> "run", at |-> a, p |-> Top.p])
               /\ [fn |-> "run", at |-> a, p |-> Top.p] \in Frame
    BY <1>3, <2>1, <2>3, Moved DEF Alike
  <2>6. procs[Top.p].child \in Slot \cup {Nil} /\ procs[Top.p].prev \in Slot \cup {Nil}
    BY <2>1, ProcFields
  <2>7. CASE RunOlder
    <3> DEFINE g == [fn |-> "run", at |-> "self", p |-> Top.p]
               f == [fn |-> "run", at |-> "prev", p |-> procs[Top.p].prev]
    <3>1. g \in Frame /\ Alike(Top, g) /\ f \in Frame /\ Pushed(f, Len(stack))
          /\ stack' = Append(Append(Callers, g), f)
      BY <2>3, <2>5, <2>6, <2>7 DEF RunOlder, Call
    <3> HIDE DEF f, g
    <3> QED
      BY <1>1, <1>3, <2>1, <3>1, QuietMove
  <2>8. ASSUME RunChildren(Top.p) PROVE CoreInv'
    <3>1. CASE procs[Top.p].child = Nil
      BY <1>1, <1>3, <2>1, <2>8, <3>1, QuietReturn DEF RunChildren, Return
    <3>2. CASE procs[Top.p].child # Nil
      <4> DEFINE f == [fn |-> "run", at |-> "prev", p |-> procs[Top.p].child]
      <4>1. f \in Frame /\ Pushed(f, Len(stack)) /\ stack' = Append(Callers, f)
        BY <2>3, <2>6, <2>8, <3>2 DEF RunChildren, Call
      <4> HIDE DEF f
      <4> QED
        BY <1>1, <1>3, <2>1, <4>1, QuietJump
    <3> QED
      BY <3>1, <3>2
  <2>9. CASE RunBlocked
    BY <2>8, <2>9 DEF RunBlocked
  <2>10. CASE RunScript
    <3> DEFINE g == [fn |-> "run", at |-> "idle", p |-> Top.p]
               f == [fn |-> "script", at |-> "fetch", p |-> Top.p]
    <3>1. g \in Frame /\ Alike(Top, g) /\ f \in Frame /\ Pushed(f, Len(stack))
          /\ stack' = Append(Append(Callers, g), f)
      BY <2>4, <2>5, <2>10 DEF RunScript, Call
    <3> HIDE DEF f, g
    <3> QED
      BY <1>1, <1>3, <2>1, <3>1, QuietMove
  <2>11. CASE RunIdle
    <3> DEFINE g == [fn |-> "run", at |-> "ended", p |-> Top.p]
               f == [fn |-> "callback", at |-> "body", p |-> Top.p]
    <3>1. g \in Frame /\ Alike(Top, g) /\ f \in Frame /\ Pushed(f, Len(stack))
          /\ stack' = Append(Append(Callers, g), f)
      BY <2>4, <2>5, <2>11 DEF RunIdle, Call
    <3> HIDE DEF f, g
    <3> QED
      BY <1>1, <1>3, <2>1, <3>1, QuietMove
  <2>12. CASE RunDone
    <3>1. Return \/ RunChildren(Top.p)
      BY <2>12 DEF RunDone
    <3> QED
      BY <1>1, <1>3, <2>1, <2>8, <3>1, QuietReturn
  <2> QED
    BY <2>7, <2>9, <2>10, <2>11, <2>12
<1>4. RunOlder \/ RunBlocked \/ RunScript \/ RunIdle \/ RunDone => stack # << >> /\ Top.fn = "run"
  BY DEF RunOlder, RunBlocked, RunScript, RunIdle, RunDone, ItsTurn, Doing
<1> QED
  BY <1>2, <1>3, <1>4

(* RunProcessScript, callbacks and the loops over the table. *)
LEMMA QuietCalls ==
  ASSUME CoreInv, TypeOK',
         \/ ScriptReturn \/ CmdCall \/ CmdRepeat \/ CallbackReturn
         \/ CallSetRepeat \/ Break \/ BreakEach \/ EndEach \/ BlockMarked \/ UnblockMarked
         \/ FinishStart
  PROVE  CoreInv'
<1> USE DEF CoreInv
<1>1. /\ stack # << >> /\ Idle
      /\ Doing("script", "fetch") \/ Doing("callback", "body") \/ FinishStart
  BY DEF ScriptReturn, CmdCall, CmdRepeat, CallbackReturn, CallSetRepeat, Break, BreakEach,
         EndEach, BlockMarked, UnblockMarked, FinishStart, Fetching, InCallback, Doing, Idle
<1>2. /\ Top.fn = "script" => Top.p \notin Reach(Par, Doomed)
      /\ Top.fn \in {"script", "callback"} => Top.p \in Slot
      /\ procs \in [Slot -> Proc]
  BY <1>1, TopSays, StackTop, FrameShape DEF TypeOK
<1>3. CASE ScriptReturn \/ CallbackReturn
  BY <1>1, <1>3, Untouched, QuietReturn DEF ScriptReturn, CallbackReturn
<1>4. CASE CmdCall
  <2> DEFINE f == [fn |-> "callback", at |-> "body", p |-> Top.p]
  <2>1. f \in Frame /\ Pushed(f, Len(stack)) /\ SameTree /\ SameMarks
        /\ (stack' = Append(stack, f) \/ stack' = Append(Callers, f))
    BY <1>1, <1>2, <1>4, NewFrames, Untouched DEF CmdCall, Call, Pushed, Fetching, Doing
  <2> HIDE DEF f
  <2> QED
    BY <1>1, <2>1, QuietCall, QuietJump
<1>5. CASE CmdRepeat
  <2>1. SameTree /\ SameMarks
    BY <1>2, <1>5 DEF CmdRepeat, SameTree, SameMarks
  <2> QED
    BY <1>1, <1>5, <2>1, QuietReturn DEF CmdRepeat
<1>6. CASE CallSetRepeat \/ Break \/ BreakEach \/ BlockMarked \/ UnblockMarked
  <2>1. SameTree /\ SameMarks
    <3>1. CASE CallSetRepeat
      BY <1>2, <3>1 DEF CallSetRepeat, SameTree, SameMarks
    <3>2. CASE Break
      BY <1>2, <3>2 DEF Break, SameTree, SameMarks
    <3>3. CASE BreakEach
      <4>1. PICK s \in Script :
              procs' = [q \in Slot |-> [procs[q] EXCEPT
                          !.idle = IF procs[q].script = s THEN FALSE ELSE @]]
        BY <3>3 DEF BreakEach
      <4>2. ASSUME NEW p \in Slot
            PROVE  /\ procs'[p].script = procs[p].script /\ procs'[p].parent = procs[p].parent
                   /\ procs'[p].child = procs[p].child /\ procs'[p].next = procs[p].next
                   /\ procs'[p].prev = procs[p].prev /\ procs'[p].ended = procs[p].ended
                   /\ procs'[p].mark = procs[p].mark
        BY <4>1, ProcFields DEF Proc
      <4> QED
        BY <3>3, <4>2 DEF BreakEach, SameTree, SameMarks
    <3>4. CASE BlockMarked
      BY <1>2, <3>4, ProcFields DEF BlockMarked, SameTree, SameMarks, Proc
    <3>5. CASE UnblockMarked
      BY <1>2, <3>5, ProcFields DEF UnblockMarked, SameTree, SameMarks, Proc
    <3> QED
      BY <1>6, <3>1, <3>2, <3>3, <3>4, <3>5
  <2>2. stack' = stack
    BY <1>6 DEF CallSetRepeat, Break, BreakEach, BlockMarked, UnblockMarked
  <2> QED
    BY <1>1, <2>1, <2>2, QuietTop
<1>7. CASE EndEach
  <2>1. PICK s \in Script : /\ \A q \in Upward(Dying) : procs[q].script # s
                            /\ stack' = Call(stack, "endEach", 1, s)
    BY <1>7 DEF EndEach
  <2> DEFINE f == [fn |-> "endEach", at |-> s, p |-> 1]
  <2>2. f \in Frame
    BY LoopFrames, ProcAssumption
  <2>3. Pushed(f, Len(stack)) /\ SameTree /\ SameMarks /\ stack' = Append(stack, f)
    BY <1>1, <1>7, <2>1, IdleDying, Untouched DEF EndEach, Call, Pushed
  <2> HIDE DEF f
  <2> QED
    BY <1>1, <2>2, <2>3, QuietCall
<1>8. CASE FinishStart
  <2>1. SameTree /\ SameMarks
    <3>1. ASSUME NEW q \in Slot
          PROVE  /\ procs'[q].script = procs[q].script /\ procs'[q].parent = procs[q].parent
                 /\ procs'[q].child = procs[q].child /\ procs'[q].next = procs[q].next
                 /\ procs'[q].prev = procs[q].prev /\ procs'[q].ended = procs[q].ended
                 /\ procs'[q].mark = procs[q].mark
      <4>1. \E a, b, c : procs'[q]
              = [procs[q] EXCEPT !.starting = a, !.blocking = b, !.lock = c]
        BY <1>8 DEF FinishStart
      <4>2. procs[q] \in Proc
        BY ProcFields
      <4> QED
        BY <4>1, <4>2 DEF Proc
    <3> QED
      BY <1>8, <3>1 DEF FinishStart, SameTree, SameMarks
  <2> QED
    BY <1>1, <1>8, <2>1, QuietReturn DEF FinishStart
<1> QED
  BY <1>3, <1>4, <1>5, <1>6, <1>7, <1>8

(* The loops over the table reach their end. *)
LEMMA QuietLoops ==
  ASSUME CoreInv, TypeOK', stack # << >>, Top.fn \in {"endEach", "endMarked"}, Return,
         UNCHANGED <<procs, freeList, root>>
  PROVE  CoreInv'
BY Untouched, QuietReturn DEF Idle

(* Steps that touch marks. *)
LEMMA QuietMarks ==
  ASSUME Careful, CoreInv, TypeOK', SetMark \/ CallEndMarked
  PROVE  CoreInv'
<1> USE DEF CoreInv
<1>1. stack # << >> /\ Idle
  BY DEF SetMark, CallEndMarked, Fetching, InCallback, Doing, Idle
<1>2. CASE SetMark
  <2>1. SameTree /\ ~Sweeping /\ stack' = stack
    BY <1>2 DEF SetMark, SameTree, TypeOK
  <2> QED
    BY <1>1, <2>1, QuietTop
<1>3. CASE CallEndMarked
  <2>1. PICK m \in Mark : /\ \A q \in Upward(Dying) : procs[q].mark # m
                          /\ ~Sweeping /\ \A q \in Slot : procs[q].mark = m => Live(q)
                          /\ stack' = Call(stack, "endMarked", 1, m)
    BY <1>3 DEF CallEndMarked
  <2> DEFINE f == [fn |-> "endMarked", at |-> m, p |-> 1]
  <2>2. f \in Frame
    BY LoopFrames, ProcAssumption
  <2>3. SameTree /\ SameMarks
    BY <1>3, Untouched DEF CallEndMarked
  <2>4. Pushed(f, Len(stack)) /\ stack' = Append(stack, f)
    BY <1>1, <2>1, <2>3, IdleDying DEF Call, Pushed
  <2> HIDE DEF f
  <2> QED
    BY <1>1, <2>2, <2>3, <2>4, QuietCall
<1> QED
  BY <1>2, <1>3
-----------------------------------------------------------------------------
(* Trees and lists. *)

(* Ancestors of live procs are alive. *)
LEMMA LiveReach ==
  ASSUME TypeOK, TreeOK, NEW S, \A x \in S \cap Slot : Live(x)
  PROVE  \A x \in Reach(Par, S) : Live(x)
<1> DEFINE C == {x \in Slot : Live(x)}
<1>1. S \cap Slot \subseteq C
  OBVIOUS
<1>2. \A x \in C : Par[x] \in Slot => Par[x] \in C
  BY Slots DEF TreeOK, Par
<1>3. \A x \in C : Live(x)
  OBVIOUS
<1> HIDE DEF C
<1> QED
  BY <1>1, <1>2, <1>3, ReachLeast

(* A list holds what it leads to. *)
LEMMA ListReach ==
  ASSUME TypeOK, NEW par, ListOK(par)
  PROVE  Reach(Back, {Newest(par)}) = Kids(par)
<1>1. {Newest(par)} \cap Slot \subseteq Kids(par)
  BY Slots DEF ListOK
<1>2. \A x \in Kids(par) : Back[x] \in Slot => Back[x] \in Kids(par)
  BY Slots DEF ListOK, Back, Kids
<1>3. Reach(Back, {Newest(par)}) \subseteq Kids(par)
  BY <1>1, <1>2, ReachLeast
<1> QED
  BY <1>3 DEF ListOK

(* The doomed are live slots, the closing ones among them.                  *)
LEMMA DoomedLive ==
  ASSUME TypeOK
  PROVE  /\ Doomed \subseteq Reach(Par, Doomed) /\ Doomed \subseteq Slot
         /\ \A x \in Doomed : Live(x)
         /\ Closing \subseteq Doomed
         /\ Open \subseteq Root \cup Slot
<1>1. Doomed \subseteq Slot /\ \A x \in Doomed : Live(x)
  BY StackShape, FrameShape DEF Doomed, Dies
<1>2. Closing \subseteq Doomed
  BY DEF Closing, Doomed
<1> QED
  BY <1>1, <1>2, ReachBase DEF Open
-----------------------------------------------------------------------------
(* Proc_Start. *)

Fresh == Head(freeList)      \* the slot AllocateProcess takes

(* AllocateProcess takes a slot that is free and leaves the free list       *)
(* exact.                                                                   *)
LEMMA StartList ==
  ASSUME TypeOK, FreeListExact, freeList # << >>, freeList' = Tail(freeList),
         \A q \in Slot : Live(q)' <=> Live(q) \/ q = Fresh
  PROVE  Fresh \in Slot /\ ~Live(Fresh) /\ FreeListExact'
<1>1. /\ freeList \in Seq(Slot) /\ Len(freeList) \in Nat \ {0}
      /\ DOMAIN freeList = 1 .. Len(freeList)
      /\ Fresh = freeList[1] /\ Fresh \in Slot
      /\ Tail(freeList) \in Seq(Slot) /\ Len(Tail(freeList)) = Len(freeList) - 1
      /\ \A i \in 1 .. Len(freeList) - 1 : Tail(freeList)[i] = freeList[i + 1]
      /\ DOMAIN Tail(freeList) = 1 .. Len(freeList) - 1
  BY HeadTailProperties, EmptySeq, LenProperties DEF TypeOK, Fresh
<1>2. ~Live(Fresh)
  BY <1>1 DEF FreeListExact
<1> DEFINE f == freeList
           g == Tail(freeList)
<1>3. /\ \A i, j \in 1 .. Len(f) : i # j => f[i] # f[j]
      /\ {f[i] : i \in 1 .. Len(f)} = {q \in Slot : ~Live(q)}
  BY <1>1 DEF FreeListExact
<1>4. /\ Len(f) \in Nat \ {0} /\ Fresh = f[1] /\ DOMAIN g = 1 .. Len(f) - 1
      /\ \A i \in 1 .. Len(f) - 1 : g[i] = f[i + 1]
  BY <1>1
<1> HIDE DEF f, g
<1>5. \A i, j \in 1 .. Len(f) - 1 : i # j => g[i] # g[j]
  BY <1>3, <1>4
<1>6. {g[i] : i \in 1 .. Len(f) - 1} = {q \in Slot : ~Live(q)} \ {Fresh}
  <2>1. ASSUME NEW i \in 1 .. Len(f) - 1
        PROVE  g[i] \in {q \in Slot : ~Live(q)} \ {Fresh}
    <3>1. i + 1 \in 1 .. Len(f) /\ 1 \in 1 .. Len(f) /\ i + 1 # 1
      BY <1>4
    <3> QED
      BY <1>3, <1>4, <3>1
  <2>2. ASSUME NEW q \in {q \in Slot : ~Live(q)} \ {Fresh}
        PROVE  q \in {g[i] : i \in 1 .. Len(f) - 1}
    <3>1. PICK k \in 1 .. Len(f) : q = f[k]
      BY <1>3
    <3>2. k # 1
      BY <1>4, <3>1
    <3>3. k - 1 \in 1 .. Len(f) - 1 /\ (k - 1) + 1 = k
      BY <1>4, <3>2
    <3>4. g[k - 1] = q
      BY <1>4, <3>1, <3>3
    <3> QED
      BY <3>3, <3>4
  <2> QED
    BY <2>1, <2>2
<1>7. {q \in Slot : ~Live(q)}' = {q \in Slot : ~Live(q)} \ {Fresh}
  OBVIOUS
<1>8. FreeListExact'
  <2>1. /\ \A i, j \in DOMAIN freeList' : i # j => freeList'[i] # freeList'[j]
        /\ {freeList'[i] : i \in DOMAIN freeList'} = {q \in Slot : ~Live(q)}'
    BY <1>4, <1>5, <1>6, <1>7 DEF g
  <2> QED
    BY <2>1 DEF FreeListExact
<1> QED
  BY <1>1, <1>2, <1>8

(* What Proc_Start writes. *)
Started(s, par) ==
  /\ procs'[Fresh].script = s /\ procs'[Fresh].parent = par /\ procs'[Fresh].child = Nil
  /\ procs'[Fresh].next = Nil /\ procs'[Fresh].prev = Newest(par)
  /\ ~procs'[Fresh].ended /\ ~procs'[Fresh].blocking /\ procs'[Fresh].starting
  /\ procs'[Fresh].mark = Nil /\ procs'[Fresh].lock = 0
  /\ \A q \in Slot \ {Fresh} :
       /\ procs'[q].script = procs[q].script /\ procs'[q].parent = procs[q].parent
       /\ procs'[q].prev = procs[q].prev /\ procs'[q].ended = procs[q].ended
       /\ procs'[q].mark = procs[q].mark /\ procs'[q].lock = procs[q].lock
       /\ procs'[q].blocking = procs[q].blocking
       /\ procs'[q].next = IF q = Newest(par) THEN Fresh ELSE procs[q].next
       /\ procs'[q].child = IF q = par THEN Fresh ELSE procs[q].child

(* What Proc_Start writes: a live slot more, which is the newest child of   *)
(* its parent.                                                              *)
LEMMA StartWrites ==
  ASSUME TypeOK, FreeListExact, NEW frames, NEW s \in Script, NEW par \in Root \cup Slot,
         NEW kind, Start(frames, s, par, kind), par \in Slot => Live(par)
  PROVE  /\ Started(s, par) /\ Fresh \in Slot /\ ~Live(Fresh) /\ par # Fresh
         /\ \A q \in Slot : Live(q)' <=> Live(q) \/ q = Fresh
         /\ FreeListExact'
         /\ \A x \in Root \cup Slot :
              Newest(x)' = IF x = par THEN Fresh ELSE IF x = Fresh THEN Nil ELSE Newest(x)
<1>1. /\ freeList # << >> /\ freeList' = Tail(freeList)
      /\ procs' = [q \in Slot |->
           IF q = Fresh
           THEN [script |-> s, parent |-> par, child |-> Nil, next |-> Nil,
                 prev |-> Newest(par), mark |-> Nil, lock |-> 0, idle |-> FALSE,
                 ended |-> FALSE, blocking |-> FALSE, starting |-> TRUE]
           ELSE [procs[q] EXCEPT !.next  = IF q = Newest(par) THEN Fresh ELSE @,
                                 !.child = IF q = par THEN Fresh ELSE @]]
      /\ root' = IF par \in Root THEN [root EXCEPT ![par] = Fresh] ELSE root
  BY DEF Start, Fresh
<1>2. Fresh \in Slot
  BY <1>1, HeadTailProperties DEF TypeOK, Fresh
<1>3. Started(s, par)
  <2>1. /\ procs'[Fresh].script = s /\ procs'[Fresh].parent = par /\ procs'[Fresh].child = Nil
        /\ procs'[Fresh].next = Nil /\ procs'[Fresh].prev = Newest(par)
        /\ ~procs'[Fresh].ended /\ ~procs'[Fresh].blocking /\ procs'[Fresh].starting
        /\ procs'[Fresh].mark = Nil /\ procs'[Fresh].lock = 0
    BY <1>1, <1>2
  <2>2. ASSUME NEW q \in Slot \ {Fresh}
        PROVE  /\ procs'[q].script = procs[q].script /\ procs'[q].parent = procs[q].parent
               /\ procs'[q].prev = procs[q].prev /\ procs'[q].ended = procs[q].ended
               /\ procs'[q].mark = procs[q].mark /\ procs'[q].lock = procs[q].lock
               /\ procs'[q].blocking = procs[q].blocking
               /\ procs'[q].next = IF q = Newest(par) THEN Fresh ELSE procs[q].next
               /\ procs'[q].child = IF q = par THEN Fresh ELSE procs[q].child
    BY <1>1, ProcFields DEF Proc
  <2> QED
    BY <2>1, <2>2 DEF Started
<1>4. \A q \in Slot : Live(q)' <=> Live(q) \/ q = Fresh
  BY <1>2, <1>3, Slots DEF Started, Live
<1>5. ~Live(Fresh) /\ FreeListExact'
  BY <1>1, <1>4, StartList
<1>6. par # Fresh
  BY <1>2, <1>5, Slots
<1>7. ASSUME NEW x \in Root \cup Slot
      PROVE  Newest(x)' = IF x = par THEN Fresh ELSE IF x = Fresh THEN Nil ELSE Newest(x)
  <2>1. CASE x \in Root
    BY <1>1, <1>2, <2>1, Slots DEF Newest, TypeOK
  <2>2. CASE x \in Slot
    BY <1>2, <1>3, <1>6, <2>2, Slots DEF Newest, Started
  <2> QED
    BY <2>1, <2>2
<1> QED
  BY <1>2, <1>3, <1>4, <1>5, <1>6, <1>7

(* The new proc becomes the newest of a list.                               *)
LEMMA StartTree ==
  ASSUME CoreInv, TypeOK', Idle, NEW frames, NEW s \in Script, NEW par \in Root \cup Slot,
         NEW kind, Start(frames, s, par, kind),
         par \in Slot => Live(par) /\ par \notin Reach(Par, Doomed),
         Doomed' = Doomed, Closing' = Closing
  PROVE  /\ TreeOK' /\ (\A x \in Open : ListOK(x))'
         /\ \A x \in Closing : Kids(x)' = {}
         /\ \A S \in SUBSET Slot : (\A x \in S : Live(x)) => Reach(Par', S) = Reach(Par, S)
<1> USE DEF CoreInv
<1>1. /\ Started(s, par) /\ Fresh \in Slot /\ ~Live(Fresh) /\ par # Fresh
      /\ \A q \in Slot : Live(q)' <=> Live(q) \/ q = Fresh
      /\ \A x \in Root \cup Slot :
           Newest(x)' = IF x = par THEN Fresh ELSE IF x = Fresh THEN Nil ELSE Newest(x)
  BY StartWrites
<1>2. /\ Doomed \subseteq Reach(Par, Doomed) /\ Doomed \subseteq Slot
      /\ \A x \in Doomed : Live(x)
      /\ Closing \subseteq Doomed
      /\ Open \subseteq Root \cup Slot
  BY DoomedLive
<1>3. par \in Open /\ ListOK(par)
  BY <1>2 DEF Open
<1> DEFINE sib == Newest(par)
<1>4. sib # Nil => sib \in Kids(par)
  BY <1>3 DEF ListOK
<1>5. ASSUME NEW S, \A x \in S \cap Slot : Live(x)
      PROVE  Reach(Par', S) = Reach(Par, S)
  <2>1. \A x \in Reach(Par, S) : x \in Slot /\ x # Fresh
    BY <1>1, <1>5, LiveReach, ReachBase
  <2>2. \A x \in Reach(Par, S) : Par'[x] = Par[x]
    BY <1>1, <2>1 DEF Started, Par
  <2> QED
    BY <2>2, ReachSame
<1>6. TreeOK'
  <2>1. ASSUME NEW q \in Slot, Live(q)'
        PROVE  /\ ~procs'[q].ended
               /\ procs'[q].parent \in Root
                  \/ (procs'[q].parent \in Slot /\ procs'[procs'[q].parent].script # Nil)
               /\ q \notin Reach(Par', {procs'[q].parent})
    <3>1. CASE q = Fresh
      <4>1. procs'[q].parent = par /\ ~procs'[q].ended
        BY <1>1, <3>1 DEF Started
      <4>2. par \in Root \/ (par \in Slot /\ procs'[par].script # Nil)
        BY <1>1 DEF Live
      <4>3. \A x \in {par} \cap Slot : Live(x)
        OBVIOUS
      <4>4. q \notin Reach(Par, {par})
        BY <1>1, <3>1, <4>3, LiveReach
      <4> QED
        BY <1>5, <4>1, <4>2, <4>3, <4>4
    <3>2. CASE q # Fresh
      <4>1. procs'[q].parent = procs[q].parent /\ procs'[q].ended = procs[q].ended
        BY <1>1, <3>2 DEF Started
      <4>2. /\ Live(q) /\ ~procs[q].ended
            /\ procs[q].parent \in Root \/ (procs[q].parent \in Slot /\ Live(procs[q].parent))
            /\ q \notin Reach(Par, {procs[q].parent})
        BY <1>1, <2>1, <3>2 DEF TreeOK
      <4>3. \A x \in {procs[q].parent} \cap Slot : Live(x)
        BY <4>2, Slots
      <4>4. procs[q].parent \in Root \/ (procs[q].parent \in Slot /\ procs'[procs[q].parent].script # Nil)
        BY <1>1, <4>2 DEF Live
      <4> QED
        BY <1>5, <4>1, <4>2, <4>3, <4>4
    <3> QED
      BY <3>1, <3>2
  <2> QED
    BY <2>1 DEF TreeOK, Live
<1>7. \A x \in Root \cup Slot : Kids(x)' = IF x = par THEN Kids(x) \cup {Fresh}
                                           ELSE IF x = Fresh THEN {} ELSE Kids(x)
  <2> SUFFICES ASSUME NEW x \in Root \cup Slot, NEW q \in Slot
               PROVE  q \in Kids(x)' <=> q \in IF x = par THEN Kids(x) \cup {Fresh}
                                               ELSE IF x = Fresh THEN {} ELSE Kids(x)
    BY <1>1 DEF Kids
  <2>1. q \in Kids(x)' <=> Live(q)' /\ procs'[q].parent = x /\ q \notin Doomed
    BY DEF Kids
  <2>2. CASE q = Fresh
    BY <1>1, <1>2, <2>1, <2>2 DEF Started, Kids
  <2>3. CASE q # Fresh
    <3>1. Live(q)' <=> Live(q)
      BY <1>1, <2>3
    <3>2. procs'[q].parent = procs[q].parent
      BY <1>1, <2>3 DEF Started
    <3>3. q \in Kids(Fresh) => FALSE
      BY <1>1, Slots DEF Kids, TreeOK
    <3> QED
      BY <1>1, <2>1, <2>3, <3>1, <3>2, <3>3 DEF Kids
  <2> QED
    BY <2>2, <2>3
<1>8. \A x \in Closing : Kids(x)' = {}
  <2> SUFFICES ASSUME NEW x \in Closing PROVE Kids(x)' = {}
    OBVIOUS
  <2>1. x \in Slot /\ x # par /\ x # Fresh /\ Kids(x) = {}
    BY <1>1, <1>2, IdleClosed, Slots
  <2> QED
    BY <1>7, <2>1
<1>9. \A x \in Open' : x = Fresh \/ x \in Open
  BY <1>1 DEF Open
<1>10. Fresh \notin Kids(par) /\ Fresh # sib
  BY <1>1, <1>4, Slots DEF Kids
<1>11. ASSUME NEW x \in Slot, x = Fresh PROVE ListOK(x)'
  <2>1. Newest(x)' = Nil /\ Kids(x)' = {}
    BY <1>1, <1>7, <1>11
  <2> QED
    BY <2>1 DEF ListOK
<1>12. ASSUME NEW x \in Open, x # par PROVE ListOK(x)'
  <2>1. x # Fresh /\ x \in Root \cup Slot /\ ListOK(x)
    BY <1>1, <1>2, Slots DEF Open
  <2>2. Newest(x)' = Newest(x) /\ Kids(x)' = Kids(x)
    BY <1>1, <1>7, <1>12, <2>1
  <2>3. \A q \in Kids(x) : q \in Slot /\ q # Fresh /\ q # sib
    BY <1>1, <1>4, <1>12, Slots DEF Kids
  <2>4. \A q \in Kids(x) : procs'[q].prev = procs[q].prev /\ procs'[q].next = procs[q].next
    BY <1>1, <2>3 DEF Started
  <2>5. /\ \A q \in Kids(x) : procs[q].prev # Nil => procs[q].prev \in Kids(x)
        /\ \A q \in Kids(x) : procs[q].next # Nil => procs[q].next \in Kids(x)
    BY <2>1 DEF ListOK
  <2>6. \A q \in Kids(x) : q \in Reach(Back', {Newest(x)})
    <3>1. Reach(Back, {Newest(x)}) = Kids(x)
      BY <2>1, ListReach
    <3>2. \A q \in Kids(x) : Back'[q] = Back[q]
      BY <2>3, <2>4 DEF Back
    <3> QED
      BY <3>1, <3>2, ReachSame
  <2>7. \A q \in Kids(x) : procs'[q].prev # Nil => procs'[procs'[q].prev].next = q
    BY <2>1, <2>4, <2>5 DEF ListOK
  <2>8. \A q \in Kids(x) : procs'[q].next # Nil => procs'[procs'[q].next].prev = q
    BY <2>1, <2>4, <2>5 DEF ListOK
  <2>9. /\ Newest(x) = Nil => Kids(x) = {}
        /\ Newest(x) # Nil => Newest(x) \in Kids(x)
        /\ \A q \in Kids(x) : procs'[q].prev \in Kids(x) \cup {Nil}
        /\ \A q \in Kids(x) : procs'[q].next \in Kids(x) \cup {Nil}
        /\ \A q \in Kids(x) : procs'[q].next = Nil <=> Newest(x) = q
    BY <2>1, <2>4 DEF ListOK
  <2> DEFINE K == Kids(x)
             m == Newest(x)
  <2>10. /\ Newest(x)' = m /\ Kids(x)' = K
         /\ (m = Nil => K = {}) /\ (m # Nil => m \in K)
         /\ \A q \in K : procs'[q].prev \in K \cup {Nil}
         /\ \A q \in K : procs'[q].next \in K \cup {Nil}
         /\ \A q \in K : procs'[q].next = Nil <=> m = q
         /\ \A q \in K : q \in Reach(Back', {m})
         /\ \A q \in K : procs'[q].prev # Nil => procs'[procs'[q].prev].next = q
         /\ \A q \in K : procs'[q].next # Nil => procs'[procs'[q].next].prev = q
    BY <2>2, <2>6, <2>7, <2>8, <2>9
  <2> HIDE DEF K, m
  <2>11. CASE m = Nil
    BY <2>10, <2>11 DEF ListOK
  <2>12. CASE m # Nil
    <3>1. Newest(x)' # Nil /\ Newest(x)' \in K
      BY <2>10, <2>12
    <3> QED
      BY <2>10, <3>1 DEF ListOK
  <2> QED
    BY <2>11, <2>12
<1>13. ListOK(par)'
  <2> DEFINE K == Kids(par) \cup {Fresh}
  <2>1. Newest(par)' = Fresh /\ Kids(par)' = K
    BY <1>1, <1>7
  <2>2. /\ \A q \in Kids(par) : q \in Slot /\ q # Fresh
        /\ \A q \in Kids(par) : procs'[q].prev = procs[q].prev
        /\ \A q \in Kids(par) : procs'[q].next = IF q = sib THEN Fresh ELSE procs[q].next
        /\ procs'[Fresh].prev = sib /\ procs'[Fresh].next = Nil
    BY <1>1, <1>10 DEF Started, Kids
  <2>3. ASSUME NEW q \in Kids(par)
        PROVE  /\ procs[q].prev \in Kids(par) \cup {Nil}
               /\ procs[q].next \in Kids(par) \cup {Nil}
               /\ procs[q].prev # Nil => procs[procs[q].prev].next = q
               /\ procs[q].next # Nil => procs[procs[q].next].prev = q
               /\ procs[q].next = Nil <=> sib = q
               /\ q # Nil
    BY <1>3, Slots DEF ListOK, Kids
  <2>4. \A q \in K : procs'[q].prev \in K \cup {Nil} /\ procs'[q].next \in K \cup {Nil}
    BY <1>4, <2>2, <2>3
  <2>5. ASSUME NEW q \in K, procs'[q].prev # Nil PROVE procs'[procs'[q].prev].next = q
    <3>1. CASE q = Fresh
      BY <1>4, <2>2, <2>5, <3>1
    <3>2. CASE q # Fresh
      <4>1. q \in Kids(par) /\ procs[q].prev \in Kids(par) /\ procs[procs[q].prev].next = q
            /\ procs'[q].prev = procs[q].prev /\ q # Nil
        BY <2>2, <2>3, <2>5, <3>2
      <4>2. procs[q].prev # sib
        BY <2>3, <4>1
      <4> QED
        BY <2>2, <4>1, <4>2
    <3> QED
      BY <3>1, <3>2
  <2>6. ASSUME NEW q \in K, procs'[q].next # Nil PROVE procs'[procs'[q].next].prev = q
    <3>1. q \in Kids(par)
      BY <2>2, <2>6
    <3>2. CASE q = sib
      BY <2>2, <3>1, <3>2
    <3>3. CASE q # sib
      BY <2>2, <2>3, <2>6, <3>1, <3>3
    <3> QED
      BY <3>2, <3>3
  <2>7. \A q \in K : procs'[q].next = Nil <=> Fresh = q
    BY <1>1, <2>2, <2>3, Slots
  <2>8. \A q \in K : q \in Reach(Back', {Fresh})
    <3>1. Reach(Back', {Fresh}) = {Fresh} \cup Reach(Back', {sib})
      <4>1. Back'[Fresh] = sib
        BY <1>1, <2>2 DEF Back
      <4> QED
        BY <1>1, <4>1, ReachHead
    <3>2. Reach(Back, {sib}) = Kids(par)
      BY <1>3, ListReach
    <3>3. \A q \in Kids(par) : Back'[q] = Back[q]
      BY <2>2 DEF Back
    <3>4. Reach(Back', {sib}) = Kids(par)
      BY <3>2, <3>3, ReachSame
    <3> QED
      BY <3>1, <3>4
  <2> HIDE DEF K
  <2>9. Newest(par)' # Nil /\ Newest(par)' \in K
    BY <1>1, <2>1, Slots DEF K
  <2> QED
    BY <2>1, <2>4, <2>5, <2>6, <2>7, <2>8, <2>9 DEF ListOK
<1>14. (\A x \in Open : ListOK(x))'
  <2>1. ASSUME NEW x \in Open' PROVE ListOK(x)'
    BY <1>1, <1>9, <1>11, <1>12, <1>13
  <2> QED
    BY <2>1
<1> QED
  BY <1>5, <1>6, <1>8, <1>14

(* Proc_Start keeps CoreInv: the new proc joins a whole list, of a parent   *)
(* that nobody deletes.                                                     *)
LEMMA StartCore ==
  ASSUME Careful, CoreInv, TypeOK', Idle, NEW frames, NEW n, From(frames, n),
         Len(stack) <= n + 1,
         NEW s \in Script, NEW par \in Root \cup Slot, NEW kind \in {"plain", "blocking"},
         Start(frames, s, par, kind),
         par \in Slot => Live(par) /\ par \notin Reach(Par, Doomed)
  PROVE  CoreInv'
<1> USE DEF CoreInv
<1>1. /\ Started(s, par) /\ Fresh \in Slot /\ ~Live(Fresh) /\ FreeListExact'
      /\ \A q \in Slot : Live(q)' <=> Live(q) \/ q = Fresh
  BY StartWrites
<1>2. ~Sweeping
  BY DEF Start
<1>3. /\ Keeps(n) /\ Len(stack') = n + 2 /\ DOMAIN stack' = 1 .. n + 2
      /\ stack'[n + 1].fn = "start" /\ stack'[n + 2].fn = "script" /\ stack'[n + 2].p = Fresh
      /\ Top'.fn = "script"
  <2> DEFINE f == [fn |-> "start", at |-> kind, p |-> Fresh]
             g == [fn |-> "script", at |-> "fetch", p |-> Fresh]
  <2>1. f \in Frame /\ g \in Frame /\ stack' = Append(Append(frames, f), g)
    BY <1>1, NewFrames DEF Start, Call, Fresh
  <2>2. f.fn = "start" /\ g.fn = "script" /\ g.p = Fresh
    OBVIOUS
  <2> HIDE DEF f, g
  <2> QED
    BY <2>1, <2>2, KeepsPushTwo
<1>4. \A i \in DOMAIN stack : stack[i].fn = "delete" => Dies(i)
  BY IdleLive
<1>5. n \in Nat /\ \A i \in DOMAIN stack' : i \notin 1 .. n => i = n + 1 \/ i = n + 2
  BY <1>3, KeptDomain
<1>6. \A p \in Slot : Live(p) => Live(p)'
  BY <1>1
<1>7. /\ Doomed' = Doomed /\ Closing' = Closing
      /\ \A i \in DOMAIN stack' : i \notin 1 .. n => Under(i)' = Doomed
      /\ \A i \in DOMAIN stack' : stack'[i].fn = "delete" => i \in 1 .. n
  <2>1. \A i \in DOMAIN stack' : i \notin 1 .. n => stack'[i].fn # "delete"
    BY <1>3, <1>5
  <2> QED
    BY <1>3, <1>4, <1>6, <2>1, KeptDoomed
<1>8. /\ \A i \in 1 .. n : stack[i].fn = "delete" => stack'[i] = stack[i]
      /\ \A i \in 1 .. n + 1 : Under(i)' = Under(i)
  BY <1>3, <1>4, <1>6, KeptFrames
<1>9. /\ TreeOK' /\ (\A x \in Open : ListOK(x))'
      /\ \A x \in Closing : Kids(x)' = {}
      /\ \A S \in SUBSET Slot : (\A x \in S : Live(x)) => Reach(Par', S) = Reach(Par, S)
  BY <1>7, StartTree
<1>10. RestOK'
  BY <1>7, <1>9 DEF RestOK
<1>11. HeadOK'
  BY <1>3 DEF HeadOK, Doing
<1>12. \A i \in 1 .. n : stack[i].fn = "delete" => stack[i].at # "prev"
  BY <1>3, KeptDomain, StackShape DEF FramesOK, FrameOK
<1>13. FramesOK'
  <2> SUFFICES ASSUME NEW i \in DOMAIN stack' PROVE FrameOK(i)'
    BY DEF FramesOK
  <2>1. CASE i \in 1 .. n
    <3> DEFINE U == Under(i)
               A == Reach(Par, U)
    <3>1. FrameOK(i) /\ i \in DOMAIN stack
      BY <1>3, <2>1, KeptDomain DEF FramesOK
    <3>2. Under(i)' = U /\ U \subseteq Doomed
      <4>1. i \in 1 .. n + 1
        BY <1>5, <2>1
      <4> QED
        BY <1>8, <4>1 DEF Under, Doomed
    <3>3. U \in SUBSET Slot /\ \A x \in U : Live(x)
      BY <3>2, DoomedLive
    <3> HIDE DEF U
    <3>4. Reach(Par', Under(i)') = A
      BY <1>9, <3>2, <3>3
    <3>5. \A q \in A : q \in Slot /\ Live(q)
      BY <3>3, LiveReach, ReachBase
    <3>6. \A q \in A : procs'[q].script = procs[q].script /\ procs'[q].mark = procs[q].mark
      BY <1>1, <3>5 DEF Started
    <3>7. /\ stack[i].fn = "delete" /\ stack[i].at = "prev" => i = Len(stack')
          /\ stack[i].fn = "delete" => Live(stack[i].p)
      BY <1>4, <1>12, <2>1, <3>1 DEF Dies
    <3>8. LET B == Reach(Par, Under(i))
          IN  /\ Reach(Par', Under(i)') = B
              /\ \A q \in B : procs'[q].script = procs[q].script
              /\ (\A q \in B : procs'[q].mark = procs[q].mark) \/ ~Sweeping
      BY <3>4, <3>6 DEF U
    <3> QED
      BY <1>3, <1>8, <2>1, <3>1, <3>7, <3>8, KeptSay
  <2>2. CASE i \notin 1 .. n
    <3>1. stack'[i].fn = "start" \/ (stack'[i].fn = "script" /\ stack'[i].p = Fresh)
      BY <1>3, <1>5, <2>2
    <3>2. Reach(Par', Under(i)') = Reach(Par, Doomed)
      BY <1>7, <1>9, <2>2, DoomedLive
    <3>3. Fresh \notin Reach(Par, Doomed)
      BY <1>1, DoomedLive, LiveReach
    <3> QED
      BY <3>1, <3>2, <3>3 DEF FrameOK
  <2> QED
    BY <2>1, <2>2
<1>14. GravesOK'
  <2>1. ASSUME NEW i \in DOMAIN stack' PROVE stack'[i].fn # "endMarked"
    <3>1. CASE i \in 1 .. n
      BY <1>2, <1>3, <3>1, KeptDomain DEF Keeps, Alike, Sweeping
    <3>2. CASE i \notin 1 .. n
      BY <1>3, <1>5, <3>2
    <3> QED
      BY <3>1, <3>2
  <2>2. ASSUME NEW i \in DOMAIN stack', stack'[i].fn = "delete"
        PROVE  procs'[stack'[i].p].script # Nil
    <3>1. i \in 1 .. n /\ i \in DOMAIN stack
      BY <1>3, <1>7, <2>2, KeptDomain
    <3>2. stack[i].fn = "delete" /\ stack'[i] = stack[i]
      BY <1>3, <1>8, <2>2, <3>1 DEF Keeps, Alike
    <3>3. stack[i].p \in Slot /\ Live(stack[i].p)
      BY <1>4, <3>1, <3>2, StackShape, FrameShape DEF Dies
    <3> QED
      BY <1>1, <3>2, <3>3 DEF Live
  <2> QED
    BY <2>1, <2>2 DEF GravesOK, Live
<1> QED
  BY <1>1, <1>9, <1>10, <1>11, <1>13, <1>14

(* Every use of Proc_Start. *)
LEMMA StartSteps ==
  ASSUME Careful, CoreInv, TypeOK',
         CmdStart \/ CallStart \/ (\E r \in Root, s \in Script : Boot(s, r))
  PROVE  CoreInv'
<1> USE DEF CoreInv
<1>1. CASE CmdStart
  <2>1. stack # << >> /\ Idle /\ Top.fn = "script" /\ Live(Top.p)
    BY <1>1 DEF CmdStart, Fetching, Doing, Idle
  <2>2. Top.p \in Slot /\ Top.p \notin Reach(Par, Doomed)
    BY <2>1, TopSays, StackTop, FrameShape
  <2>3. PICK s \in Script :
          \/ Start(stack, s, Top.p, "plain")
          \/ Start(Callers, s, Top.p, "blocking")
          \/ \E r \in Root : Start(stack, s, r, "plain")
    BY <1>1 DEF CmdStart
  <2>4. From(stack, Len(stack)) /\ Len(stack) <= Len(stack) + 1
    BY FromStack, StackShape
  <2>5. From(Callers, Len(stack) - 1) /\ Len(stack) <= (Len(stack) - 1) + 1
    BY <2>1, FromCallers, StackShape
  <2>6. CASE Start(stack, s, Top.p, "plain")
    BY <2>1, <2>2, <2>4, <2>6, StartCore
  <2>7. CASE Start(Callers, s, Top.p, "blocking")
    BY <2>1, <2>2, <2>5, <2>7, StartCore
  <2>8. CASE \E r \in Root : Start(stack, s, r, "plain")
    BY <2>1, <2>4, <2>8, StartCore, Slots
  <2> QED
    BY <2>3, <2>6, <2>7, <2>8
<1>2. CASE CallStart
  <2>1. stack # << >> /\ Idle
    BY <1>2 DEF CallStart, InCallback, Doing, Idle
  <2>2. PICK s \in Script, par \in Root \cup Target, kind \in {"plain", "blocking"} :
          Start(stack, s, par, kind)
    BY <1>2 DEF CallStart
  <2>3. par \in Root \cup Slot /\ (par \in Slot => Live(par) /\ par \notin Reach(Par, Doomed))
    BY <2>1, IdleDying, Slots DEF Target
  <2>4. From(stack, Len(stack)) /\ Len(stack) <= Len(stack) + 1
    BY FromStack, StackShape
  <2> QED
    BY <2>1, <2>2, <2>3, <2>4, StartCore
<1>3. CASE \E r \in Root, s \in Script : Boot(s, r)
  <2>1. PICK r \in Root, s \in Script : Boot(s, r)
    BY <1>3
  <2>2. stack = << >> /\ Start(<< >>, s, r, "plain")
    BY <2>1 DEF Boot
  <2>3. Idle /\ From(<< >>, 0) /\ Len(stack) <= 0 + 1
    BY <2>2, FromNone DEF Idle
  <2>4. r \in Root \cup Slot /\ r \notin Slot
    BY Slots
  <2> QED
    BY <2>2, <2>3, <2>4, StartCore
<1> QED
  BY <1>1, <1>2, <1>3
-----------------------------------------------------------------------------
(* What is being deleted, before and after a step. *)

(* No slot freed already is deleted unless the function that is running      *)
(* does.                                                                    *)
LEMMA AllLive ==
  ASSUME TypeOK, GravesOK, Idle \/ Live(Top.p)
  PROVE  \A i \in DOMAIN stack : stack[i].fn = "delete" => Dies(i) /\ Live(stack[i].p)
<1> SUFFICES ASSUME NEW i \in DOMAIN stack, stack[i].fn = "delete", ~Live(stack[i].p)
             PROVE  FALSE
  BY DEF Dies
<1>1. stack # << >> /\ DOMAIN stack = 1 .. Len(stack) /\ Len(stack) \in Nat \ {0}
      /\ Top = stack[Len(stack)]
  BY StackTop, EmptySeq
<1>2. stack[Len(stack)].fn = "delete" /\ ~Live(stack[Len(stack)].p)
  <2>1. PICK j \in DOMAIN stack :
          j < i /\ \A k \in DOMAIN stack : k > j => stack[k].fn = "delete" /\ ~Live(stack[k].p)
    BY DEF GravesOK
  <2> QED
    BY <1>1, <2>1
<1> QED
  BY <1>1, <1>2 DEF Idle

(* The frames a step keeps delete what they did.                            *)
LEMMA DiesKept ==
  ASSUME TypeOK, TypeOK', NEW n, Keeps(n),
         \A i \in 1 .. n : stack[i].fn = "delete"
                             => (procs'[stack[i].p].script # Nil <=> Live(stack[i].p))
  PROVE  /\ \A i \in 1 .. n : /\ Dies(i)' <=> Dies(i)
                              /\ stack'[i].fn = stack[i].fn
                              /\ stack[i].fn = "delete" => stack'[i].p = stack[i].p
                              /\ i \in DOMAIN stack /\ i \in DOMAIN stack'
         /\ \A i \in 1 .. n + 1 : Under(i)' = Under(i)
<1>1. \A i \in 1 .. n : i \in DOMAIN stack /\ i \in DOMAIN stack'
  BY KeptDomain
<1>2. ASSUME NEW i \in 1 .. n
      PROVE  /\ Dies(i)' <=> Dies(i)
             /\ stack'[i].fn = stack[i].fn
             /\ stack[i].fn = "delete" => stack'[i].p = stack[i].p
  BY <1>1 DEF Keeps, Alike, Dies, Live
<1>3. ASSUME NEW i \in 1 .. n + 1 PROVE Under(i)' = Under(i)
  <2>1. \A j \in DOMAIN stack : j < i => j \in 1 .. n
    BY KeptDomain
  <2>2. \A j \in DOMAIN stack' : j < i => j \in 1 .. n
    BY KeptDomain
  <2>3. {j \in DOMAIN stack : j < i /\ Dies(j)}' = {j \in DOMAIN stack : j < i /\ Dies(j)}
    BY <1>1, <1>2, <2>1, <2>2
  <2>4. \A j \in DOMAIN stack : j < i /\ Dies(j) => stack'[j].p = stack[j].p
    BY <1>2, <2>1 DEF Dies
  <2> QED
    BY <2>3, <2>4 DEF Under
<1> QED
  BY <1>1, <1>2, <1>3

(* When the i-th frame is the top, the others delete all but what it does.  *)
LEMMA DoomedTop ==
  ASSUME TypeOK, stack # << >>
  PROVE  Doomed = Under(Len(stack)) \cup IF Dies(Len(stack)) THEN {Top.p} ELSE {}
<1>1. DOMAIN stack = 1 .. Len(stack) /\ Len(stack) \in Nat \ {0} /\ Top = stack[Len(stack)]
  BY StackTop
<1>2. \A j \in DOMAIN stack : j < Len(stack) \/ j = Len(stack)
  BY <1>1
<1> QED
  BY <1>1, <1>2 DEF Doomed, Under

(* The doomed are those the kept frames delete.                             *)
LEMMA UnderRest ==
  ASSUME TypeOK, NEW n \in Nat,
         \A j \in DOMAIN stack : Dies(j) => j \in 1 .. n
  PROVE  Doomed = Under(n + 1)
<1>1. \A j \in DOMAIN stack : Dies(j) => j < n + 1
  <2>1. \A j \in 1 .. n : j < n + 1
    OBVIOUS
  <2> QED
    BY <2>1
<1> QED
  BY <1>1 DEF Doomed, Under

(* A step keeps n frames and goes on to delete q: these are what was being  *)
(* deleted, and q.                                                          *)
LEMMA DoomedGrows ==
  ASSUME TypeOK, TypeOK', NEW n, Keeps(n), NEW q \in Slot,
         Len(stack') = n + 1, stack'[n + 1] = [fn |-> "delete", at |-> "prev", p |-> q],
         \A x \in Slot : Live(x)' <=> Live(x),
         \A j \in DOMAIN stack : Dies(j) => j \in 1 .. n
  PROVE  /\ Doomed' = Doomed \cup IF Live(q) THEN {q} ELSE {}
         /\ \A i \in 1 .. n + 1 : Under(i)' = Under(i)
         /\ Under(n + 1)' = Doomed
         /\ \A i \in 1 .. n : Dies(i)' <=> Dies(i)
<1>1. \A i \in 1 .. n : stack[i].fn = "delete" => stack[i].p \in Slot
  BY KeptDomain, StackShape, FrameShape
<1>2. /\ \A i \in 1 .. n : /\ Dies(i)' <=> Dies(i)
                           /\ stack[i].fn = "delete" => stack'[i].p = stack[i].p
                           /\ i \in DOMAIN stack /\ i \in DOMAIN stack'
      /\ \A i \in 1 .. n + 1 : Under(i)' = Under(i)
  <2>1. \A i \in 1 .. n : stack[i].fn = "delete"
                            => (procs'[stack[i].p].script # Nil <=> Live(stack[i].p))
    BY <1>1 DEF Live
  <2> QED
    BY <2>1, DiesKept
<1>3. n \in Nat /\ n + 1 \in DOMAIN stack' /\ n + 1 \notin 1 .. n
      /\ \A j \in DOMAIN stack' : j \in 1 .. n \/ j = n + 1
  BY KeptDomain
<1>4. Doomed = Under(n + 1)
  BY <1>3, UnderRest
<1>5. Dies(n + 1)' <=> Live(q)
  BY DEF Dies, Live
<1>6. Doomed' = Under(n + 1)' \cup IF Live(q) THEN {q} ELSE {}
  <2>1. \A j \in DOMAIN stack' : j < n + 1 <=> j \in 1 .. n
    BY <1>3
  <2>2. /\ Under(n + 1)' = {stack'[k].p : k \in {j \in DOMAIN stack' : j \in 1 .. n /\ Dies(j)'}}
        /\ Doomed' = {stack'[k].p : k \in {j \in DOMAIN stack' : Dies(j)'}}
    BY <2>1 DEF Under, Doomed
  <2>3. {j \in DOMAIN stack' : Dies(j)'}
          = {j \in DOMAIN stack' : j \in 1 .. n /\ Dies(j)'} \cup IF Live(q) THEN {n + 1} ELSE {}
    BY <1>3, <1>5
  <2> HIDE DEF Dies
  <2>4. stack'[n + 1].p = q
    OBVIOUS
  <2>5. CASE Live(q)
    BY <2>2, <2>3, <2>4, <2>5
  <2>6. CASE ~Live(q)
    BY <2>2, <2>3, <2>6
  <2> QED
    BY <2>5, <2>6
<1>7. n + 1 \in 1 .. n + 1
  BY <1>3
<1> QED
  BY <1>2, <1>4, <1>6, <1>7
-----------------------------------------------------------------------------
(* Proc_End. *)

(* What UnlinkProcess leaves alone, and what it writes.                     *)
UnlinkedFields(q) ==
  /\ \A x \in Slot :
       /\ procs'[x].script = procs[x].script /\ procs'[x].parent = procs[x].parent
       /\ procs'[x].mark = procs[x].mark /\ procs'[x].ended = procs[x].ended
       /\ procs'[x].lock = procs[x].lock /\ procs'[x].blocking = procs[x].blocking
       /\ procs'[x].starting = procs[x].starting
       /\ procs'[x].prev = IF x = q THEN Nil
                           ELSE IF x = procs[q].next THEN procs[q].prev ELSE procs[x].prev
       /\ procs'[x].next = IF x = q THEN Nil
                           ELSE IF x = procs[q].prev THEN procs[q].next ELSE procs[x].next
       /\ procs'[x].child = IF x = procs[q].parent /\ procs[x].child = q
                            THEN procs[q].prev ELSE procs[x].child
  /\ freeList' = freeList

(* What Proc_End writes before it calls DeleteProcessRecursive: the         *)
(* neighbours' links and those of the proc.                                 *)
LEMMA EndWrites ==
  ASSUME TypeOK, TypeOK', NEW frames, NEW q \in Slot, End(frames, q)
  PROVE  /\ UnlinkedFields(q)
         /\ \A x \in Slot : Live(x)' <=> Live(x)
         /\ Par' = Par
         /\ \A x \in Root \cup Slot :
              Newest(x)' = IF x = procs[q].parent /\ Newest(x) = q
                           THEN procs[q].prev ELSE Newest(x)
<1>1. procs' = Unlinked(q) /\ root' = UnlinkedRoot(q) /\ freeList' = freeList
  BY DEF End
<1>2. ASSUME NEW x \in Slot
      PROVE  /\ procs'[x].script = procs[x].script /\ procs'[x].parent = procs[x].parent
             /\ procs'[x].mark = procs[x].mark /\ procs'[x].ended = procs[x].ended
             /\ procs'[x].lock = procs[x].lock /\ procs'[x].blocking = procs[x].blocking
             /\ procs'[x].starting = procs[x].starting
             /\ procs'[x].prev = IF x = q THEN Nil
                                 ELSE IF x = procs[q].next THEN procs[q].prev ELSE procs[x].prev
             /\ procs'[x].next = IF x = q THEN Nil
                                 ELSE IF x = procs[q].prev THEN procs[q].next ELSE procs[x].next
             /\ procs'[x].child = IF x = procs[q].parent /\ procs[x].child = q
                                  THEN procs[q].prev ELSE procs[x].child
  <2>1. procs'[x] = [procs[x] EXCEPT
          !.prev  = IF x = q THEN Nil ELSE IF x = procs[q].next THEN procs[q].prev ELSE procs[x].prev,
          !.next  = IF x = q THEN Nil ELSE IF x = procs[q].prev THEN procs[q].next ELSE procs[x].next,
          !.child = IF x = procs[q].parent /\ procs[x].child = q
                    THEN procs[q].prev ELSE procs[x].child]
    BY <1>1 DEF Unlinked
  <2>2. procs[x] \in Proc
    BY ProcFields
  <2> QED
    BY <2>1, <2>2 DEF Proc
<1>3. UnlinkedFields(q)
  BY <1>1, <1>2 DEF UnlinkedFields
<1>4. \A x \in Slot : Live(x)' <=> Live(x)
  BY <1>2 DEF Live
<1>5. Par' = Par
  BY <1>2 DEF Par
<1>6. ASSUME NEW x \in Root \cup Slot
      PROVE  Newest(x)' = IF x = procs[q].parent /\ Newest(x) = q
                          THEN procs[q].prev ELSE Newest(x)
  <2>1. CASE x \in Root
    BY <1>1, <2>1 DEF Newest, UnlinkedRoot
  <2>2. CASE x \in Slot
    BY <1>2, <2>2, Slots DEF Newest
  <2> QED
    BY <2>1, <2>2
<1> QED
  BY <1>3, <1>4, <1>5, <1>6

(* No list leads in a circle. *)
LEMMA ListAcyclic ==
  ASSUME TypeOK, NEW par, ListOK(par), NEW q \in Kids(par)
  PROVE  procs[q].prev # q /\ procs[q].next # q
<1>1. Reach(Back, {Newest(par)}) = Kids(par)
  BY ListReach
<1>2. q # Nil /\ q \in Slot
  BY Slots DEF Kids
<1>3. procs[q].next # q
  <2> SUFFICES ASSUME procs[q].next = q PROVE FALSE
    OBVIOUS
  <2>1. /\ procs[q].next = Nil <=> Newest(par) = q
        /\ procs[q].next # Nil => procs[procs[q].next].prev = q
    BY DEF ListOK
  <2>2. Newest(par) # q /\ procs[q].prev = q
    BY <1>2, <2>1
  <2> DEFINE m == Newest(par)
  <2>3. PICK c \in Kids(par) : c # q /\ Back[c] = q
    <3>1. q \in Reach(Back, {m}) /\ q # m
      BY <1>1, <2>2
    <3> HIDE DEF m
    <3>2. \E c \in Reach(Back, {m}) : c # q /\ Back[c] = q
      BY <3>1, BackLast
    <3> QED
      BY <1>1, <3>2 DEF m
  <2>4. procs[c].prev = q
    BY <2>3 DEF Back, Kids
  <2> QED
    BY <1>2, <2>3, <2>4 DEF ListOK
<1>4. procs[q].prev # q
  BY <1>2, <1>3 DEF ListOK
<1> QED
  BY <1>3, <1>4

(* Taking a member out of a list leaves a list.                             *)
LEMMA ListLoses ==
  ASSUME TypeOK, NEW par \in Root \cup Slot, ListOK(par), NEW q \in Kids(par),
         UnlinkedFields(q), procs[q].parent = par,
         Newest(par)' = IF Newest(par) = q THEN procs[q].prev ELSE Newest(par),
         Kids(par)' = Kids(par) \ {q}
  PROVE  ListOK(par)'
<1> DEFINE K == Kids(par)
           m == Newest(par)
           o == procs[q].prev
           y == procs[q].next
<1>1. q \in Slot /\ q \in K /\ \A z \in K : z \in Slot /\ z # Nil
  BY Slots DEF Kids
<1>2. /\ m = Nil => K = {}
      /\ m # Nil => m \in K
      /\ \A z \in K : procs[z].prev \in K \cup {Nil}
      /\ \A z \in K : procs[z].next \in K \cup {Nil}
      /\ \A z \in K : procs[z].prev # Nil => procs[procs[z].prev].next = z
      /\ \A z \in K : procs[z].next # Nil => procs[procs[z].next].prev = z
      /\ \A z \in K : procs[z].next = Nil <=> m = z
  BY DEF ListOK
<1>3. o # q /\ y # q /\ o \in K \cup {Nil} /\ y \in K \cup {Nil}
  BY <1>1, <1>2, ListAcyclic
<1>4. \A z \in K \ {q} :
        /\ procs'[z].prev = IF z = y THEN o ELSE procs[z].prev
        /\ procs'[z].next = IF z = o THEN y ELSE procs[z].next
  BY <1>1 DEF UnlinkedFields
<1>5. \A z \in K : (procs[z].prev = q <=> z = y) /\ (procs[z].next = q <=> z = o)
  BY <1>1, <1>2
<1>6. Reach(Back, {m}) = K
  BY ListReach
<1> DEFINE n == IF m = q THEN o ELSE m
<1>7. K \ {q} \subseteq Reach(Back', {n})
  <2>1. n = IF m = q THEN Back[q] ELSE m
    BY <1>1 DEF Back
  <2>2. \A x \in Reach(Back, {m}) \ {q} : Back'[x] = IF Back[x] = q THEN Back[q] ELSE Back[x]
    BY <1>1, <1>4, <1>5, <1>6 DEF Back
  <2> HIDE DEF m, n
  <2> QED
    BY <1>1, <1>6, <2>1, <2>2, ReachCut
<1>8. /\ Newest(par)' = n /\ Kids(par)' = K \ {q}
  OBVIOUS
<1> HIDE DEF K, m, o, y
<1>9. n # Nil => n \in K \ {q}
  BY <1>1, <1>2, <1>3
<1>10. n = Nil => K \ {q} = {}
  <2>1. Reach(Back', {Nil}) = {}
    BY ReachLeast, Slots
  <2> HIDE DEF n
  <2> QED
    BY <1>7, <2>1
<1>11. \A z \in K \ {q} : procs'[z].prev \in (K \ {q}) \cup {Nil}
  BY <1>2, <1>3, <1>4, <1>5
<1>12. \A z \in K \ {q} : procs'[z].next \in (K \ {q}) \cup {Nil}
  BY <1>2, <1>3, <1>4, <1>5
<1>13. o # Nil => procs[o].next = q
  BY <1>1, <1>2 DEF o
<1>14. y # Nil => procs[y].prev = q
  BY <1>1, <1>2 DEF y
<1>15. (y = Nil <=> m = q) /\ (o # Nil => o # m) /\ (m # q => y # Nil)
  BY <1>1, <1>2, <1>3, <1>13 DEF y
<1>16. ASSUME NEW z \in K \ {q}, procs'[z].prev # Nil PROVE procs'[procs'[z].prev].next = z
  <2>1. CASE z = y
    BY <1>1, <1>3, <1>4, <1>16, <2>1
  <2>2. CASE z # y
    <3>1. procs'[z].prev = procs[z].prev /\ procs[z].prev \in K \ {q}
          /\ procs[procs[z].prev].next = z
      BY <1>2, <1>4, <1>5, <1>16, <2>2
    <3>2. procs[z].prev # o
      BY <1>1, <1>13, <3>1
    <3> QED
      BY <1>4, <3>1, <3>2
  <2> QED
    BY <2>1, <2>2
<1>17. ASSUME NEW z \in K \ {q}, procs'[z].next # Nil PROVE procs'[procs'[z].next].prev = z
  <2>1. CASE z = o
    BY <1>1, <1>3, <1>4, <1>17, <2>1
  <2>2. CASE z # o
    <3>1. procs'[z].next = procs[z].next /\ procs[z].next \in K \ {q}
          /\ procs[procs[z].next].prev = z
      BY <1>2, <1>4, <1>5, <1>17, <2>2
    <3>2. procs[z].next # y
      BY <1>1, <1>14, <3>1
    <3> QED
      BY <1>4, <3>1, <3>2
  <2> QED
    BY <2>1, <2>2
<1>18. \A z \in K \ {q} : procs'[z].next = Nil <=> n = z
  <2> TAKE z \in K \ {q}
  <2>1. CASE z = o
    <3>1. procs'[z].next = y /\ o # Nil /\ o # m
      BY <1>1, <1>4, <1>15, <2>1
    <3> QED
      BY <1>15, <2>1, <3>1
  <2>2. CASE z # o
    <3>1. procs'[z].next = procs[z].next /\ z # q
      BY <1>4, <2>2
    <3> QED
      BY <1>2, <2>2, <3>1
  <2> QED
    BY <2>1, <2>2
<1> DEFINE L == K \ {q}
<1>19. /\ \A z \in L : procs'[z].prev \in L \cup {Nil}
       /\ \A z \in L : procs'[z].next \in L \cup {Nil}
       /\ \A z \in L : procs'[z].prev # Nil => procs'[procs'[z].prev].next = z
       /\ \A z \in L : procs'[z].next # Nil => procs'[procs'[z].next].prev = z
       /\ \A z \in L : procs'[z].next = Nil <=> n = z
       /\ \A z \in L : z \in Reach(Back', {n})
       /\ Newest(par)' = n /\ Kids(par)' = L
       /\ (n = Nil => L = {}) /\ (n # Nil => n \in L)
  BY <1>7, <1>8, <1>9, <1>10, <1>11, <1>12, <1>16, <1>17, <1>18
<1> HIDE DEF L, n
<1>20. CASE n = Nil
  BY <1>19, <1>20 DEF ListOK
<1>21. CASE n # Nil
  <2>1. Newest(par)' # Nil /\ Newest(par)' \in L
    BY <1>19, <1>21
  <2> QED
    BY <1>19, <2>1 DEF ListOK
<1> QED
  BY <1>20, <1>21

(* A list none of whose members is touched stays.                           *)
LEMMA ListStays ==
  ASSUME TypeOK, NEW x, ListOK(x), Kids(x)' = Kids(x), Newest(x)' = Newest(x),
         \A z \in Kids(x) : procs'[z].prev = procs[z].prev /\ procs'[z].next = procs[z].next
  PROVE  ListOK(x)'
<1> DEFINE K == Kids(x)
           m == Newest(x)
<1>1. /\ Newest(x)' = m /\ Kids(x)' = K
      /\ m = Nil => K = {}
      /\ m # Nil => m \in K
      /\ \A z \in K : procs'[z].prev \in K \cup {Nil}
      /\ \A z \in K : procs'[z].next \in K \cup {Nil}
      /\ \A z \in K : procs'[z].next = Nil <=> m = z
  BY DEF ListOK
<1>2. /\ \A z \in K : procs'[z].prev # Nil => procs'[procs'[z].prev].next = z
      /\ \A z \in K : procs'[z].next # Nil => procs'[procs'[z].next].prev = z
  BY <1>1 DEF ListOK
<1>3. \A z \in K : z \in Reach(Back', {m})
  <2>1. Reach(Back, {m}) = K
    BY ListReach
  <2>2. \A z \in K : Back'[z] = Back[z]
    BY DEF Back, Kids
  <2> QED
    BY <2>1, <2>2, ReachSame
<1> HIDE DEF K, m
<1>4. CASE m = Nil
  BY <1>1, <1>2, <1>3, <1>4 DEF ListOK
<1>5. CASE m # Nil
  <2>1. Newest(x)' # Nil /\ Newest(x)' \in K
    BY <1>1, <1>5
  <2> QED
    BY <1>1, <1>2, <1>3, <2>1 DEF ListOK
<1> QED
  BY <1>4, <1>5

(* The frames that stay say what they did. *)
LEMMA KeptFramesOK ==
  ASSUME TypeOK, TypeOK', FramesOK, NEW n, Keeps(n), Par' = Par,
         \A i \in 1 .. n + 1 : Under(i)' = Under(i),
         \A i \in 1 .. n : \A x \in Reach(Par, Under(i)) : procs'[x].script = procs[x].script,
         SameMarks,
         \A i \in 1 .. n : stack[i].fn = "delete" =>
            /\ stack'[i] = stack[i]
            /\ procs'[stack[i].p].script # Nil => Live(stack[i].p)
            /\ stack[i].at # "prev" \/ i = Len(stack')
  PROVE  \A i \in 1 .. n : FrameOK(i)'
<1> TAKE i \in 1 .. n
<1>1. FrameOK(i) /\ i \in 1 .. n + 1
  BY KeptDomain DEF FramesOK
<1>2. Under(i)' = Under(i)
  BY <1>1
<1>3. \A x \in Reach(Par, Under(i)) : x \in Slot
  BY ReachBase
<1>4. LET A == Reach(Par, Under(i))
      IN  /\ Reach(Par', Under(i)') = A
          /\ \A q \in A : procs'[q].script = procs[q].script
          /\ (\A q \in A : procs'[q].mark = procs[q].mark) \/ ~Sweeping
  BY <1>2, <1>3 DEF SameMarks
<1> QED
  BY <1>1, <1>4, KeptSay

(* Proc_End of a live proc takes it off the list of its parent.             *)
LEMMA EndTree ==
  ASSUME CoreInv, TypeOK', NEW frames, NEW q \in Slot, End(frames, q), Live(q),
         q \notin Doomed, \A c \in Closing : Kids(c) = {},
         Doomed' = Doomed \cup {q}, Closing' = Closing
  PROVE  /\ TreeOK' /\ FreeListExact' /\ (\A x \in Open : ListOK(x))'
         /\ \A x : Kids(x)' = Kids(x) \ {q}
         /\ procs[q].parent \in Open
         /\ {procs[q].prev, procs[q].next} \subseteq Kids(procs[q].parent) \cup {Nil}
<1> USE DEF CoreInv
<1>1. /\ UnlinkedFields(q)
      /\ \A x \in Slot : Live(x)' <=> Live(x)
      /\ Par' = Par
      /\ \A x \in Root \cup Slot :
           Newest(x)' = IF x = procs[q].parent /\ Newest(x) = q
                        THEN procs[q].prev ELSE Newest(x)
  BY EndWrites
<1>2. TreeOK'
  BY <1>1 DEF TreeOK, UnlinkedFields
<1>3. FreeListExact'
  BY <1>1 DEF FreeListExact, UnlinkedFields
<1>4. \A x : Kids(x)' = Kids(x) \ {q}
  BY <1>1 DEF Kids, UnlinkedFields
<1> DEFINE par == procs[q].parent
<1>5. q \in Kids(par) /\ (par \in Root \/ (par \in Slot /\ Live(par)))
  BY DEF Kids, TreeOK
<1>6. par \in Open /\ ListOK(par) /\ par \in Root \cup Slot
  <2>1. par \notin Closing
    BY <1>5
  <2> QED
    BY <1>5, <2>1 DEF Open
<1>7. {procs[q].prev, procs[q].next} \subseteq Kids(par) \cup {Nil}
  BY <1>5, <1>6 DEF ListOK
<1>8. Open' = Open /\ Open \subseteq Root \cup Slot
  BY <1>1, DoomedLive DEF Open
<1>9. ASSUME NEW x \in Open PROVE ListOK(x)'
  <2>1. ListOK(x) /\ x \in Root \cup Slot
    BY <1>8
  <2>2. CASE x = par
    <3>1. Newest(x)' = IF Newest(x) = q THEN procs[q].prev ELSE Newest(x)
      BY <1>1, <2>1, <2>2
    <3> QED
      BY <1>1, <1>4, <1>5, <2>1, <2>2, <3>1, ListLoses
  <2>3. CASE x # par
    <3>1. \A z \in Kids(x) : z \in Slot /\ z # q /\ z # procs[q].prev /\ z # procs[q].next
      BY <1>5, <1>7, <2>3, Slots DEF Kids
    <3>2. \A z \in Kids(x) : procs'[z].prev = procs[z].prev /\ procs'[z].next = procs[z].next
      BY <1>1, <3>1 DEF UnlinkedFields
    <3>3. Kids(x)' = Kids(x)
      BY <1>4, <3>1
    <3>4. Newest(x)' = Newest(x)
      BY <1>1, <2>1, <2>3
    <3> QED
      BY <2>1, <3>2, <3>3, <3>4, ListStays
  <2> QED
    BY <2>2, <2>3
<1> QED
  BY <1>2, <1>3, <1>4, <1>6, <1>7, <1>8, <1>9

(* Proc_End keeps CoreInv: unlinking leaves the list it belongs to whole,   *)
(* and the proc becomes doomed.                                             *)
LEMMA EndCore ==
  ASSUME CoreInv, TypeOK', Idle, stack # << >>, NEW frames, NEW n, From(frames, n),
         Len(stack) <= n + 1, NEW q \in Slot, End(frames, q), Live(q),
         q \notin Reach(Par, Doomed)
  PROVE  CoreInv'
<1> USE DEF CoreInv
<1> DEFINE f == [fn |-> "delete", at |-> "prev", p |-> q]
<1>1. /\ UnlinkedFields(q)
      /\ \A x \in Slot : Live(x)' <=> Live(x)
      /\ Par' = Par
  BY EndWrites
<1>2. /\ Keeps(n) /\ Len(stack') = n + 1 /\ stack'[n + 1] = f
      /\ DOMAIN stack' = 1 .. n + 1 /\ Top' = f
  <2>1. f \in Frame /\ stack' = Append(frames, f)
    BY NewFrames DEF End, Call
  <2> HIDE DEF f
  <2> QED
    BY <2>1, KeepsPush
<1>3. \A i \in DOMAIN stack : stack[i].fn = "delete" => Dies(i) /\ Live(stack[i].p) /\ i \in 1 .. n
  BY <1>2, AllLive, StackShape, KeptDomain
<1>4. /\ Doomed' = Doomed \cup {q}
      /\ \A i \in 1 .. n + 1 : Under(i)' = Under(i)
      /\ Under(n + 1)' = Doomed
      /\ \A i \in 1 .. n : Dies(i)' <=> Dies(i)
  <2>1. \A j \in DOMAIN stack : Dies(j) => j \in 1 .. n
    BY <1>3 DEF Dies
  <2>2. stack'[n + 1] = [fn |-> "delete", at |-> "prev", p |-> q]
    BY <1>2
  <2> HIDE DEF f
  <2> QED
    BY <1>1, <1>2, <2>1, <2>2, DoomedGrows
<1>5. /\ n \in Nat /\ n + 1 \notin 1 .. n
      /\ \A i \in 1 .. n : i \in DOMAIN stack /\ i \in DOMAIN stack' /\ i # n + 1
      /\ \A i \in DOMAIN stack' : i \in 1 .. n \/ i = n + 1
  BY <1>2, KeptDomain
<1>6. \A i \in 1 .. n : stack[i].fn = "delete" => i < Len(stack) /\ stack'[i] = stack[i]
                                                  /\ stack[i].at # "prev"
  <2> SUFFICES ASSUME NEW i \in 1 .. n, stack[i].fn = "delete"
               PROVE  i < Len(stack) /\ stack'[i] = stack[i] /\ stack[i].at # "prev"
    OBVIOUS
  <2>1. i # Len(stack) /\ i \in DOMAIN stack
    BY <1>5, StackShape
  <2>2. i < Len(stack)
    BY <1>2, <2>1, KeptDomain
  <2> QED
    BY <1>2, <2>1, <2>2 DEF Keeps, FramesOK, FrameOK
<1>7. Closing' = Closing
  <2>1. {j \in DOMAIN stack : Dies(j) /\ stack[j].at \in {"check", "free"}}'
        = {j \in DOMAIN stack : Dies(j) /\ stack[j].at \in {"check", "free"}}
    <3> SUFFICES ASSUME NEW j
                 PROVE  (j \in DOMAIN stack' /\ Dies(j)' /\ stack'[j].at \in {"check", "free"})
                          <=> (j \in DOMAIN stack /\ Dies(j) /\ stack[j].at \in {"check", "free"})
      OBVIOUS
    <3>1. CASE j \in 1 .. n
      BY <1>4, <1>5, <1>6, <3>1 DEF Dies
    <3>2. CASE j \notin 1 .. n
      <4>1. ~(j \in DOMAIN stack /\ Dies(j))
        BY <1>3, <3>2 DEF Dies
      <4>2. ~(j \in DOMAIN stack' /\ stack'[j].at \in {"check", "free"})
        BY <1>2, <1>5, <3>2
      <4> QED
        BY <4>1, <4>2
    <3> QED
      BY <3>1, <3>2
  <2>2. \A j \in DOMAIN stack : Dies(j) => stack'[j] = stack[j]
    BY <1>3, <1>6 DEF Dies
  <2> QED
    BY <2>1, <2>2 DEF Closing
<1>8. /\ q \notin Doomed /\ \A c \in Closing : Kids(c) = {}
  BY DoomedLive, IdleClosed
<1>9. /\ TreeOK' /\ FreeListExact' /\ (\A x \in Open : ListOK(x))'
      /\ \A x : Kids(x)' = Kids(x) \ {q}
      /\ procs[q].parent \in Open
      /\ {procs[q].prev, procs[q].next} \subseteq Kids(procs[q].parent) \cup {Nil}
  BY <1>4, <1>7, <1>8, EndTree
<1>10. RestOK'
  BY <1>7, <1>8, <1>9 DEF RestOK
<1>11. HeadOK'
  <2>1. procs'[q].prev = Nil /\ Top'.p = q
    BY <1>1, <1>2 DEF UnlinkedFields
  <2> QED
    BY <2>1 DEF HeadOK
<1>12. SameMarks
  BY <1>1 DEF UnlinkedFields, SameMarks
<1>13. FramesOK'
  <2>1. \A i \in 1 .. n : FrameOK(i)'
    <3>1. \A i \in 1 .. n : \A x \in Reach(Par, Under(i)) : procs'[x].script = procs[x].script
      BY <1>1, ReachBase DEF UnlinkedFields
    <3>2. \A i \in 1 .. n : stack[i].fn = "delete" =>
            /\ stack'[i] = stack[i]
            /\ procs'[stack[i].p].script # Nil => Live(stack[i].p)
            /\ stack[i].at # "prev" \/ i = Len(stack')
      BY <1>3, <1>5, <1>6
    <3> QED
      BY <1>1, <1>2, <1>4, <1>12, <3>1, <3>2, KeptFramesOK
  <2>2. ASSUME NEW i, i = n + 1 PROVE FrameOK(i)'
    <3>1. Reach(Par', Under(i)') = Reach(Par, Doomed)
      BY <1>1, <1>4, <2>2
    <3>2. stack'[i] = f /\ ~(i < Len(stack'))
      BY <1>2, <1>5, <2>2
    <3> QED
      BY <3>1, <3>2 DEF FrameOK
  <2> QED
    BY <1>5, <2>1, <2>2 DEF FramesOK
<1>14. GravesOK'
  <2>1. ASSUME NEW i \in DOMAIN stack', stack'[i].fn = "delete"
        PROVE  procs'[stack'[i].p].script # Nil
    <3>1. CASE i \in 1 .. n
      <4>1. stack[i].fn = "delete" /\ i \in DOMAIN stack
        BY <1>2, <1>5, <2>1, <3>1 DEF Keeps, Alike
      <4>2. stack'[i] = stack[i] /\ stack[i].p \in Slot /\ Live(stack[i].p)
        BY <1>3, <1>6, <3>1, <4>1, StackShape, FrameShape
      <4> QED
        BY <1>1, <4>2 DEF Live
    <3>2. CASE i = n + 1
      BY <1>1, <1>2, <3>2 DEF Live
    <3> QED
      BY <1>5, <3>1, <3>2
  <2>2. ASSUME NEW i \in DOMAIN stack', stack'[i].fn = "endMarked"
        PROVE  (\E K \in SUBSET Slot : Grave(K, i))'
    <3>1. i \in 1 .. n /\ i \in DOMAIN stack
      BY <1>2, <1>5, <2>2
    <3>2. stack[i].fn = "endMarked" /\ stack[i].at = stack'[i].at
      BY <1>2, <2>2, <3>1 DEF Keeps, Alike
    <3>3. PICK K \in SUBSET Slot : Grave(K, i)
      BY <3>1, <3>2 DEF GravesOK
    <3> DEFINE Dead == K \cup {Nil} \cup Above(i)
    <3>4. Above(i)' = Above(i) \cup {q}
      <4>1. \A j \in DOMAIN stack' : j > i /\ stack'[j].fn = "delete"
              => j = n + 1 \/ (j \in DOMAIN stack /\ stack[j].fn = "delete" /\ stack'[j].p = stack[j].p)
        BY <1>2, <1>5, <1>6 DEF Keeps, Alike
      <4>2. n + 1 \in DOMAIN stack' /\ n + 1 > i /\ stack'[n + 1].fn = "delete" /\ stack'[n + 1].p = q
        BY <1>2, <1>5, <3>1
      <4>3. \A j \in DOMAIN stack : j > i /\ stack[j].fn = "delete"
              => j \in DOMAIN stack' /\ stack'[j].fn = "delete" /\ stack'[j].p = stack[j].p
        BY <1>3, <1>5, <1>6
      <4>4. Above(i)' = {stack'[j].p : j \in {k \in DOMAIN stack' : k > i /\ stack'[k].fn = "delete"}}
        BY DEF Above
      <4>5. Above(i) \cup {q} \subseteq Above(i)'
        BY <4>2, <4>3, <4>4 DEF Above
      <4>6. Above(i)' \subseteq Above(i) \cup {q}
        BY <4>1, <4>2, <4>4 DEF Above
      <4> QED
        BY <4>5, <4>6
    <3>5. \A x \in {procs[q].prev, procs[q].next} : x # Nil => Live(x) /\ x \notin Doomed
      BY <1>9 DEF Kids
    <3>6. ASSUME NEW k \in K
          PROVE  /\ ~Live(k)' /\ procs'[k].ended
                 /\ {procs'[k].child, procs'[k].prev, procs'[k].next} \subseteq Dead
      <4>1. k \in Slot /\ ~Live(k) /\ procs[k].ended
            /\ {procs[k].child, procs[k].prev, procs[k].next} \subseteq Dead
        BY <3>3 DEF Grave
      <4>2. k # q /\ k # procs[q].prev /\ k # procs[q].next /\ k # procs[q].parent
        BY <1>9, <3>5, <4>1, Slots DEF Open
      <4>3. procs'[k].child = procs[k].child /\ procs'[k].prev = procs[k].prev
            /\ procs'[k].next = procs[k].next /\ procs'[k].ended = procs[k].ended
        BY <1>1, <4>1, <4>2 DEF UnlinkedFields
      <4> HIDE DEF Dead
      <4> QED
        BY <1>1, <4>1, <4>3
    <3>7. \A x \in Slot : ~Live(x)' /\ procs'[x].mark = stack'[i].at => x \in K
      BY <1>1, <1>12, <3>2, <3>3 DEF Grave, SameMarks
    <3>8. \A j \in DOMAIN stack' : stack'[j].fn = "endMarked" => j = i
      BY <1>2, <1>5, <3>3 DEF Grave, Keeps, Alike
    <3>9. ASSUME NEW j \in DOMAIN stack', j > i, stack'[j].fn = "delete"
          PROVE  /\ procs'[stack'[j].p].next \in Dead
                 /\ stack'[j].at # "prev" => procs'[stack'[j].p].prev \in Dead
                 /\ stack'[j].at \in {"check", "free"} => procs'[stack'[j].p].child \in Dead
      <4>1. CASE j \in 1 .. n
        <5>1. stack[j].fn = "delete" /\ j \in DOMAIN stack /\ stack'[j] = stack[j]
          BY <1>2, <1>5, <1>6, <3>9, <4>1 DEF Keeps, Alike
        <5> DEFINE x == stack[j].p
        <5>2. x \in Slot /\ Live(x) /\ Dies(j)
          BY <1>3, <5>1, StackShape, FrameShape
        <5>3. /\ procs[x].next \in Dead
              /\ stack[j].at # "prev" => procs[x].prev \in Dead
              /\ stack[j].at \in {"check", "free"} => procs[x].child \in Dead
          BY <3>3, <3>9, <5>1, <5>2 DEF Grave
        <5>4. x \in Doomed /\ (stack[j].at \in {"check", "free"} => x \in Closing)
          BY <5>1, <5>2 DEF Doomed, Closing
        <5>5. x # q /\ x # procs[q].prev /\ x # procs[q].next
          BY <1>8, <3>5, <5>2, <5>4, Slots
        <5>6. procs'[x].next = procs[x].next /\ procs'[x].prev = procs[x].prev
          BY <1>1, <5>2, <5>5 DEF UnlinkedFields
        <5>7. stack[j].at \in {"check", "free"} => procs'[x].child = procs[x].child
          <6>1. x \in Closing => x # procs[q].parent
            BY <1>9, <5>2, Slots DEF Open
          <6> QED
            BY <1>1, <5>2, <5>4, <6>1 DEF UnlinkedFields
        <5> HIDE DEF Dead
        <5> QED
          BY <5>1, <5>3, <5>6, <5>7
      <4>2. CASE j = n + 1
        BY <1>1, <1>2, <4>2 DEF UnlinkedFields
      <4> QED
        BY <1>5, <4>1, <4>2
    <3> DEFINE Dead2 == K \cup {Nil} \cup Above(i)'
    <3>10. Dead \subseteq Dead2
      BY <3>4
    <3> HIDE DEF Dead
    <3>11. /\ \A k \in K : procs'[k].script = Nil /\ procs'[k].ended
                           /\ {procs'[k].child, procs'[k].prev, procs'[k].next} \subseteq Dead2
           /\ \A x \in Slot : procs'[x].script = Nil /\ procs'[x].mark = stack'[i].at => x \in K
           /\ \A j \in DOMAIN stack' : stack'[j].fn = "delete" => procs'[stack'[j].p].script # Nil
           /\ \A j \in DOMAIN stack' : j > i /\ stack'[j].fn = "delete" =>
                /\ procs'[stack'[j].p].next \in Dead2
                /\ stack'[j].at # "prev" => procs'[stack'[j].p].prev \in Dead2
                /\ stack'[j].at \in {"check", "free"} => procs'[stack'[j].p].child \in Dead2
      BY <2>1, <3>6, <3>7, <3>9, <3>10 DEF Live
    <3> HIDE DEF Dead2
    <3>12. Dead2 = K \cup {Nil} \cup Above(i)'
      BY DEF Dead2
    <3>13. Grave(K, i)'
      BY <3>8, <3>11, <3>12 DEF Grave, Live
    <3> QED
      BY <3>13
  <2> QED
    BY <2>1, <2>2 DEF GravesOK, Live
<1> QED
  BY <1>9, <1>10, <1>11, <1>13, <1>14

(* Proc_EndEachMarked comes to a slot freed since it began.                 *)
LEMMA EndGrave ==
  ASSUME CoreInv, TypeOK', stack # << >>, Top.fn = "endMarked", NEW q \in Slot,
         NEW n, n = Len(stack),
         ~Live(q), procs[q].mark = Top.at, NEW g \in Frame, Alike(Top, g),
         End(Append(Callers, g), q)
  PROVE  CoreInv'
<1> USE DEF CoreInv
<1> DEFINE f == [fn |-> "delete", at |-> "prev", p |-> q]
<1>1. /\ UnlinkedFields(q)
      /\ \A x \in Slot : Live(x)' <=> Live(x)
      /\ Par' = Par
      /\ \A x \in Root \cup Slot :
           Newest(x)' = IF x = procs[q].parent /\ Newest(x) = q
                        THEN procs[q].prev ELSE Newest(x)
  BY EndWrites
<1>2. /\ Idle /\ n \in Nat \ {0} /\ n \in DOMAIN stack /\ Top = stack[n]
      /\ DOMAIN stack = 1 .. n
  BY StackTop DEF Idle
<1>3. /\ Keeps(n) /\ Len(stack') = n + 1 /\ stack'[n + 1] = f
      /\ DOMAIN stack' = 1 .. n + 1 /\ Top' = f
  <2> DEFINE s == Append(Callers, g)
  <2>1. f \in Frame /\ stack' = Append(s, f)
    BY NewFrames DEF End, Call
  <2>2. From(s, n) /\ Len(stack) <= n + 1
    BY <1>2, FromTop
  <2> HIDE DEF s, f
  <2> QED
    BY <2>1, <2>2, KeepsPush
<1>4. /\ \A i \in 1 .. n : i \in DOMAIN stack /\ i \in DOMAIN stack' /\ i # n + 1 /\ ~(i > n)
      /\ \A i \in DOMAIN stack' : i \in 1 .. n \/ i = n + 1
      /\ n + 1 \notin 1 .. n /\ n + 1 > n /\ n \in 1 .. n
  BY <1>2, <1>3
<1>5. \A i \in DOMAIN stack : stack[i].fn = "delete" => Dies(i) /\ Live(stack[i].p) /\ i # n
  BY <1>2, AllLive
<1>6. \A i \in 1 .. n : stack[i].fn = "delete" => stack'[i] = stack[i] /\ stack[i].at # "prev"
  <2> SUFFICES ASSUME NEW i \in 1 .. n, stack[i].fn = "delete"
               PROVE  stack'[i] = stack[i] /\ stack[i].at # "prev"
    OBVIOUS
  <2>1. i < Len(stack)
    BY <1>2, <1>3, <1>4, <1>5, KeptDomain
  <2> QED
    BY <1>3, <1>4, <2>1 DEF Keeps, FramesOK, FrameOK
<1>7. /\ Doomed' = Doomed
      /\ \A i \in 1 .. n + 1 : Under(i)' = Under(i)
      /\ Under(n + 1)' = Doomed
      /\ \A i \in 1 .. n : Dies(i)' <=> Dies(i)
  <2>1. \A j \in DOMAIN stack : Dies(j) => j \in 1 .. n
    BY <1>2
  <2>2. stack'[n + 1] = [fn |-> "delete", at |-> "prev", p |-> q]
    BY <1>3
  <2> HIDE DEF f
  <2>3. /\ Doomed' = Doomed \cup IF Live(q) THEN {q} ELSE {}
        /\ \A i \in 1 .. n + 1 : Under(i)' = Under(i)
        /\ Under(n + 1)' = Doomed
        /\ \A i \in 1 .. n : Dies(i)' <=> Dies(i)
    BY <1>1, <1>3, <2>1, <2>2, DoomedGrows
  <2> QED
    BY <2>3
<1>8. Closing' = Closing
  <2>1. {j \in DOMAIN stack : Dies(j) /\ stack[j].at \in {"check", "free"}}'
        = {j \in DOMAIN stack : Dies(j) /\ stack[j].at \in {"check", "free"}}
    <3> SUFFICES ASSUME NEW j
                 PROVE  (j \in DOMAIN stack' /\ Dies(j)' /\ stack'[j].at \in {"check", "free"})
                          <=> (j \in DOMAIN stack /\ Dies(j) /\ stack[j].at \in {"check", "free"})
      OBVIOUS
    <3>1. CASE j \in 1 .. n
      BY <1>4, <1>6, <1>7, <3>1 DEF Dies
    <3>2. CASE j \notin 1 .. n
      BY <1>2, <1>3, <1>4, <3>2
    <3> QED
      BY <3>1, <3>2
  <2>2. \A j \in DOMAIN stack : Dies(j) => stack'[j] = stack[j]
    BY <1>2, <1>6 DEF Dies
  <2> QED
    BY <2>1, <2>2 DEF Closing
<1>9. PICK K \in SUBSET Slot : Grave(K, n)
  BY <1>2 DEF GravesOK
<1> DEFINE Dead == K \cup {Nil}
<1>10. /\ q \in K
       /\ \A k \in K : k \in Slot /\ ~Live(k) /\ procs[k].ended
                       /\ {procs[k].child, procs[k].prev, procs[k].next} \subseteq Dead
       /\ \A x \in Slot : ~Live(x) /\ procs[x].mark = Top.at => x \in K
       /\ \A j \in DOMAIN stack : stack[j].fn = "endMarked" => j = n
  <2>1. Above(n) = {}
    BY <1>2, <1>4 DEF Above
  <2> QED
    BY <1>2, <1>9, <2>1 DEF Grave
<1>11. \A x \in {q, procs[q].prev, procs[q].next} : x \in Slot => ~Live(x)
  BY <1>10, Slots
<1>12. TreeOK' /\ FreeListExact'
  <2>1. TreeOK'
    BY <1>1 DEF TreeOK, UnlinkedFields
  <2>2. FreeListExact'
    BY <1>1 DEF FreeListExact, UnlinkedFields
  <2> QED
    BY <2>1, <2>2
<1>13. \A x : Kids(x)' = Kids(x)
  BY <1>1, <1>7 DEF Kids, UnlinkedFields
<1>14. (\A x \in Open : ListOK(x))'
  <2>1. Open' = Open /\ Open \subseteq Root \cup Slot
    BY <1>1, <1>8, DoomedLive DEF Open
  <2>2. ASSUME NEW x \in Open PROVE ListOK(x)'
    <3>1. ListOK(x) /\ x \in Root \cup Slot
      BY <2>1
    <3>2. Newest(x) # q
      <4>1. Newest(x) \in Kids(x) \/ Newest(x) = Nil
        BY <3>1 DEF ListOK
      <4> QED
        BY <4>1, Slots DEF Kids
    <3>3. Newest(x)' = Newest(x)
      BY <1>1, <3>1, <3>2
    <3>4. \A z \in Kids(x) : procs'[z].prev = procs[z].prev /\ procs'[z].next = procs[z].next
      BY <1>1, <1>11 DEF UnlinkedFields, Kids
    <3> QED
      BY <1>13, <3>1, <3>3, <3>4, ListStays
  <2> QED
    BY <2>1, <2>2
<1>15. RestOK'
  <2>1. \A c \in Closing : Kids(c) = {}
    BY <1>2, IdleClosed
  <2> QED
    BY <1>8, <1>13, <2>1 DEF RestOK
<1>16. procs'[q].script = Nil
  BY <1>1 DEF Live
<1>17. HeadOK'
  BY <1>3, <1>16 DEF HeadOK, Live
<1>18. SameMarks
  BY <1>1 DEF UnlinkedFields, SameMarks
<1>19. FramesOK'
  <2>1. \A i \in 1 .. n : FrameOK(i)'
    <3>1. \A i \in 1 .. n : \A x \in Reach(Par, Under(i)) : procs'[x].script = procs[x].script
      BY <1>1, ReachBase DEF UnlinkedFields
    <3>2. \A i \in 1 .. n : stack[i].fn = "delete" =>
            /\ stack'[i] = stack[i]
            /\ procs'[stack[i].p].script # Nil => Live(stack[i].p)
            /\ stack[i].at # "prev" \/ i = Len(stack')
      BY <1>4, <1>5, <1>6
    <3> QED
      BY <1>1, <1>3, <1>7, <1>18, <3>1, <3>2, KeptFramesOK
  <2>2. ASSUME NEW i, i = n + 1 PROVE FrameOK(i)'
    <3>1. stack'[i] = f /\ ~(i < Len(stack'))
      BY <1>2, <1>3, <2>2
    <3> QED
      BY <1>16, <3>1 DEF FrameOK, Live
  <2> QED
    BY <1>4, <2>1, <2>2 DEF FramesOK
<1>20. \A i \in 1 .. n : stack'[i].fn = stack[i].fn
  BY <1>3 DEF Keeps, Alike
<1>21. Top.at = stack'[n].at
  BY <1>2, <1>3, <1>4 DEF Keeps, Alike
<1>22. GravesOK'
  <2>1. ASSUME NEW i \in DOMAIN stack', stack'[i].fn = "delete", procs'[stack'[i].p].script = Nil
        PROVE  i = n + 1
    <3>1. CASE i \in 1 .. n
      <4>1. stack[i].fn = "delete" /\ i \in DOMAIN stack
        BY <1>4, <1>20, <2>1, <3>1
      <4>2. stack'[i] = stack[i] /\ stack[i].p \in Slot /\ Live(stack[i].p)
        BY <1>5, <1>6, <3>1, <4>1, StackShape, FrameShape
      <4> QED
        BY <1>1, <2>1, <4>2 DEF Live
    <3> QED
      BY <1>4, <3>1
  <2>2. /\ n + 1 \in DOMAIN stack' /\ stack'[n + 1].at # "free" /\ stack'[n + 1].fn = "delete"
        /\ procs'[stack'[n + 1].p].script = Nil
        /\ n \in DOMAIN stack' /\ n < n + 1 /\ stack'[n].fn = "endMarked"
        /\ \A k \in DOMAIN stack' : k > n => k = n + 1
    BY <1>2, <1>3, <1>4, <1>16, <1>20
  <2>3. \A k \in K : procs'[k].script = Nil /\ procs'[k].ended
                     /\ {procs'[k].child, procs'[k].prev, procs'[k].next} \subseteq Dead
    <3> TAKE k \in K
    <3>1. k \in Slot /\ procs[k].script = Nil /\ procs[k].ended
          /\ {procs[k].child, procs[k].prev, procs[k].next} \subseteq Dead
          /\ {procs[q].child, procs[q].prev, procs[q].next} \subseteq Dead
      BY <1>10 DEF Live
    <3>2. Nil \in Dead
      OBVIOUS
    <3> HIDE DEF Dead
    <3> QED
      BY <1>1, <3>1, <3>2 DEF UnlinkedFields
  <2>4. \A x \in Slot : procs'[x].script = Nil /\ procs'[x].mark = stack'[n].at => x \in K
    BY <1>1, <1>10, <1>18, <1>21 DEF SameMarks, Live
  <2>5. \A j \in DOMAIN stack' : stack'[j].fn = "endMarked" => j = n
    BY <1>3, <1>4, <1>10, <1>20
  <2>6. Grave(K, n)'
    <3> DEFINE Dead2 == K \cup {Nil} \cup Above(n)'
    <3>1. Dead \subseteq Dead2 /\ Dead2 = K \cup {Nil} \cup Above(n)'
      OBVIOUS
    <3> HIDE DEF Dead, Dead2
    <3>2. \A k \in K : procs'[k].script = Nil /\ procs'[k].ended
                       /\ {procs'[k].child, procs'[k].prev, procs'[k].next} \subseteq Dead2
      BY <2>3, <3>1
    <3>3. \A j \in DOMAIN stack' : j > n => procs'[stack'[j].p].script = Nil /\ stack'[j].p \in K
      BY <1>3, <1>10, <2>2
    <3> QED
      BY <2>4, <2>5, <3>1, <3>2, <3>3 DEF Grave, Live
  <2>7. ASSUME NEW i \in DOMAIN stack', stack'[i].fn = "endMarked"
        PROVE  (\E L \in SUBSET Slot : Grave(L, i))'
    <3>1. i = n
      BY <2>5, <2>7
    <3> QED
      BY <2>6, <3>1
  <2> QED
    BY <2>1, <2>2, <2>7 DEF GravesOK, Live
<1> QED
  BY <1>12, <1>14, <1>15, <1>17, <1>19, <1>22

(* Every use of Proc_End. *)
LEMMA EndSteps ==
  ASSUME CoreInv, TypeOK', CmdEnd \/ CmdEndIfDuplicate \/ CmdEndDuplicates \/ CallEnd
  PROVE  CoreInv'
<1> USE DEF CoreInv
<1>1. stack # << >> /\ Idle /\ Top.p \in Slot /\ (Fetching \/ InCallback)
      /\ From(stack, Len(stack)) /\ Len(stack) <= Len(stack) + 1
      /\ From(Callers, Len(stack) - 1) /\ Len(stack) <= (Len(stack) - 1) + 1
  <2>1. stack # << >> /\ (Fetching \/ InCallback) /\ Top.fn \in {"script", "callback"}
    BY DEF CmdEnd, CmdEndIfDuplicate, CmdEndDuplicates, CallEnd, Fetching, InCallback, Doing
  <2>2. Idle /\ Top.p \in Slot
    BY <2>1, StackTop, FrameShape DEF Idle
  <2>3. Len(stack) \in Nat
    BY StackShape
  <2> QED
    BY <2>1, <2>2, <2>3, FromStack, FromCallers
<1>2. CASE CmdEnd \/ CmdEndIfDuplicate
  <2>1. Top.fn = "script" /\ Live(Top.p) /\ End(Callers, Top.p)
    BY <1>2 DEF CmdEnd, CmdEndIfDuplicate, Fetching, Doing
  <2>2. Top.p \notin Reach(Par, Doomed)
    BY <1>1, <2>1, TopSays
  <2> QED
    BY <1>1, <2>1, <2>2, EndCore
<1>3. CASE CmdEndDuplicates \/ CallEnd
  <2>1. PICK q \in Target : End(stack, q)
    BY <1>3 DEF CmdEndDuplicates, CallEnd
  <2>2. q \in Slot /\ Live(q) /\ q \notin Reach(Par, Doomed)
    BY <1>1, IdleDying DEF Target
  <2> QED
    BY <1>1, <2>1, <2>2, EndCore
<1> QED
  BY <1>2, <1>3

(* The loops of Proc_EndEach and Proc_EndEachMarked. *)
LEMMA LoopSteps ==
  ASSUME CoreInv, TypeOK', EndEachLoop \/ EndMarkedLoop
  PROVE  CoreInv'
<1> USE DEF CoreInv
<1>1. stack # << >> /\ Top.fn \in {"endEach", "endMarked"} /\ Idle
  BY DEF EndEachLoop, EndMarkedLoop, Idle
<1> DEFINE matching == IF Top.fn = "endEach" THEN {q \in Slot : procs[q].script = Top.at}
                                             ELSE {q \in Slot : procs[q].mark = Top.at}
<1>2. LoopEnd(matching)
  BY DEF EndEachLoop, EndMarkedLoop
<1>3. CASE Return /\ UNCHANGED <<procs, freeList, root>>
  BY <1>1, <1>3, QuietLoops
<1>4. ASSUME NEW q \in matching, End(Append(Callers, [Top EXCEPT !.p = q + 1]), q)
      PROVE  CoreInv'
  <2> DEFINE g == [fn |-> Top.fn, at |-> Top.at, p |-> q + 1]
  <2>1. q \in Slot /\ q + 1 \in 1 .. NProc + 1
    BY ProcAssumption DEF Slot
  <2>2. g \in Frame /\ Alike(Top, g)
    BY <1>1, <2>1, StackTop, FrameShape, LoopFrames DEF Alike
  <2>3. End(Append(Callers, g), q)
    BY <1>1, <1>4, Bumped
  <2>4. Top \in Frame /\ (Top.fn = "endEach" => Top.at \in Script)
    BY <1>1, StackTop, FrameShape
  <2>5. q \notin Reach(Par, Doomed)
    BY <1>1, TopSays
  <2>6. Top.fn = "endEach" => Live(q)
    BY <2>4, Slots DEF Live
  <2>7. Top.fn = "endMarked" => procs[q].mark = Top.at
    OBVIOUS
  <2> HIDE DEF g, matching
  <2>8. CASE Live(q)
    <3> DEFINE s == Append(Callers, g)
    <3>1. From(s, Len(stack)) /\ End(s, q)
      BY <1>1, <2>2, <2>3, FromTop
    <3>2. Len(stack) <= Len(stack) + 1
      BY StackShape
    <3> HIDE DEF s
    <3> QED
      BY <1>1, <2>1, <2>5, <2>8, <3>1, <3>2, EndCore
  <2>9. CASE ~Live(q)
    BY <1>1, <2>1, <2>2, <2>3, <2>6, <2>7, <2>9, EndGrave
  <2> QED
    BY <2>8, <2>9
<1> HIDE DEF matching
<1> QED
  BY <1>2, <1>3, <1>4 DEF LoopEnd
-----------------------------------------------------------------------------
(* DeleteProcessRecursive. *)

(* The n-th frame, the top, moves to a and f is called. *)
Walks(n, a, f) ==
  /\ Keeps(n) /\ Len(stack') = n + 1 /\ DOMAIN stack' = 1 .. n + 1
  /\ stack'[n] = [fn |-> "delete", at |-> a, p |-> Top.p]
  /\ stack'[n + 1] = f /\ Top' = f

WalksTo(n, a, x) == Walks(n, a, [fn |-> "delete", at |-> "prev", p |-> x])

(* A step of DeleteProcessRecursive that calls keeps the frames below and   *)
(* its own slot.                                                            *)
LEMMA WalkCalls ==
  ASSUME TypeOK, stack # << >>, Top.fn = "delete", NEW n, n = Len(stack),
         NEW a \in {"prev", "child", "check", "free"}, NEW f \in Frame,
         stack' = Append(At(a), f)
  PROVE  Walks(n, a, f)
<1> DEFINE g == [fn |-> "delete", at |-> a, p |-> Top.p]
           s == Append(Callers, g)
<1>1. Top.p \in Slot /\ n \in Nat \ {0} /\ n \in 1 .. n
  BY StackTop, FrameShape
<1>2. g \in Frame /\ Alike(Top, g)
  BY <1>1, NewFrames DEF Alike
<1>3. stack' = Append(s, f)
  BY Moved
<1> HIDE DEF g
<1>4. From(s, n) /\ s[n] = g
  BY <1>2, FromTop
<1> HIDE DEF s
<1>5. Len(stack) <= n + 1
  BY <1>1
<1>6. /\ Keeps(n) /\ Len(stack') = n + 1 /\ stack'[n + 1] = f
      /\ DOMAIN stack' = 1 .. n + 1 /\ Top' = f
      /\ \A i \in 1 .. n : stack'[i] = s[i]
  BY <1>3, <1>4, <1>5, KeepsPush
<1> QED
  BY <1>1, <1>4, <1>6 DEF Walks, g

(* The ways DeleteProcessRecursive goes on.                                 *)
LEMMA WalkWays ==
  ASSUME TypeOK, DeleteWalk, NEW n, n = Len(stack)
  PROVE  /\ stack # << >> /\ n \in Nat \ {0} /\ n \in DOMAIN stack /\ DOMAIN stack = 1 .. n
         /\ Top = stack[n] /\ Top.fn = "delete" /\ Top.p \in Slot
         /\ Top.at \in {"prev", "child", "check"}
         /\ SameTree /\ SameMarks
         /\ \/ \E x \in Slot : /\ Top.at = "prev" /\ procs[Top.p].prev = x
                               /\ WalksTo(n, "child", x)
            \/ \E x \in Slot : /\ Top.at # "check" /\ procs[Top.p].child = x
                               /\ Top.at = "prev" => procs[Top.p].prev = Nil
                               /\ WalksTo(n, "check", x)
            \/ /\ Top.at = "prev" => procs[Top.p].prev = Nil
               /\ Top.at # "check" => procs[Top.p].child = Nil
               /\ IF procs[Top.p].ended THEN stack' = Callers
                  ELSE Walks(n, "free", [fn |-> "callback", at |-> "body", p |-> Top.p])
<1>1. /\ stack # << >> /\ n \in Nat \ {0} /\ n \in DOMAIN stack /\ DOMAIN stack = 1 .. n
      /\ Top = stack[n] /\ Top.fn = "delete" /\ Top.p \in Slot
      /\ Top.at \in {"prev", "child", "check"}
  BY StackTop, FrameShape DEF DeleteWalk
<1>2. SameTree /\ SameMarks
  BY Untouched DEF DeleteWalk
<1> DEFINE d == procs[Top.p]
           older == IF Top.at = "prev" THEN d.prev ELSE Nil
           child == IF Top.at # "check" THEN d.child ELSE Nil
<1>3. d.prev \in Slot \cup {Nil} /\ d.child \in Slot \cup {Nil}
  BY <1>1, ProcFields
<1>4. \/ older # Nil /\ stack' = Call(At("child"), "delete", older, "prev")
      \/ older = Nil /\ child # Nil /\ stack' = Call(At("check"), "delete", child, "prev")
      \/ older = Nil /\ child = Nil /\ d.ended /\ stack' = Callers
      \/ older = Nil /\ child = Nil /\ ~d.ended
           /\ stack' = Call(At("free"), "callback", Top.p, "body")
  BY DEF DeleteWalk
<1>5. CASE older # Nil /\ stack' = Call(At("child"), "delete", older, "prev")
  <2>1. Top.at = "prev" /\ d.prev = older /\ older \in Slot
    BY <1>3, <1>5
  <2> DEFINE f == [fn |-> "delete", at |-> "prev", p |-> older]
  <2>2. f \in Frame /\ stack' = Append(At("child"), f)
    BY <1>5, <2>1, NewFrames DEF Call
  <2> HIDE DEF f, older
  <2>3. Walks(n, "child", f)
    BY <1>1, <2>2, WalkCalls
  <2> QED
    BY <1>1, <1>2, <2>1, <2>3 DEF WalksTo, f
<1>6. CASE older = Nil /\ child # Nil /\ stack' = Call(At("check"), "delete", child, "prev")
  <2>1. Top.at # "check" /\ d.child = child /\ child \in Slot /\ (Top.at = "prev" => d.prev = Nil)
    BY <1>3, <1>6
  <2> DEFINE f == [fn |-> "delete", at |-> "prev", p |-> child]
  <2>2. f \in Frame /\ stack' = Append(At("check"), f)
    BY <1>6, <2>1, NewFrames DEF Call
  <2> HIDE DEF f, child
  <2>3. Walks(n, "check", f)
    BY <1>1, <2>2, WalkCalls
  <2> QED
    BY <1>1, <1>2, <2>1, <2>3 DEF WalksTo, f
<1>7. CASE older = Nil /\ child = Nil /\ d.ended /\ stack' = Callers
  BY <1>1, <1>2, <1>7
<1>8. CASE /\ older = Nil /\ child = Nil /\ ~d.ended
           /\ stack' = Call(At("free"), "callback", Top.p, "body")
  <2>1. (Top.at = "prev" => d.prev = Nil) /\ (Top.at # "check" => d.child = Nil)
    BY <1>8
  <2> DEFINE f == [fn |-> "callback", at |-> "body", p |-> Top.p]
  <2>2. f \in Frame /\ stack' = Append(At("free"), f)
    BY <1>1, <1>8, NewFrames DEF Call
  <2> HIDE DEF f
  <2>3. Walks(n, "free", f)
    BY <1>1, <2>2, WalkCalls
  <2> QED
    BY <1>1, <1>2, <1>8, <2>1, <2>3 DEF f
<1> QED
  BY <1>4, <1>5, <1>6, <1>7, <1>8

(* The frames below the top, when DeleteProcessRecursive goes on or returns. *)
LEMMA BelowKept ==
  ASSUME TypeOK, TypeOK', stack # << >>, NEW n, n = Len(stack), Keeps(n) \/ stack' = Callers
  PROVE  /\ Keeps(n - 1) /\ n - 1 \in Nat /\ n \in Nat \ {0} /\ DOMAIN stack = 1 .. n
         /\ \A i \in 1 .. n - 1 : /\ i \in 1 .. n /\ i # n /\ i < n /\ ~(n < i)
                                  /\ i \in DOMAIN stack /\ stack'[i] = stack[i]
         /\ \A i \in DOMAIN stack : i \in 1 .. n - 1 \/ i = n
         /\ stack' = Callers => Len(stack') = n - 1 /\ DOMAIN stack' = 1 .. n - 1
<1>1. /\ n - 1 \in Nat /\ n \in Nat \ {0} /\ DOMAIN stack = 1 .. n
      /\ n - 1 <= Len(stack) /\ Len(stack) <= (n - 1) + 1
      /\ \A i \in 1 .. n - 1 : i \in 1 .. n /\ i # n /\ i < n /\ ~(n < i) /\ i \in DOMAIN stack
      /\ \A i \in DOMAIN stack : i \in 1 .. n - 1 \/ i = n
      /\ (n - 1) + 1 = n
  BY StackTop
<1>2. CASE Keeps(n)
  <2>1. n - 1 <= Len(stack')
    <3>1. n <= Len(stack') /\ Len(stack') \in Nat
      BY <1>2, KeptDomain
    <3> QED
      BY <1>1, <3>1
  <2>2. \A i \in 1 .. n - 1 : stack'[i] = stack[i] /\ Alike(stack[i], stack'[i])
    BY <1>1, <1>2 DEF Keeps
  <2>3. Keeps(n - 1)
    BY <1>1, <2>1, <2>2 DEF Keeps
  <2>4. stack' = Callers => FALSE
    <3>1. n <= Len(stack')
      BY <1>2 DEF Keeps
    <3>2. Len(Callers) = n - 1
      BY StackTop
    <3> QED
      BY <1>1, <3>1, <3>2
  <2> QED
    BY <1>1, <2>2, <2>3, <2>4
<1>3. CASE stack' = Callers
  <2>1. /\ Len(stack') = n - 1 /\ DOMAIN stack' = 1 .. n - 1
        /\ \A i \in 1 .. n - 1 : stack'[i] = stack[i]
    <3>1. Callers \in Seq(Frame) /\ Len(Callers) = n - 1
          /\ \A i \in 1 .. n - 1 : Callers[i] = stack[i]
      BY StackTop
    <3>2. DOMAIN Callers = 1 .. n - 1
      BY <3>1, LenProperties
    <3> QED
      BY <1>3, <3>1, <3>2
  <2>2. \A i \in 1 .. n - 1 : Alike(stack[i], stack'[i])
    BY <2>1 DEF Alike
  <2>3. n - 1 <= Len(stack') /\ \A i \in 1 .. n - 1 : i < Len(stack) => stack'[i] = stack[i]
    BY <1>1, <2>1
  <2>4. Keeps(n - 1)
    BY <1>1, <2>2, <2>3 DEF Keeps
  <2> QED
    BY <1>1, <2>1, <2>4
<1> QED
  BY <1>2, <1>3

(* The frames below a deletion are as they should be after a step of it     *)
(* that spares what they delete.                                            *)
LEMMA BelowOK ==
  ASSUME CoreInv, TypeOK', stack # << >>, NEW n, n = Len(stack), Keeps(n) \/ stack' = Callers,
         Par' = Par, SameMarks,
         \A x \in Reach(Par, Under(n)) : procs'[x].script = procs[x].script,
         \A i \in 1 .. n - 1 : stack[i].fn = "delete"
             => (procs'[stack[i].p].script # Nil <=> Live(stack[i].p))
  PROVE  /\ \A i \in 1 .. n - 1 : FrameOK(i)' /\ (Dies(i)' <=> Dies(i)) /\ i \in DOMAIN stack'
         /\ \A i \in 1 .. n : Under(i)' = Under(i)
         /\ \A i \in 1 .. n - 1 : stack[i].fn = "delete" => stack[i].at # "prev"
<1> USE DEF CoreInv
<1> DEFINE m == n - 1
<1>1. /\ Keeps(m) /\ m + 1 = n
      /\ \A i \in 1 .. m : i \in DOMAIN stack /\ stack'[i] = stack[i] /\ i < n
  <2>1. /\ Keeps(n - 1) /\ n \in Nat \ {0}
        /\ \A i \in 1 .. n - 1 : i \in DOMAIN stack /\ stack'[i] = stack[i] /\ i < n
    BY BelowKept
  <2>2. Keeps(m) /\ \A i \in 1 .. m : i \in DOMAIN stack /\ stack'[i] = stack[i] /\ i < n
    BY <2>1
  <2>3. m + 1 = n
    BY <2>1
  <2> QED
    BY <2>2, <2>3
<1> HIDE DEF m
<1>2. /\ \A i \in 1 .. m : Dies(i)' <=> Dies(i)
      /\ \A i \in 1 .. m : i \in DOMAIN stack'
      /\ \A i \in 1 .. m + 1 : Under(i)' = Under(i)
  <2>1. \A i \in 1 .. m : stack[i].fn = "delete"
             => (procs'[stack[i].p].script # Nil <=> Live(stack[i].p))
    BY DEF m
  <2> QED
    BY <1>1, <2>1, DiesKept
<1>3. \A i \in 1 .. m : stack[i].fn = "delete" => stack[i].at # "prev"
  BY <1>1 DEF FramesOK, FrameOK
<1>4. \A i \in 1 .. m : \A x \in Reach(Par, Under(i)) : procs'[x].script = procs[x].script
  <2> TAKE i \in 1 .. m
  <2>1. i < n /\ i \in DOMAIN stack
    BY <1>1
  <2>2. Under(i) \subseteq Under(n)
    <3>1. \A j \in DOMAIN stack : j < i => j < n
      BY <1>1, <2>1, BelowKept
    <3> QED
      BY <3>1 DEF Under
  <2>3. Under(i) \cap Slot \subseteq Reach(Par, Under(n))
    BY <2>2, ReachBase
  <2>4. Reach(Par, Under(i)) \subseteq Reach(Par, Under(n))
    BY <2>3, ReachTrans
  <2> QED
    BY <2>4
<1>5. \A i \in 1 .. m : stack[i].fn = "delete" =>
            /\ stack'[i] = stack[i]
            /\ procs'[stack[i].p].script # Nil => Live(stack[i].p)
            /\ stack[i].at # "prev" \/ i = Len(stack')
  BY <1>1, <1>3 DEF m
<1>6. \A i \in 1 .. m : FrameOK(i)'
  BY <1>1, <1>2, <1>4, <1>5, KeptFramesOK
<1> QED
  BY <1>1, <1>2, <1>3, <1>6 DEF m

(* DeleteProcessRecursive was called for a slot freed before: it goes no    *)
(* further than slots freed by the same Proc_EndEachMarked, and frees none. *)
LEMMA WalkGrave ==
  ASSUME CoreInv, TypeOK', DeleteWalk, NEW n, n = Len(stack), ~Live(Top.p)
  PROVE  CoreInv'
<1> USE DEF CoreInv
<1> DEFINE q == Top.p
<1>1. /\ stack # << >> /\ n \in Nat \ {0} /\ n \in DOMAIN stack /\ DOMAIN stack = 1 .. n
      /\ Top = stack[n] /\ Top.fn = "delete" /\ q \in Slot
      /\ SameTree /\ SameMarks
      /\ \/ \E x \in Slot : procs[q].prev = x /\ WalksTo(n, "child", x)
         \/ \E x \in Slot : procs[q].child = x /\ WalksTo(n, "check", x)
         \/ IF procs[q].ended THEN stack' = Callers
            ELSE Walks(n, "free", [fn |-> "callback", at |-> "body", p |-> q])
  BY WalkWays
<1>2. PICK j \in DOMAIN stack :
        /\ j < n /\ stack[j].fn = "endMarked"
        /\ \A k \in DOMAIN stack : k > j => stack[k].fn = "delete" /\ ~Live(stack[k].p)
  BY <1>1 DEF GravesOK
<1>3. PICK K \in SUBSET Slot : Grave(K, j)
  BY <1>2 DEF GravesOK
<1> DEFINE Dead == K \cup {Nil}
<1>4. /\ \A k \in DOMAIN stack : k > j => stack[k].fn = "delete" /\ stack[k].p \in K /\ stack[k].at # "free"
      /\ \A k \in K : k \in Slot /\ ~Live(k) /\ procs[k].ended
                      /\ {procs[k].child, procs[k].prev, procs[k].next} \subseteq Dead
      /\ \A x \in Slot : ~Live(x) /\ procs[x].mark = stack[j].at => x \in K
      /\ \A k \in DOMAIN stack : stack[k].fn = "endMarked" => k = j
      /\ q \in K
  <2>1. \A k \in DOMAIN stack : k > j => stack[k].fn = "delete" /\ stack[k].p \in K /\ stack[k].at # "free"
    BY <1>2, <1>3 DEF Grave, GravesOK
  <2>2. Above(j) \subseteq K
    BY <2>1 DEF Above
  <2>3. n > j
    BY <1>1, <1>2
  <2> QED
    BY <1>1, <1>3, <2>1, <2>2, <2>3 DEF Grave
<1> HIDE DEF q
<1>5. \/ \E x \in K, a \in {"child", "check"} : WalksTo(n, a, x)
      \/ stack' = Callers
  <2>1. procs[q].ended /\ procs[q].prev \in Dead /\ procs[q].child \in Dead
    BY <1>4
  <2> QED
    BY <1>1, <2>1, Slots
<1> HIDE DEF Dead
<1>6. Keeps(n) \/ stack' = Callers
  BY <1>5 DEF WalksTo, Walks
<1>7. /\ n - 1 \in Nat
      /\ \A i \in 1 .. n - 1 : i \in 1 .. n /\ i # n /\ i < n /\ i \in DOMAIN stack /\ stack'[i] = stack[i]
      /\ \A i \in DOMAIN stack : i \in 1 .. n - 1 \/ i = n
  BY <1>1, <1>6, BelowKept
<1>8. \A x \in Slot : /\ procs'[x].script = procs[x].script
                      /\ procs'[x].mark = procs[x].mark /\ procs'[x].ended = procs[x].ended
                      /\ procs'[x].child = procs[x].child /\ procs'[x].next = procs[x].next
                      /\ procs'[x].prev = procs[x].prev
  BY <1>1 DEF SameTree, SameMarks
<1>9. Par' = Par /\ Back' = Back
  BY <1>1, SameTreeFacts
<1>10. ASSUME NEW i \in DOMAIN stack', i \notin 1 .. n - 1
       PROVE  /\ i > j
              /\ stack'[i].fn = "delete" /\ stack'[i].p \in K /\ stack'[i].at # "free"
              /\ i < Len(stack') => stack'[i].at # "prev"
  <2>1. stack' # Callers
    BY <1>1, <1>10, BelowKept
  <2>2. PICK x \in K, a \in {"child", "check"} : WalksTo(n, a, x)
    BY <1>5, <2>1
  <2>3. /\ Len(stack') = n + 1 /\ DOMAIN stack' = 1 .. n + 1
        /\ stack'[n] = [fn |-> "delete", at |-> a, p |-> q]
        /\ stack'[n + 1] = [fn |-> "delete", at |-> "prev", p |-> x]
    BY <2>2 DEF WalksTo, Walks, q
  <2>4. i = n \/ i = n + 1
    BY <1>1, <1>10, <2>3
  <2>5. n > j /\ n + 1 > j /\ ~(n + 1 < n + 1)
    BY <1>1, <1>2
  <2>6. CASE i = n
    BY <1>4, <2>2, <2>3, <2>5, <2>6
  <2>7. CASE i = n + 1
    BY <2>2, <2>3, <2>5, <2>7
  <2> QED
    BY <2>4, <2>6, <2>7
<1>11. /\ \A i \in 1 .. n - 1 : FrameOK(i)' /\ (Dies(i)' <=> Dies(i)) /\ i \in DOMAIN stack'
       /\ \A i \in 1 .. n - 1 : stack[i].fn = "delete" => stack[i].at # "prev"
  <2>1. \A x \in Reach(Par, Under(n)) : procs'[x].script = procs[x].script
    BY <1>8, ReachBase
  <2>2. \A i \in 1 .. n - 1 : stack[i].fn = "delete"
             => (procs'[stack[i].p].script # Nil <=> Live(stack[i].p))
    BY <1>7, <1>8, StackShape, FrameShape DEF Live
  <2> QED
    BY <1>1, <1>6, <1>9, <2>1, <2>2, BelowOK
<1>12. \A i \in DOMAIN stack' : i \notin 1 .. n - 1 => procs'[stack'[i].p].script = Nil
  BY <1>4, <1>8, <1>10 DEF Live
<1>13. Doomed' = Doomed /\ Closing' = Closing
  <2>1. /\ \A i \in DOMAIN stack' : Dies(i)' => i \in 1 .. n - 1
        /\ \A i \in DOMAIN stack : Dies(i) => i \in 1 .. n - 1
    BY <1>1, <1>7, <1>12 DEF Dies, Live, q
  <2>2. {i \in DOMAIN stack : Dies(i)}' = {i \in DOMAIN stack : Dies(i)}
    BY <1>7, <1>11, <2>1
  <2>3. {i \in DOMAIN stack : Dies(i) /\ stack[i].at \in {"check", "free"}}'
          = {i \in DOMAIN stack : Dies(i) /\ stack[i].at \in {"check", "free"}}
    BY <1>7, <1>11, <2>1
  <2>4. \A i \in DOMAIN stack : Dies(i) => stack'[i] = stack[i]
    BY <1>7, <2>1
  <2> QED
    BY <2>2, <2>3, <2>4 DEF Doomed, Closing
<1>14. /\ TreeOK' /\ FreeListExact'
       /\ \A par : Kids(par)' = Kids(par)
       /\ (\A par \in Open : ListOK(par))'
  BY <1>1, <1>13, QuietTree
<1>15. RestOK'
  <2>1. Reach(Back, {q}) \subseteq K
    <3>1. \A x \in K : Back[x] \in Slot => Back[x] \in K
      BY <1>4, Slots DEF Back, Dead
    <3>2. {q} \cap Slot \subseteq K
      BY <1>4
    <3> QED
      BY <3>1, <3>2, ReachLeast
  <2>2. \A c \in Closing : Kids(c) = {}
    <3> SUFFICES ASSUME NEW c \in Closing, NEW x \in Kids(c) PROVE FALSE
      OBVIOUS
    <3>1. x \in Slot /\ Live(x)
      BY DEF Kids
    <3>2. x \in Reach(Back, {q})
      BY <3>1 DEF RestOK, q
    <3> QED
      BY <1>4, <2>1, <3>1, <3>2
  <2> QED
    BY <1>13, <1>14, <2>2 DEF RestOK
<1>16. HeadOK'
  <2> SUFFICES ASSUME stack' # << >>, Top'.fn = "delete", Top'.at = "prev",
                      procs'[Top'.p].script # Nil
               PROVE  FALSE
    BY DEF HeadOK, Doing, Live
  <2>1. Len(stack') \in DOMAIN stack' /\ Top' = stack'[Len(stack')]
    <3>1. stack' \in Seq(Frame)
      BY DEF TypeOK
    <3> QED
      BY <3>1, EmptySeq, LenProperties DEF Top
  <2>2. Len(stack') \in 1 .. n - 1
    BY <1>12, <2>1
  <2> QED
    BY <1>7, <1>11, <2>1, <2>2
<1>17. FramesOK'
  <2>1. ASSUME NEW i \in DOMAIN stack', i \notin 1 .. n - 1 PROVE FrameOK(i)'
    BY <1>10, <1>12, <2>1 DEF FrameOK, Live
  <2> QED
    BY <1>11, <2>1 DEF FramesOK
<1>18. j \in 1 .. n - 1 /\ j \in DOMAIN stack' /\ stack'[j] = stack[j]
  BY <1>1, <1>2, <1>7, <1>11
<1>19. Grave(K, j)'
  <2> DEFINE Dead2 == K \cup {Nil} \cup Above(j)'
  <2>1. Dead \subseteq Dead2 /\ Dead2 = K \cup {Nil} \cup Above(j)'
    BY DEF Dead
  <2> HIDE DEF Dead2
  <2>2. \A k \in K : procs'[k].script = Nil /\ procs'[k].ended
                     /\ {procs'[k].child, procs'[k].prev, procs'[k].next} \subseteq Dead2
    BY <1>4, <1>8, <2>1 DEF Live
  <2>3. \A x \in Slot : procs'[x].script = Nil /\ procs'[x].mark = stack'[j].at => x \in K
    BY <1>4, <1>8, <1>18 DEF Live
  <2>4. \A i \in DOMAIN stack' : stack'[i].fn = "endMarked" => i = j
    BY <1>4, <1>7, <1>10
  <2>5. \A i \in DOMAIN stack' : i > j => procs'[stack'[i].p].script = Nil /\ stack'[i].p \in K
    BY <1>4, <1>7, <1>8, <1>10 DEF Live
  <2> QED
    BY <2>1, <2>2, <2>3, <2>4, <2>5 DEF Grave, Live
<1>20. GravesOK'
  <2>1. ASSUME NEW i \in DOMAIN stack', stack'[i].fn = "endMarked"
        PROVE  (\E L \in SUBSET Slot : Grave(L, i))'
    <3>1. i = j
      BY <1>19, <2>1 DEF Grave
    <3> QED
      BY <1>19, <3>1
  <2>2. \A k \in DOMAIN stack' : k > j => stack'[k].fn = "delete" /\ procs'[stack'[k].p].script = Nil
                                          /\ stack'[k].at # "free"
    <3> TAKE k \in DOMAIN stack'
    <3>1. CASE k \in 1 .. n - 1
      <4>1. k \in DOMAIN stack /\ stack'[k] = stack[k]
        BY <1>7, <3>1
      <4>2. k > j => stack[k].fn = "delete" /\ stack[k].p \in K /\ stack[k].at # "free"
        BY <1>4, <4>1
      <4> QED
        BY <1>4, <1>8, <4>1, <4>2 DEF Live
    <3>2. CASE k \notin 1 .. n - 1
      BY <1>10, <1>12, <3>2
    <3> QED
      BY <3>1, <3>2
  <2>3. ASSUME NEW i \in DOMAIN stack', stack'[i].fn = "delete", procs'[stack'[i].p].script = Nil
        PROVE  i > j
    <3> SUFFICES ASSUME i \in 1 .. n - 1 PROVE i > j
      BY <1>10
    <3>1. i \in DOMAIN stack /\ stack[i].fn = "delete" /\ ~Live(stack[i].p)
      <4>1. i \in DOMAIN stack /\ stack'[i] = stack[i]
        BY <1>7
      <4>2. stack[i].p \in Slot
        BY <2>3, <4>1, StackShape, FrameShape
      <4> QED
        BY <1>8, <2>3, <4>1, <4>2 DEF Live
    <3>2. PICK k \in DOMAIN stack : k < i /\ stack[k].fn = "endMarked"
      BY <3>1 DEF GravesOK
    <3> QED
      BY <1>4, <3>2
  <2> QED
    BY <1>18, <1>2, <2>1, <2>2, <2>3 DEF GravesOK, Live
<1> QED
  BY <1>14, <1>15, <1>16, <1>17, <1>20

(* DeleteProcessRecursive of a live proc.                                   *)

(* What the frames below the n-th are closing. *)
Closed(n) ==
  {stack[k].p : k \in {j \in DOMAIN stack : j < n /\ Dies(j) /\ stack[j].at \in {"check", "free"}}}

(* While a live proc is deleted, all deletions below are of live procs,     *)
(* each counted once.                                                       *)
LEMMA LiveTop ==
  ASSUME CoreInv, stack # << >>, NEW n, n = Len(stack), Top.fn = "delete", Live(Top.p)
  PROVE  /\ \A i \in DOMAIN stack : stack[i].fn = "delete" => Dies(i) /\ Live(stack[i].p)
         /\ Doomed = Under(n) \cup {Top.p} /\ Top.p \in Doomed /\ Top.p \in Slot
         /\ Top.p \notin Reach(Par, Under(n)) /\ Top.p \notin Under(n)
         /\ Closing = Closed(n) \cup IF Top.at \in {"check", "free"} THEN {Top.p} ELSE {}
         /\ Closed(n) \subseteq Under(n) /\ Under(n) \subseteq Slot
<1> USE DEF CoreInv
<1>1. n \in Nat \ {0} /\ n \in DOMAIN stack /\ DOMAIN stack = 1 .. n /\ Top = stack[n]
      /\ Top.p \in Slot
  BY StackTop, FrameShape
<1>2. \A i \in DOMAIN stack : stack[i].fn = "delete" => Dies(i) /\ Live(stack[i].p)
  BY AllLive
<1>3. Dies(n)
  BY <1>1, <1>2
<1>4. Doomed = Under(n) \cup {Top.p}
  BY <1>3, DoomedTop
<1>5. Top.p \notin Reach(Par, Under(n)) /\ FrameOK(n)
  BY <1>1 DEF FramesOK, FrameOK
<1>6. Under(n) \subseteq Slot /\ Top.p \notin Under(n)
  <2>1. Under(n) \subseteq Slot
    BY <1>4, DoomedLive
  <2> QED
    BY <1>5, <2>1, ReachBase
<1>7. Closed(n) \subseteq Under(n)
  BY DEF Closed, Under
<1>8. Closing = Closed(n) \cup IF Top.at \in {"check", "free"} THEN {Top.p} ELSE {}
  <2>1. \A j \in DOMAIN stack : j < n \/ j = n
    BY <1>1
  <2> QED
    BY <1>1, <1>3, <2>1 DEF Closing, Closed
<1> QED
  BY <1>1, <1>2, <1>4, <1>5, <1>6, <1>7, <1>8

(* The frames below the top close what they did. *)
LEMMA ClosedKept ==
  ASSUME TypeOK, TypeOK', stack # << >>, NEW n, n = Len(stack), Keeps(n) \/ stack' = Callers,
         \A i \in 1 .. n - 1 : (Dies(i)' <=> Dies(i)) /\ i \in DOMAIN stack'
  PROVE  /\ {j \in DOMAIN stack' : j < n /\ Dies(j)' /\ stack'[j].at \in {"check", "free"}}
              = {j \in DOMAIN stack : j < n /\ Dies(j) /\ stack[j].at \in {"check", "free"}}
         /\ {j \in DOMAIN stack' : j < n /\ Dies(j)'} = {j \in DOMAIN stack : j < n /\ Dies(j)}
         /\ \A j \in DOMAIN stack : j < n => stack'[j] = stack[j]
<1>1. /\ n \in Nat \ {0} /\ DOMAIN stack = 1 .. n
      /\ \A i \in 1 .. n - 1 : i \in DOMAIN stack /\ stack'[i] = stack[i]
  BY BelowKept
<1>2. \A j \in DOMAIN stack : j < n => j \in 1 .. n - 1
  BY <1>1
<1>3. \A j \in DOMAIN stack' : j < n => j \in 1 .. n - 1
  <2>1. DOMAIN stack' = 1 .. Len(stack')
    BY LenProperties DEF TypeOK
  <2> QED
    BY <1>1, <2>1
<1> QED
  BY <1>1, <1>2, <1>3

(* What a step of DeleteProcessRecursive does to the doomed and the         *)
(* closing.                                                                 *)
LEMMA WalkSets ==
  ASSUME CoreInv, TypeOK', SameTree, SameMarks, stack # << >>, NEW n, n = Len(stack),
         Top.fn = "delete", Live(Top.p), NEW a \in {"child", "check", "free"}, NEW f \in Frame,
         Walks(n, a, f),
         f.fn = "delete" => Live(f.p) /\ f.p \in Slot /\ f.at = "prev"
  PROVE  /\ Doomed' = Doomed \cup IF f.fn = "delete" THEN {f.p} ELSE {}
         /\ Closing' = Closed(n) \cup IF a \in {"check", "free"} THEN {Top.p} ELSE {}
         /\ Under(n)' = Under(n) /\ Under(n + 1)' = Doomed
         /\ \A i \in 1 .. n - 1 : FrameOK(i)'
         /\ \A i \in DOMAIN stack' : i \in 1 .. n - 1 \/ i = n \/ i = n + 1
         /\ \A i \in DOMAIN stack' : stack'[i].fn = "delete" => procs'[stack'[i].p].script # Nil
<1> USE DEF CoreInv
<1>1. /\ n \in Nat \ {0} /\ DOMAIN stack = 1 .. n /\ n \in 1 .. n
      /\ \A i \in 1 .. n - 1 : i \in DOMAIN stack /\ stack'[i] = stack[i]
      /\ Keeps(n)
  <2>1. Keeps(n)
    BY DEF Walks
  <2>2. /\ n \in Nat \ {0} /\ DOMAIN stack = 1 .. n
        /\ \A i \in 1 .. n - 1 : i \in DOMAIN stack /\ stack'[i] = stack[i]
    BY <2>1, BelowKept
  <2> QED
    BY <2>1, <2>2
<1>2. \A x \in Slot : procs'[x].script = procs[x].script
  BY DEF SameTree
<1>3. /\ \A i \in 1 .. n - 1 : FrameOK(i)' /\ (Dies(i)' <=> Dies(i)) /\ i \in DOMAIN stack'
      /\ \A i \in 1 .. n : Under(i)' = Under(i)
  <2>1. \A x \in Reach(Par, Under(n)) : procs'[x].script = procs[x].script
    BY <1>2, ReachBase
  <2>2. \A i \in 1 .. n - 1 : stack[i].fn = "delete"
             => (procs'[stack[i].p].script # Nil <=> Live(stack[i].p))
    BY <1>1, <1>2, StackShape, FrameShape DEF Live
  <2>3. Par' = Par
    BY SameTreeFacts
  <2> QED
    BY <1>1, <2>1, <2>2, <2>3, BelowOK
<1>4. /\ DOMAIN stack' = 1 .. n + 1
      /\ stack'[n] = [fn |-> "delete", at |-> a, p |-> Top.p]
      /\ stack'[n + 1] = f
  BY DEF Walks
<1>5. /\ \A i \in DOMAIN stack' : i \in 1 .. n - 1 \/ i = n \/ i = n + 1
      /\ n \in DOMAIN stack' /\ n + 1 \in DOMAIN stack'
      /\ \A i \in DOMAIN stack' : i < n + 1 <=> i < n \/ i = n
      /\ ~(n < n) /\ ~(n + 1 < n)
  BY <1>1, <1>4
<1>6. /\ Doomed = Under(n) \cup {Top.p}
      /\ \A i \in DOMAIN stack : stack[i].fn = "delete" => Live(stack[i].p)
      /\ Top.p \in Slot
  BY LiveTop
<1>7. Dies(n)' /\ (Dies(n + 1)' <=> f.fn = "delete")
  BY <1>2, <1>4, <1>6 DEF Dies, Live
<1> DEFINE I == {j \in DOMAIN stack : j < n /\ Dies(j)}
           C == {j \in DOMAIN stack : j < n /\ Dies(j) /\ stack[j].at \in {"check", "free"}}
<1>8. /\ {j \in DOMAIN stack' : j < n /\ Dies(j)' /\ stack'[j].at \in {"check", "free"}} = C
      /\ {j \in DOMAIN stack' : j < n /\ Dies(j)'} = I
      /\ \A j \in DOMAIN stack : j < n => stack'[j] = stack[j]
  BY <1>1, <1>3, ClosedKept
<1>9. /\ Under(n) = {stack'[k].p : k \in I}
      /\ Closed(n) = {stack'[k].p : k \in C}
  BY <1>8 DEF Under, Closed
<1>10. /\ {j \in DOMAIN stack' : j < n + 1 /\ Dies(j)'} = I \cup {n}
       /\ {j \in DOMAIN stack' : Dies(j)'} = I \cup {n} \cup IF f.fn = "delete" THEN {n + 1} ELSE {}
  BY <1>5, <1>7, <1>8
<1>11. {j \in DOMAIN stack' : Dies(j)' /\ stack'[j].at \in {"check", "free"}}
         = C \cup IF a \in {"check", "free"} THEN {n} ELSE {}
  BY <1>4, <1>5, <1>7, <1>8
<1> HIDE DEF I, C
<1>12. Under(n + 1)' = Doomed
  <2>1. Under(n + 1)' = {stack'[k].p : k \in I \cup {n}}
    BY <1>10 DEF Under
  <2>2. stack'[n].p = Top.p
    BY <1>4
  <2> QED
    BY <1>6, <1>9, <2>1, <2>2
<1>13. Doomed' = Doomed \cup IF f.fn = "delete" THEN {f.p} ELSE {}
  <2>1. Doomed' = {stack'[k].p : k \in {j \in DOMAIN stack' : Dies(j)'}}
    BY DEF Doomed
  <2>2. CASE f.fn = "delete"
    BY <1>4, <1>6, <1>9, <1>10, <2>1, <2>2
  <2>3. CASE f.fn # "delete"
    BY <1>4, <1>6, <1>9, <1>10, <2>1, <2>3
  <2> QED
    BY <2>2, <2>3
<1>14. Closing' = Closed(n) \cup IF a \in {"check", "free"} THEN {Top.p} ELSE {}
  BY <1>4, <1>9, <1>11 DEF Closing
<1>15. \A i \in DOMAIN stack' : stack'[i].fn = "delete" => procs'[stack'[i].p].script # Nil
  <2> SUFFICES ASSUME NEW i \in DOMAIN stack', stack'[i].fn = "delete"
               PROVE  procs'[stack'[i].p].script # Nil
    OBVIOUS
  <2>1. CASE i \in 1 .. n - 1
    <3>1. stack'[i] = stack[i] /\ Live(stack[i].p) /\ stack[i].p \in Slot
      BY <1>1, <1>6, <2>1, StackShape, FrameShape
    <3> QED
      BY <1>2, <3>1 DEF Live
  <2>2. CASE i = n \/ i = n + 1
    BY <1>2, <1>4, <1>6, <2>2 DEF Live
  <2> QED
    BY <1>5, <2>1, <2>2
<1> QED
  BY <1>1, <1>3, <1>5, <1>12, <1>13, <1>14, <1>15

(* Below it, the slots freed since Proc_EndEachMarked began still lead to   *)
(* none but each other and procs that are being deleted.                    *)
LEMMA WalkGraves ==
  ASSUME CoreInv, TypeOK', SameTree, SameMarks, stack # << >>, NEW n, n = Len(stack),
         Top.fn = "delete", Live(Top.p), NEW a \in {"child", "check", "free"}, NEW f \in Frame,
         Walks(n, a, f), f.fn \in {"callback", "delete"},
         f.fn = "delete" => Live(f.p) /\ f.p \in Slot /\ f.at = "prev",
         NEW N, N = IF f.fn = "delete" THEN {Nil, f.p} ELSE {Nil},
         Top.at = "prev" => procs[Top.p].prev \in N,
         a # "child" /\ Top.at \notin {"check", "free"} => procs[Top.p].child \in N,
         f.fn = "delete" => procs[f.p].next \in {Nil, Top.p}
  PROVE  GravesOK'
<1> USE DEF CoreInv
<1>1. /\ n \in Nat \ {0} /\ DOMAIN stack = 1 .. n /\ n \in DOMAIN stack /\ Top = stack[n]
      /\ \A i \in 1 .. n - 1 : i \in DOMAIN stack /\ stack'[i] = stack[i] /\ i # n /\ i < n
      /\ \A i \in DOMAIN stack : i \in 1 .. n - 1 \/ i = n
  <2>1. Keeps(n)
    BY DEF Walks
  <2>2. /\ n \in Nat \ {0} /\ DOMAIN stack = 1 .. n
        /\ \A i \in 1 .. n - 1 : i \in DOMAIN stack /\ stack'[i] = stack[i] /\ i # n /\ i < n
        /\ \A i \in DOMAIN stack : i \in 1 .. n - 1 \/ i = n
    BY <2>1, BelowKept
  <2> QED
    BY <2>2, StackTop
<1>2. /\ DOMAIN stack' = 1 .. n + 1
      /\ stack'[n] = [fn |-> "delete", at |-> a, p |-> Top.p]
      /\ stack'[n + 1] = f
      /\ \A i \in DOMAIN stack' : i \in 1 .. n - 1 \/ i = n \/ i = n + 1
      /\ \A i \in 1 .. n - 1 : i \in DOMAIN stack' /\ n + 1 > i
      /\ n \in DOMAIN stack' /\ n + 1 \in DOMAIN stack'
  <2>1. /\ DOMAIN stack' = 1 .. n + 1
        /\ stack'[n] = [fn |-> "delete", at |-> a, p |-> Top.p]
        /\ stack'[n + 1] = f
    BY DEF Walks
  <2>2. /\ \A i \in 1 .. n + 1 : i \in 1 .. n - 1 \/ i = n \/ i = n + 1
        /\ \A i \in 1 .. n - 1 : i \in 1 .. n + 1 /\ n + 1 > i
        /\ n \in 1 .. n + 1 /\ n + 1 \in 1 .. n + 1
    BY <1>1
  <2> QED
    BY <2>1, <2>2
<1>3. \A i \in DOMAIN stack' : stack'[i].fn = "delete" => procs'[stack'[i].p].script # Nil
  BY WalkSets
<1>4. \A x \in Slot : /\ procs'[x].script = procs[x].script
                      /\ procs'[x].mark = procs[x].mark /\ procs'[x].ended = procs[x].ended
                      /\ procs'[x].child = procs[x].child /\ procs'[x].next = procs[x].next
                      /\ procs'[x].prev = procs[x].prev
  BY DEF SameTree, SameMarks
<1>5. /\ \A i \in DOMAIN stack : stack[i].fn = "delete" => Live(stack[i].p) /\ stack[i].p \in Slot
      /\ Top.p \in Slot
  BY LiveTop, StackShape, FrameShape
<1>6. ASSUME NEW i \in DOMAIN stack', stack'[i].fn = "endMarked"
      PROVE  (\E K \in SUBSET Slot : Grave(K, i))'
  <2>1. i \in 1 .. n - 1 /\ stack[i].fn = "endMarked" /\ stack'[i] = stack[i] /\ i \in DOMAIN stack /\ n > i
    BY <1>1, <1>2, <1>6
  <2>2. PICK K \in SUBSET Slot : Grave(K, i)
    BY <2>1 DEF GravesOK
  <2> DEFINE Dead  == K \cup {Nil} \cup Above(i)
             Dead2 == K \cup {Nil} \cup Above(i)'
  <2>3. /\ Above(i) \subseteq Above(i)' /\ Top.p \in Above(i)'
        /\ N \subseteq Above(i)' \cup {Nil}
    <3>1. \A j \in DOMAIN stack : j > i /\ stack[j].fn = "delete" =>
            j \in DOMAIN stack' /\ stack'[j].fn = "delete" /\ stack'[j].p = stack[j].p
      BY <1>1, <1>2
    <3>2. Above(i)' = {stack'[j].p : j \in {k \in DOMAIN stack' : k > i /\ stack'[k].fn = "delete"}}
      BY DEF Above
    <3>3. Above(i) \subseteq Above(i)'
      BY <3>1, <3>2 DEF Above
    <3>4. Top.p \in Above(i)'
      <4>1. n \in DOMAIN stack' /\ stack'[n].fn = "delete" /\ stack'[n].p = Top.p /\ n > i
        BY <1>2, <2>1
      <4> QED
        BY <3>2, <4>1
    <3>5. N \subseteq Above(i)' \cup {Nil}
      BY <1>2, <2>1, <3>2
    <3> QED
      BY <3>3, <3>4, <3>5
  <2>4. Dead \subseteq Dead2 /\ N \subseteq Dead2 /\ Top.p \in Dead2 /\ Nil \in Dead2
    BY <2>3
  <2>5. \A k \in K : k \in Slot /\ ~Live(k) /\ procs[k].ended
                     /\ {procs[k].child, procs[k].prev, procs[k].next} \subseteq Dead
    BY <2>2 DEF Grave
  <2>6. \A j \in DOMAIN stack : j > i /\ stack[j].fn = "delete" =>
          /\ procs[stack[j].p].next \in Dead
          /\ stack[j].at # "prev" => procs[stack[j].p].prev \in Dead
          /\ stack[j].at \in {"check", "free"} => procs[stack[j].p].child \in Dead
    BY <1>5, <2>2 DEF Grave
  <2>7. \A x \in Slot : procs'[x].script = Nil /\ procs'[x].mark = stack'[i].at => x \in K
    BY <1>4, <2>1, <2>2 DEF Grave, Live
  <2>8. \A j \in DOMAIN stack' : stack'[j].fn = "endMarked" => j = i
    <3>1. \A j \in DOMAIN stack : stack[j].fn = "endMarked" => j = i
      BY <2>2 DEF Grave
    <3>2. \A j \in DOMAIN stack' : stack'[j].fn = "endMarked" => j \in 1 .. n - 1
      BY <1>2
    <3> QED
      BY <1>1, <3>1, <3>2
  <2> HIDE DEF Dead, Dead2
  <2>9. \A k \in K : procs'[k].script = Nil /\ procs'[k].ended
                     /\ {procs'[k].child, procs'[k].prev, procs'[k].next} \subseteq Dead2
    BY <1>4, <2>4, <2>5 DEF Live
  <2>10. ASSUME NEW j \in DOMAIN stack', j > i, stack'[j].fn = "delete"
         PROVE  /\ procs'[stack'[j].p].next \in Dead2
                /\ stack'[j].at # "prev" => procs'[stack'[j].p].prev \in Dead2
                /\ stack'[j].at \in {"check", "free"} => procs'[stack'[j].p].child \in Dead2
    <3>1. CASE j \in 1 .. n - 1
      <4>1. j \in DOMAIN stack /\ stack'[j] = stack[j] /\ stack[j].p \in Slot
        BY <1>1, <1>5, <2>10, <3>1
      <4> QED
        BY <1>4, <2>4, <2>6, <2>10, <4>1
    <3>2. CASE j = n
      <4>1. /\ procs[Top.p].next \in Dead
            /\ Top.at # "prev" => procs[Top.p].prev \in Dead
            /\ Top.at \in {"check", "free"} => procs[Top.p].child \in Dead
        BY <1>1, <2>1, <2>6
      <4>2. procs[Top.p].prev \in Dead2 /\ (a # "child" => procs[Top.p].child \in Dead2)
        BY <2>4, <4>1
      <4>3. stack'[j].p = Top.p /\ stack'[j].at = a
        BY <1>2, <3>2
      <4> QED
        BY <1>4, <1>5, <2>4, <4>1, <4>2, <4>3
    <3>3. CASE j = n + 1
      <4>1. stack'[j].at = "prev" /\ stack'[j].p = f.p /\ f.p \in Slot
            /\ procs[f.p].next \in {Nil, Top.p}
        BY <1>2, <2>10, <3>3
      <4> QED
        BY <1>4, <2>4, <4>1
    <3> QED
      BY <1>2, <3>1, <3>2, <3>3
  <2>11. Dead2 = K \cup {Nil} \cup Above(i)'
    BY DEF Dead2
  <2>12. Grave(K, i)'
    BY <1>3, <2>7, <2>8, <2>9, <2>10, <2>11 DEF Grave, Live
  <2> QED
    BY <2>12
<1> QED
  BY <1>3, <1>6 DEF GravesOK, Live

(* The lists that stay open are whole after a step of                       *)
(* DeleteProcessRecursive.                                                  *)
LEMMA WalkTree ==
  ASSUME CoreInv, TypeOK', SameTree, Open' \subseteq Open,
         \A y \in Open : y \in Open' => Kids(y)' = Kids(y)
  PROVE  TreeOK' /\ FreeListExact' /\ (\A y \in Open : ListOK(y))'
<1> USE DEF CoreInv
<1>1. /\ \A p \in Slot : Live(p)' <=> Live(p)
      /\ Par' = Par
      /\ \A par \in Root \cup Slot : Newest(par)' = Newest(par)
  BY SameTreeFacts
<1>2. \A x \in Slot : /\ procs'[x].script = procs[x].script /\ procs'[x].parent = procs[x].parent
                      /\ procs'[x].ended = procs[x].ended
                      /\ procs'[x].next = procs[x].next /\ procs'[x].prev = procs[x].prev
  BY DEF SameTree
<1>3. TreeOK'
  BY <1>1, <1>2 DEF TreeOK
<1>4. FreeListExact'
  BY <1>1 DEF FreeListExact, SameTree
<1>5. ASSUME NEW y \in Open' PROVE ListOK(y)'
  <2>1. ListOK(y) /\ y \in Root \cup Slot /\ y \in Open
    BY <1>5, DoomedLive
  <2>2. \A z \in Kids(y) : z \in Slot
    BY DEF Kids
  <2>3. /\ \A z \in Kids(y) : procs'[z].prev = procs[z].prev /\ procs'[z].next = procs[z].next
        /\ Kids(y)' = Kids(y) /\ Newest(y)' = Newest(y)
    BY <1>1, <1>2, <1>5, <2>1, <2>2
  <2> QED
    BY <2>1, <2>3, ListStays
<1> QED
  BY <1>3, <1>4, <1>5

(* A proc that has come to its children has no older siblings left to end. *)
LEMMA RestGone ==
  ASSUME CoreInv, stack # << >>, Top.fn = "delete", Live(Top.p),
         Top.at = "prev" => procs[Top.p].prev = Nil
  PROVE  \A c \in Closing : Kids(c) = {}
<1> USE DEF CoreInv
<1> SUFFICES ASSUME NEW c \in Closing, NEW z \in Kids(c) PROVE FALSE
  OBVIOUS
<1> DEFINE p == Top.p
<1>1. p \in Doomed /\ p \in Slot
  BY LiveTop
<1>2. z \in Slot /\ z \notin Doomed
  BY DEF Kids
<1>3. Top.at = "prev" /\ z \in Reach(Back, {p})
  BY <1>2 DEF RestOK, Doing
<1>4. Back[p] = Nil
  BY <1>1, <1>3 DEF Back
<1>5. z # p
  BY <1>1, <1>2
<1> HIDE DEF p
<1>6. z \in Reach(Back, {Nil})
  BY <1>3, <1>4, <1>5, ReachTail
<1>7. Reach(Back, {Nil}) = {}
  BY ReachLeast, Slots
<1> QED
  BY <1>6, <1>7

(* The older sibling is next. *)
LEMMA WalkOlder ==
  ASSUME CoreInv, TypeOK', SameTree, SameMarks, stack # << >>, NEW n, n = Len(stack),
         Top.fn = "delete", Live(Top.p), Top.at = "prev",
         NEW x \in Slot, procs[Top.p].prev = x, WalksTo(n, "child", x)
  PROVE  CoreInv'
<1> USE DEF CoreInv
<1> DEFINE p == Top.p
           c == procs[p].parent
           f == [fn |-> "delete", at |-> "prev", p |-> x]
<1>1. /\ p \in Doomed /\ p \in Slot /\ p \notin Reach(Par, Under(n))
      /\ Closing = Closed(n)
  BY LiveTop
<1>2. c \in Closing /\ x \in Kids(c) /\ procs[x].next = p
  BY Slots DEF HeadOK, Doing
<1>3. /\ Live(x) /\ x \notin Doomed /\ procs[x].parent = c
      /\ x \notin Reach(Par, Doomed)
      /\ procs[x].prev \in Kids(c) \cup {Nil}
      /\ procs[x].prev # Nil => procs[procs[x].prev].next = x
  BY <1>2 DEF Kids, RestOK
<1>4. /\ \A z \in Slot : z \in Kids(c) =>
           /\ z \in Reach(Back, {p}) /\ z \notin Reach(Par, Doomed)
           /\ procs[z].prev \in Kids(c) \cup {Nil}
           /\ procs[z].prev # Nil => procs[procs[z].prev].next = z
      /\ \A d \in Closing : Kids(d) # {} => d = c
  BY <1>2 DEF RestOK, Kids
<1> HIDE DEF p, c, f
<1>5. Walks(n, "child", f) /\ f \in Frame /\ f.fn = "delete" /\ f.at = "prev" /\ f.p = x
  BY NewFrames DEF WalksTo, f
<1>6. /\ Doomed' = Doomed \cup {x} /\ Closing' = Closing
      /\ Under(n)' = Under(n) /\ Under(n + 1)' = Doomed
      /\ \A i \in 1 .. n - 1 : FrameOK(i)'
      /\ \A i \in DOMAIN stack' : i \in 1 .. n - 1 \/ i = n \/ i = n + 1
  <2>1. /\ Doomed' = Doomed \cup IF f.fn = "delete" THEN {f.p} ELSE {}
        /\ Closing' = Closed(n) \cup IF "child" \in {"check", "free"} THEN {Top.p} ELSE {}
        /\ Under(n)' = Under(n) /\ Under(n + 1)' = Doomed
        /\ \A i \in 1 .. n - 1 : FrameOK(i)'
        /\ \A i \in DOMAIN stack' : i \in 1 .. n - 1 \/ i = n \/ i = n + 1
    BY <1>3, <1>5, WalkSets
  <2> QED
    BY <1>1, <1>5, <2>1
<1>7. /\ \A z \in Slot : Live(z)' <=> Live(z)
      /\ Par' = Par /\ Back' = Back
  BY SameTreeFacts
<1>8. \A z \in Slot : /\ procs'[z].parent = procs[z].parent
                      /\ procs'[z].next = procs[z].next /\ procs'[z].prev = procs[z].prev
  BY DEF SameTree
<1>9. \A y : Kids(y)' = Kids(y) \ {x}
  BY <1>6, <1>7, <1>8 DEF Kids
<1>10. Open' = Open /\ c \notin Open
  BY <1>2, <1>6, <1>7, DoomedLive, Slots DEF Open
<1>11. TreeOK' /\ FreeListExact' /\ (\A y \in Open : ListOK(y))'
  <2>1. \A y \in Open : Kids(y)' = Kids(y)
    BY <1>3, <1>9, <1>10 DEF Kids
  <2> QED
    BY <1>10, <2>1, WalkTree
<1>12. Top' = f /\ Doing("delete", "prev")'
  <2>1. Top' = f /\ DOMAIN stack' = 1 .. n + 1 /\ n \in Nat
    BY <1>5, StackTop DEF Walks
  <2>2. stack' # << >>
    BY <2>1
  <2> QED
    BY <1>5, <2>1, <2>2 DEF Doing
<1>13. RestOK'
  <2> SUFFICES ASSUME NEW d \in Closing', NEW z \in Slot, z \in Kids(d)'
               PROVE  /\ Doing("delete", "prev")' /\ procs'[Top'.p].parent = d
                      /\ z \in Reach(Back', {Top'.p})
                      /\ z \notin Reach(Par', Doomed')
                      /\ procs'[z].prev \in Kids(d)' \cup {Nil}
                      /\ procs'[z].prev # Nil => procs'[procs'[z].prev].next = z
    BY DEF RestOK
  <2>1. z \in Kids(d) /\ z # x /\ d = c
    BY <1>4, <1>6, <1>9
  <2>2. /\ z \in Reach(Back, {p}) /\ z \notin Reach(Par, Doomed)
        /\ procs[z].prev \in Kids(c) \cup {Nil}
        /\ procs[z].prev # Nil => procs[procs[z].prev].next = z
        /\ z # p
    BY <1>1, <1>4, <2>1 DEF Kids
  <2>3. z \in Reach(Back, {x})
    <3>1. Back[p] = x
      BY <1>1 DEF Back, p
    <3> QED
      BY <2>2, <3>1, ReachTail
  <2>4. z \notin Reach(Par, Doomed \cup {x})
    <3>1. Reach(Par, {x}) = {x} \cup Reach(Par, {c})
      <4>1. Par[x] = c
        BY <1>3 DEF Par
      <4> QED
        BY <4>1, ReachHead
    <3>2. Reach(Par, {c}) \subseteq Reach(Par, Doomed)
      BY <1>2, DoomedLive, ReachTrans
    <3>3. Reach(Par, Doomed \cup {x}) = Reach(Par, Doomed) \cup Reach(Par, {x})
      BY ReachUnion
    <3> QED
      BY <2>1, <2>2, <3>1, <3>2, <3>3
  <2>5. procs[z].prev # x
    BY <1>2, <2>2, Slots
  <2>6. procs[z].prev # Nil => procs[z].prev \in Slot
    BY <2>2 DEF Kids
  <2> QED
    BY <1>3, <1>5, <1>6, <1>7, <1>8, <1>9, <1>12, <2>1, <2>2, <2>3, <2>4, <2>5, <2>6
<1>14. HeadOK'
  <2>1. procs[x].prev # Nil => procs[x].prev # x /\ procs[x].prev \in Slot
    BY <1>1, <1>2, <1>3 DEF Kids
  <2>2. /\ procs'[x].parent = c /\ procs'[x].prev = procs[x].prev
        /\ Top'.p = x /\ c \in Closing'
    BY <1>2, <1>3, <1>5, <1>6, <1>8, <1>12
  <2>3. ASSUME procs[x].prev # Nil
        PROVE  /\ procs[x].prev \in Slot /\ procs'[procs[x].prev].script # Nil
               /\ procs'[procs[x].prev].parent = c /\ procs[x].prev \notin Doomed'
               /\ procs'[procs[x].prev].next = x
    BY <1>3, <1>6, <1>7, <1>8, <2>1, <2>3 DEF Kids, Live
  <2> QED
    BY <2>2, <2>3 DEF HeadOK, Kids, Live
<1>15. FramesOK'
  <2>1. ASSUME NEW i, i = n PROVE FrameOK(i)'
    <3>1. stack'[i] = [fn |-> "delete", at |-> "child", p |-> p]
      BY <1>5, <2>1 DEF Walks, p
    <3> QED
      BY <1>1, <1>6, <1>7, <2>1, <3>1 DEF FrameOK
  <2>2. ASSUME NEW i, i = n + 1 PROVE FrameOK(i)'
    <3>1. stack'[i] = f /\ ~(i < Len(stack'))
      <4>1. stack'[n + 1] = f /\ Len(stack') = n + 1 /\ n \in Nat
        BY <1>5, StackTop DEF Walks
      <4> QED
        BY <2>2, <4>1
    <3> QED
      BY <1>3, <1>5, <1>6, <1>7, <2>2, <3>1 DEF FrameOK
  <2> QED
    BY <1>6, <2>1, <2>2 DEF FramesOK
<1>16. GravesOK'
  <2> DEFINE N == IF f.fn = "delete" THEN {Nil, f.p} ELSE {Nil}
             a == "child"
  <2>1. procs[Top.p].prev \in N /\ procs[f.p].next \in {Nil, Top.p}
    BY <1>2, <1>5 DEF p
  <2>2. /\ f.fn \in {"callback", "delete"} /\ Live(f.p) /\ f.p \in Slot /\ f.at = "prev"
        /\ Walks(n, a, f) /\ a \in {"child", "check", "free"} /\ ~(a # "child")
    BY <1>3, <1>5
  <2>3. N = IF f.fn = "delete" THEN {Nil, f.p} ELSE {Nil}
    OBVIOUS
  <2> HIDE DEF N, a
  <2> QED
    BY <1>5, <2>1, <2>2, <2>3, WalkGraves
<1> QED
  BY <1>11, <1>13, <1>14, <1>15, <1>16

(* The newest child is next. *)
LEMMA WalkChild ==
  ASSUME CoreInv, TypeOK', SameTree, SameMarks, stack # << >>, NEW n, n = Len(stack),
         Top.fn = "delete", Live(Top.p), Top.at \in {"prev", "child"},
         Top.at = "prev" => procs[Top.p].prev = Nil,
         NEW x \in Slot, procs[Top.p].child = x, WalksTo(n, "check", x)
  PROVE  CoreInv'
<1> USE DEF CoreInv
<1> DEFINE p == Top.p
           f == [fn |-> "delete", at |-> "prev", p |-> x]
<1>1. /\ p \in Doomed /\ p \in Slot /\ p \notin Reach(Par, Under(n)) /\ Live(p)
      /\ Closing = Closed(n) /\ p \notin Closing /\ Doomed = Under(n) \cup {p}
      /\ Under(n) \subseteq Slot
  BY LiveTop
<1>2. \A c \in Closing : Kids(c) = {}
  BY RestGone
<1>3. p \in Open /\ ListOK(p) /\ Newest(p) = x
  BY <1>1, Slots DEF Open, Newest
<1>4. x \in Kids(p) /\ procs[x].next = Nil
  BY <1>3, Slots DEF ListOK
<1>5. p \notin Reach(Par, {Par[p]})
  BY <1>1 DEF TreeOK, Par
<1> HIDE DEF p, f
<1>6. /\ Live(x) /\ x \notin Doomed /\ procs[x].parent = p /\ x # p
  BY <1>1, <1>4 DEF Kids
<1>7. ASSUME NEW z \in Kids(p) PROVE z \notin Reach(Par, Doomed)
  <2>1. z \in Slot /\ Par[z] = p /\ z # p
    BY <1>1 DEF Kids, Par
  <2>2. z \notin Reach(Par, Under(n))
    BY <1>1, <2>1, ReachStep
  <2>3. z \notin Reach(Par, {p})
    <3> SUFFICES ASSUME z \in Reach(Par, {p}) PROVE FALSE
      OBVIOUS
    <3>1. z \in Reach(Par, {Par[p]})
      BY <2>1, ReachTail
    <3> QED
      BY <1>1, <1>5, <2>1, <3>1, ReachStep
  <2>4. Reach(Par, Doomed) = Reach(Par, Under(n)) \cup Reach(Par, {p})
    BY <1>1, ReachUnion
  <2> QED
    BY <2>2, <2>3, <2>4
<1>8. Walks(n, "check", f) /\ f \in Frame /\ f.fn = "delete" /\ f.at = "prev" /\ f.p = x
  BY NewFrames DEF WalksTo, f
<1>9. /\ Doomed' = Doomed \cup {x} /\ Closing' = Closing \cup {p}
      /\ Under(n)' = Under(n) /\ Under(n + 1)' = Doomed
      /\ \A i \in 1 .. n - 1 : FrameOK(i)'
      /\ \A i \in DOMAIN stack' : i \in 1 .. n - 1 \/ i = n \/ i = n + 1
  <2>1. /\ Doomed' = Doomed \cup IF f.fn = "delete" THEN {f.p} ELSE {}
        /\ Closing' = Closed(n) \cup IF "check" \in {"check", "free"} THEN {Top.p} ELSE {}
        /\ Under(n)' = Under(n) /\ Under(n + 1)' = Doomed
        /\ \A i \in 1 .. n - 1 : FrameOK(i)'
        /\ \A i \in DOMAIN stack' : i \in 1 .. n - 1 \/ i = n \/ i = n + 1
    BY <1>6, <1>8, WalkSets
  <2> QED
    BY <1>1, <1>8, <2>1 DEF p
<1>10. /\ \A z \in Slot : Live(z)' <=> Live(z)
       /\ Par' = Par /\ Back' = Back
  BY SameTreeFacts
<1>11. \A z \in Slot : /\ procs'[z].parent = procs[z].parent
                       /\ procs'[z].next = procs[z].next /\ procs'[z].prev = procs[z].prev
  BY DEF SameTree
<1>12. \A y : Kids(y)' = Kids(y) \ {x}
  BY <1>9, <1>10, <1>11 DEF Kids
<1>13. Open' \subseteq Open /\ p \notin Open'
  <2>1. Root \cap Slot = {}
    BY Slots
  <2> QED
    BY <1>1, <1>9, <1>10, <2>1 DEF Open
<1>14. TreeOK' /\ FreeListExact' /\ (\A y \in Open : ListOK(y))'
  <2>1. \A y \in Open : y \in Open' => Kids(y)' = Kids(y)
    BY <1>6, <1>12, <1>13 DEF Kids
  <2> QED
    BY <1>13, <2>1, WalkTree
<1>15. Top' = f /\ Doing("delete", "prev")'
  <2>1. Top' = f /\ DOMAIN stack' = 1 .. n + 1 /\ n \in Nat
    BY <1>8, StackTop DEF Walks
  <2>2. stack' # << >>
    BY <2>1
  <2> QED
    BY <1>8, <2>1, <2>2 DEF Doing
<1>16. RestOK'
  <2> SUFFICES ASSUME NEW d \in Closing', NEW z \in Slot, z \in Kids(d)'
               PROVE  /\ Doing("delete", "prev")' /\ procs'[Top'.p].parent = d
                      /\ z \in Reach(Back', {Top'.p})
                      /\ z \notin Reach(Par', Doomed')
                      /\ procs'[z].prev \in Kids(d)' \cup {Nil}
                      /\ procs'[z].prev # Nil => procs'[procs'[z].prev].next = z
    BY DEF RestOK
  <2>1. z \in Kids(p) /\ z # x /\ d = p
    BY <1>2, <1>9, <1>12
  <2>2. /\ z \in Reach(Back, {x})
        /\ procs[z].prev \in Kids(p) \cup {Nil}
        /\ procs[z].prev # Nil => procs[procs[z].prev].next = z
    BY <1>3, <2>1 DEF ListOK
  <2>3. z \notin Reach(Par, Doomed) /\ z # p /\ z # Nil
    BY <1>1, <1>7, <2>1, Slots DEF Kids
  <2>4. z \notin Reach(Par, Doomed \cup {x})
    <3>1. Reach(Par, {x}) = {x} \cup Reach(Par, {p})
      <4>1. Par[x] = p
        BY <1>6 DEF Par
      <4> QED
        BY <4>1, ReachHead
    <3>2. Reach(Par, {p}) \subseteq Reach(Par, Doomed)
      BY <1>1, DoomedLive, ReachTrans
    <3>3. Reach(Par, Doomed \cup {x}) = Reach(Par, Doomed) \cup Reach(Par, {x})
      BY ReachUnion
    <3> QED
      BY <2>1, <2>3, <3>1, <3>2, <3>3
  <2>5. procs[z].prev # x
    BY <1>4, <2>2, <2>3, Slots
  <2>6. procs[z].prev # Nil => procs[z].prev \in Slot
    BY <2>2 DEF Kids
  <2> QED
    BY <1>6, <1>8, <1>9, <1>10, <1>11, <1>12, <1>15, <2>1, <2>2, <2>4, <2>5, <2>6
<1>17. HeadOK'
  <2>1. procs[x].prev # Nil => /\ procs[x].prev # x /\ procs[x].prev \in Slot
                               /\ procs[x].prev \in Kids(p)
                               /\ procs[procs[x].prev].next = x
    BY <1>3, <1>4, ListAcyclic DEF ListOK, Kids
  <2>2. /\ procs'[x].parent = p /\ procs'[x].prev = procs[x].prev
        /\ Top'.p = x /\ p \in Closing'
    BY <1>6, <1>8, <1>9, <1>11, <1>15
  <2>3. ASSUME procs[x].prev # Nil
        PROVE  /\ procs[x].prev \in Slot /\ procs'[procs[x].prev].script # Nil
               /\ procs'[procs[x].prev].parent = p /\ procs[x].prev \notin Doomed'
               /\ procs'[procs[x].prev].next = x
    BY <1>9, <1>10, <1>11, <2>1, <2>3 DEF Kids, Live
  <2> QED
    BY <2>2, <2>3 DEF HeadOK, Kids, Live
<1>18. FramesOK'
  <2>1. ASSUME NEW i, i = n PROVE FrameOK(i)'
    <3>1. stack'[i] = [fn |-> "delete", at |-> "check", p |-> p]
      BY <1>8, <2>1 DEF Walks, p
    <3> QED
      BY <1>1, <1>9, <1>10, <2>1, <3>1 DEF FrameOK
  <2>2. ASSUME NEW i, i = n + 1 PROVE FrameOK(i)'
    <3>1. stack'[i] = f /\ ~(i < Len(stack'))
      <4>1. stack'[n + 1] = f /\ Len(stack') = n + 1 /\ n \in Nat
        BY <1>8, StackTop DEF Walks
      <4> QED
        BY <2>2, <4>1
    <3>2. x \notin Reach(Par, Doomed)
      BY <1>4, <1>7
    <3> QED
      BY <1>8, <1>9, <1>10, <2>2, <3>1, <3>2 DEF FrameOK
  <2> QED
    BY <1>9, <2>1, <2>2 DEF FramesOK
<1>19. GravesOK'
  <2> DEFINE N == IF f.fn = "delete" THEN {Nil, f.p} ELSE {Nil}
             a == "check"
  <2>1. /\ Top.at = "prev" => procs[Top.p].prev \in N
        /\ procs[Top.p].child \in N /\ procs[f.p].next \in {Nil, Top.p}
    BY <1>4, <1>8 DEF p
  <2>2. /\ f.fn \in {"callback", "delete"} /\ Live(f.p) /\ f.p \in Slot /\ f.at = "prev"
        /\ Walks(n, a, f) /\ a \in {"child", "check", "free"}
    BY <1>6, <1>8
  <2>3. N = IF f.fn = "delete" THEN {Nil, f.p} ELSE {Nil}
    OBVIOUS
  <2> HIDE DEF N, a
  <2> QED
    BY <1>8, <2>1, <2>2, <2>3, WalkGraves
<1> QED
  BY <1>14, <1>16, <1>17, <1>18, <1>19

(* Nothing is left below the proc: its end callback is next. *)
LEMMA WalkLast ==
  ASSUME CoreInv, TypeOK', SameTree, SameMarks, stack # << >>, NEW n, n = Len(stack),
         Top.fn = "delete", Live(Top.p), Top.at \in {"prev", "child", "check"},
         Top.at = "prev" => procs[Top.p].prev = Nil,
         Top.at # "check" => procs[Top.p].child = Nil,
         Walks(n, "free", [fn |-> "callback", at |-> "body", p |-> Top.p])
  PROVE  CoreInv'
<1> USE DEF CoreInv
<1> DEFINE p == Top.p
           f == [fn |-> "callback", at |-> "body", p |-> Top.p]
<1>1. /\ p \in Doomed /\ p \in Slot /\ p \notin Reach(Par, Under(n)) /\ Live(p)
      /\ Closing = Closed(n) \cup IF Top.at \in {"check", "free"} THEN {p} ELSE {}
      /\ Top.at # "check" => p \notin Closing
  BY LiveTop
<1>2. \A c \in Closing : Kids(c) = {}
  BY RestGone
<1>3. Kids(p) = {}
  <2>1. CASE Top.at = "check"
    BY <1>1, <1>2, <2>1
  <2>2. CASE Top.at # "check"
    <3>1. ListOK(p) /\ Newest(p) = Nil
      BY <1>1, <2>2, Slots DEF Open, Newest
    <3> QED
      BY <3>1 DEF ListOK
  <2> QED
    BY <2>1, <2>2
<1> HIDE DEF p, f
<1>4. Walks(n, "free", f) /\ f \in Frame /\ f.fn = "callback"
  BY LiveTop, NewFrames DEF f
<1>5. /\ Doomed' = Doomed /\ Closing' = Closing \cup {p}
      /\ Under(n)' = Under(n)
      /\ \A i \in 1 .. n - 1 : FrameOK(i)'
      /\ \A i \in DOMAIN stack' : i \in 1 .. n - 1 \/ i = n \/ i = n + 1
  <2>1. /\ Doomed' = Doomed \cup IF f.fn = "delete" THEN {f.p} ELSE {}
        /\ Closing' = Closed(n) \cup IF "free" \in {"check", "free"} THEN {Top.p} ELSE {}
        /\ Under(n)' = Under(n)
        /\ \A i \in 1 .. n - 1 : FrameOK(i)'
        /\ \A i \in DOMAIN stack' : i \in 1 .. n - 1 \/ i = n \/ i = n + 1
    BY <1>4, WalkSets
  <2> QED
    BY <1>1, <1>4, <2>1 DEF p
<1>6. /\ \A z \in Slot : Live(z)' <=> Live(z)
      /\ Par' = Par
  BY SameTreeFacts
<1>7. \A y : Kids(y)' = Kids(y)
  BY <1>5, <1>6 DEF Kids, SameTree
<1>8. Open' \subseteq Open
  BY <1>5, <1>6 DEF Open
<1>9. TreeOK' /\ FreeListExact' /\ (\A y \in Open : ListOK(y))'
  BY <1>7, <1>8, WalkTree
<1>10. RestOK'
  BY <1>2, <1>3, <1>5, <1>7 DEF RestOK
<1>11. HeadOK'
  <2>1. Top'.fn = "callback"
    BY <1>4 DEF Walks
  <2> QED
    BY <2>1 DEF HeadOK, Doing
<1>12. FramesOK'
  <2>1. ASSUME NEW i, i = n PROVE FrameOK(i)'
    <3>1. stack'[i] = [fn |-> "delete", at |-> "free", p |-> p]
      BY <1>4, <2>1 DEF Walks, p
    <3> QED
      BY <1>1, <1>5, <1>6, <2>1, <3>1 DEF FrameOK
  <2>2. ASSUME NEW i, i = n + 1 PROVE FrameOK(i)'
    <3>1. stack'[i] = f
      BY <1>4, <2>2 DEF Walks
    <3> QED
      BY <1>4, <3>1 DEF FrameOK
  <2> QED
    BY <1>5, <2>1, <2>2 DEF FramesOK
<1>13. GravesOK'
  <2> DEFINE N == {Nil}
             a == "free"
  <2>1. /\ Top.at = "prev" => procs[Top.p].prev \in N
        /\ Top.at \notin {"check", "free"} => procs[Top.p].child \in N
    OBVIOUS
  <2>2. /\ f.fn \in {"callback", "delete"} /\ f.fn # "delete"
        /\ Walks(n, a, f) /\ a \in {"child", "check", "free"}
    BY <1>4
  <2>3. N = IF f.fn = "delete" THEN {Nil, f.p} ELSE {Nil}
    BY <2>2
  <2> HIDE DEF N, a
  <2> QED
    BY <1>4, <2>1, <2>2, <2>3, WalkGraves
<1> QED
  BY <1>9, <1>10, <1>11, <1>12, <1>13

(* Every step of DeleteProcessRecursive but the last. *)
LEMMA WalkCore ==
  ASSUME CoreInv, TypeOK', DeleteWalk
  PROVE  CoreInv'
<1> DEFINE n == Len(stack)
<1>1. n = Len(stack)
  OBVIOUS
<1> HIDE DEF n
<1>2. TypeOK
  BY DEF CoreInv
<1>3. /\ stack # << >> /\ Top.fn = "delete" /\ Top.p \in Slot
      /\ Top.at \in {"prev", "child", "check"}
      /\ SameTree /\ SameMarks
      /\ \/ \E x \in Slot : /\ Top.at = "prev" /\ procs[Top.p].prev = x
                            /\ WalksTo(n, "child", x)
         \/ \E x \in Slot : /\ Top.at # "check" /\ procs[Top.p].child = x
                            /\ Top.at = "prev" => procs[Top.p].prev = Nil
                            /\ WalksTo(n, "check", x)
         \/ /\ Top.at = "prev" => procs[Top.p].prev = Nil
            /\ Top.at # "check" => procs[Top.p].child = Nil
            /\ IF procs[Top.p].ended THEN stack' = Callers
               ELSE Walks(n, "free", [fn |-> "callback", at |-> "body", p |-> Top.p])
  BY <1>1, <1>2, WalkWays
<1>4. CASE ~Live(Top.p)
  BY <1>1, <1>4, WalkGrave
<1>5. CASE Live(Top.p)
  <2>1. ~procs[Top.p].ended
    BY <1>3, <1>5 DEF CoreInv, TreeOK
  <2>2. CASE \E x \in Slot : /\ Top.at = "prev" /\ procs[Top.p].prev = x
                             /\ WalksTo(n, "child", x)
    BY <1>1, <1>3, <1>5, <2>2, WalkOlder
  <2>3. CASE \E x \in Slot : /\ Top.at # "check" /\ procs[Top.p].child = x
                             /\ Top.at = "prev" => procs[Top.p].prev = Nil
                             /\ WalksTo(n, "check", x)
    BY <1>1, <1>3, <1>5, <2>3, WalkChild
  <2>4. CASE /\ Top.at = "prev" => procs[Top.p].prev = Nil
             /\ Top.at # "check" => procs[Top.p].child = Nil
             /\ Walks(n, "free", [fn |-> "callback", at |-> "body", p |-> Top.p])
    BY <1>1, <1>3, <1>5, <2>4, WalkLast
  <2> QED
    BY <1>3, <2>1, <2>2, <2>3, <2>4
<1> QED
  BY <1>4, <1>5

(* FreeProcess of a proc that is not on the list adds it to the list. *)
LEMMA FreeListGrows ==
  ASSUME TypeOK, FreeListExact, NEW p \in Slot, Live(p), freeList' = <<p>> \o freeList,
         \A x \in Slot : Live(x)' <=> Live(x) /\ x # p
  PROVE  FreeListExact'
<1> DEFINE s == freeList
           t == <<p>> \o s
<1>1. s \in Seq(Slot) /\ Len(s) \in Nat /\ DOMAIN s = 1 .. Len(s)
  BY LenProperties DEF TypeOK
<1>2. /\ Len(t) = Len(s) + 1 /\ DOMAIN t = 1 .. Len(s) + 1 /\ t[1] = p
      /\ \A i \in DOMAIN s : i + 1 \in DOMAIN t /\ t[i + 1] = s[i]
      /\ \A i \in DOMAIN t : i # 1 => i - 1 \in DOMAIN s /\ t[i] = s[i - 1]
      /\ 1 \in DOMAIN t
  BY <1>1
<1>3. /\ \A i, j \in DOMAIN s : i # j => s[i] # s[j]
      /\ {s[i] : i \in DOMAIN s} = {x \in Slot : ~Live(x)}
  BY DEF FreeListExact
<1>4. freeList' = t
  OBVIOUS
<1> HIDE DEF s, t
<1>5. \A i \in DOMAIN s : s[i] # p
  BY <1>3
<1>6. ASSUME NEW i \in DOMAIN t, NEW j \in DOMAIN t, i # j PROVE t[i] # t[j]
  <2>1. CASE i = 1
    BY <1>2, <1>5, <1>6, <2>1
  <2>2. CASE j = 1
    BY <1>2, <1>5, <1>6, <2>2
  <2>3. CASE i # 1 /\ j # 1
    <3>1. i - 1 \in DOMAIN s /\ j - 1 \in DOMAIN s /\ i - 1 # j - 1
      BY <1>1, <1>2, <1>6, <2>3
    <3> QED
      BY <1>2, <1>3, <2>3, <3>1
  <2> QED
    BY <2>1, <2>2, <2>3
<1>7. {t[i] : i \in DOMAIN t} = {x \in Slot : ~Live(x)} \cup {p}
  <2>1. \A i \in DOMAIN t : t[i] = p \/ t[i] \in {s[k] : k \in DOMAIN s}
    BY <1>2
  <2>2. p \in {t[i] : i \in DOMAIN t}
    BY <1>2
  <2>3. \A k \in DOMAIN s : s[k] \in {t[i] : i \in DOMAIN t}
    BY <1>2
  <2> QED
    BY <1>3, <2>1, <2>2, <2>3
<1>8. {x \in Slot : ~Live(x)}' = {x \in Slot : ~Live(x)} \cup {p}
  OBVIOUS
<1> QED
  BY <1>4, <1>6, <1>7, <1>8 DEF FreeListExact

(* What FreeProcess and the rest of DeleteProcessRecursive write. *)
LEMMA FreeWrites ==
  ASSUME TypeOK, TypeOK', DeleteFree
  PROVE  /\ \A x \in Slot :
              /\ procs'[x].script = IF x = Top.p THEN Nil ELSE procs[x].script
              /\ procs'[x].ended = IF x = Top.p THEN TRUE ELSE procs[x].ended
              /\ procs'[x].parent = procs[x].parent /\ procs'[x].child = procs[x].child
              /\ procs'[x].next = procs[x].next /\ procs'[x].prev = procs[x].prev
              /\ procs'[x].mark = procs[x].mark /\ procs'[x].blocking = procs[x].blocking
              /\ procs'[x].lock = IF procs[Top.p].blocking /\ x = procs[Top.p].parent
                                  THEN (procs[x].lock + 255) % 256 ELSE procs[x].lock
         /\ freeList' = <<Top.p>> \o freeList /\ root' = root /\ stack' = Callers
         /\ stack # << >> /\ Top.fn = "delete" /\ Top.at = "free"
<1>1. /\ procs' = [q \in Slot |-> [procs[q] EXCEPT
            !.script = IF q = Top.p THEN Nil ELSE @,
            !.idle   = IF q = Top.p THEN FALSE ELSE @,
            !.ended  = IF q = Top.p THEN TRUE ELSE @,
            !.lock   = IF procs[Top.p].blocking /\ q = procs[Top.p].parent
                       THEN (@ + 255) % 256 ELSE @]]
      /\ freeList' = <<Top.p>> \o freeList /\ root' = root /\ stack' = Callers
      /\ stack # << >> /\ Top.fn = "delete" /\ Top.at = "free"
  BY DEF DeleteFree, Doing, Return
<1>2. ASSUME NEW x \in Slot
      PROVE  /\ procs'[x].script = IF x = Top.p THEN Nil ELSE procs[x].script
             /\ procs'[x].ended = IF x = Top.p THEN TRUE ELSE procs[x].ended
             /\ procs'[x].parent = procs[x].parent /\ procs'[x].child = procs[x].child
             /\ procs'[x].next = procs[x].next /\ procs'[x].prev = procs[x].prev
             /\ procs'[x].mark = procs[x].mark /\ procs'[x].blocking = procs[x].blocking
             /\ procs'[x].lock = IF procs[Top.p].blocking /\ x = procs[Top.p].parent
                                 THEN (procs[x].lock + 255) % 256 ELSE procs[x].lock
  <2> DEFINE d == procs[x]
             v == IF procs[Top.p].blocking /\ x = procs[Top.p].parent
                  THEN (d.lock + 255) % 256 ELSE d.lock
  <2>1. procs'[x] = [d EXCEPT
          !.script = IF x = Top.p THEN Nil ELSE d.script,
          !.idle   = IF x = Top.p THEN FALSE ELSE d.idle,
          !.ended  = IF x = Top.p THEN TRUE ELSE d.ended,
          !.lock   = v]
    BY <1>1
  <2>2. d \in Proc
    BY ProcFields
  <2> HIDE DEF d, v
  <2>3. /\ procs'[x].script = IF x = Top.p THEN Nil ELSE d.script
        /\ procs'[x].ended = IF x = Top.p THEN TRUE ELSE d.ended
        /\ procs'[x].parent = d.parent /\ procs'[x].child = d.child
        /\ procs'[x].next = d.next /\ procs'[x].prev = d.prev
        /\ procs'[x].mark = d.mark /\ procs'[x].blocking = d.blocking
        /\ procs'[x].lock = v
    BY <2>1, <2>2 DEF Proc
  <2> QED
    BY <2>3 DEF d, v
<1> QED
  BY <1>1, <1>2

(* The proc whose end callback has returned is freed. *)
LEMMA FreeCore ==
  ASSUME CoreInv, TypeOK', DeleteFree, NEW n, n = Len(stack)
  PROVE  CoreInv'
<1> USE DEF CoreInv
<1> DEFINE p == Top.p
<1>1. /\ \A x \in Slot :
           /\ procs'[x].script = IF x = p THEN Nil ELSE procs[x].script
           /\ procs'[x].ended = IF x = p THEN TRUE ELSE procs[x].ended
           /\ procs'[x].parent = procs[x].parent /\ procs'[x].child = procs[x].child
           /\ procs'[x].next = procs[x].next /\ procs'[x].prev = procs[x].prev
           /\ procs'[x].mark = procs[x].mark
      /\ freeList' = <<p>> \o freeList /\ root' = root /\ stack' = Callers
      /\ stack # << >> /\ Top.fn = "delete" /\ Top.at = "free"
  BY FreeWrites
<1>2. /\ n \in Nat \ {0} /\ DOMAIN stack = 1 .. n /\ Top = stack[n] /\ n \in DOMAIN stack
      /\ \A i \in 1 .. n - 1 : /\ i \in 1 .. n /\ i # n /\ i < n
                               /\ i \in DOMAIN stack /\ stack'[i] = stack[i]
      /\ \A i \in DOMAIN stack : i \in 1 .. n - 1 \/ i = n
      /\ Len(stack') = n - 1 /\ DOMAIN stack' = 1 .. n - 1
  <2>1. stack # << >> /\ stack' = Callers
    BY <1>1
  <2> QED
    BY <2>1, StackTop, BelowKept
<1>3. Live(p)
  BY <1>1, <1>2 DEF GravesOK
<1>4. /\ \A i \in DOMAIN stack : stack[i].fn = "delete" => Dies(i) /\ Live(stack[i].p)
      /\ Doomed = Under(n) \cup {p} /\ p \in Doomed /\ p \in Slot
      /\ p \notin Reach(Par, Under(n)) /\ p \notin Under(n)
      /\ Closing = Closed(n) \cup {p}
      /\ Closed(n) \subseteq Under(n) /\ Under(n) \subseteq Slot
  BY <1>1, <1>3, LiveTop
<1>5. \A c \in Closing : Kids(c) = {}
  BY <1>1, <1>3, RestGone
<1> HIDE DEF p
<1>6. \A x \in Slot : Live(x)' <=> Live(x) /\ x # p
  BY <1>1 DEF Live
<1>7. Par' = Par /\ Back' = Back /\ SameMarks
  BY <1>1 DEF Par, Back, SameMarks
<1>8. \A x \in Root \cup Slot : Newest(x)' = Newest(x)
  BY <1>1 DEF Newest
<1>9. \A i \in 1 .. n - 1 : stack[i].fn = "delete" =>
        stack[i].p # p /\ stack[i].p \in Slot /\ Live(stack[i].p)
  <2> SUFFICES ASSUME NEW i \in 1 .. n - 1, stack[i].fn = "delete"
               PROVE  stack[i].p # p /\ stack[i].p \in Slot /\ Live(stack[i].p)
    OBVIOUS
  <2>1. i \in DOMAIN stack /\ i < n /\ Dies(i) /\ Live(stack[i].p)
    BY <1>2, <1>4
  <2>2. stack[i].p \in Under(n)
    BY <2>1 DEF Under
  <2> QED
    BY <1>4, <2>1, <2>2
<1>10. /\ \A i \in 1 .. n - 1 : FrameOK(i)' /\ (Dies(i)' <=> Dies(i)) /\ i \in DOMAIN stack'
       /\ \A i \in 1 .. n - 1 : stack[i].fn = "delete" => stack[i].at # "prev"
  <2>1. \A x \in Reach(Par, Under(n)) : procs'[x].script = procs[x].script
    BY <1>1, <1>4, ReachBase
  <2>2. \A i \in 1 .. n - 1 : stack[i].fn = "delete"
             => (procs'[stack[i].p].script # Nil <=> Live(stack[i].p))
    BY <1>1, <1>9 DEF Live
  <2> QED
    BY <1>1, <1>7, <2>1, <2>2, BelowOK
<1>11. Doomed' = Under(n) /\ Closing' = Closed(n)
  <2>1. /\ {j \in DOMAIN stack' : j < n /\ Dies(j)' /\ stack'[j].at \in {"check", "free"}}
             = {j \in DOMAIN stack : j < n /\ Dies(j) /\ stack[j].at \in {"check", "free"}}
        /\ {j \in DOMAIN stack' : j < n /\ Dies(j)'} = {j \in DOMAIN stack : j < n /\ Dies(j)}
        /\ \A j \in DOMAIN stack : j < n => stack'[j] = stack[j]
    BY <1>1, <1>10, ClosedKept
  <2>2. \A j \in DOMAIN stack' : j < n
    BY <1>2
  <2>3. /\ {j \in DOMAIN stack' : Dies(j)' /\ stack'[j].at \in {"check", "free"}}
             = {j \in DOMAIN stack : j < n /\ Dies(j) /\ stack[j].at \in {"check", "free"}}
        /\ {j \in DOMAIN stack' : Dies(j)'} = {j \in DOMAIN stack : j < n /\ Dies(j)}
    BY <2>1, <2>2
  <2> QED
    BY <2>1, <2>3 DEF Doomed, Closing, Under, Closed
<1>12. \A c : Kids(c)' = Kids(c)
  BY <1>1, <1>4, <1>6, <1>11 DEF Kids
<1>13. Open' = Open /\ Open \subseteq Root \cup Slot
  BY <1>4, <1>6, <1>11, DoomedLive DEF Open
<1>14. TreeOK'
  <2> SUFFICES ASSUME NEW x \in Slot, Live(x), x # p
               PROVE  /\ ~procs'[x].ended
                      /\ \/ procs'[x].parent \in Root
                         \/ procs'[x].parent \in Slot /\ procs'[procs'[x].parent].script # Nil
                      /\ x \notin Reach(Par, {procs'[x].parent})
    BY <1>6, <1>7 DEF TreeOK, Live
  <2>1. /\ ~procs[x].ended
        /\ procs[x].parent \in Root \/ (procs[x].parent \in Slot /\ Live(procs[x].parent))
        /\ x \notin Reach(Par, {procs[x].parent})
    BY DEF TreeOK
  <2>2. procs[x].parent # p
    <3> SUFFICES ASSUME procs[x].parent = p PROVE FALSE
      OBVIOUS
    <3>1. x \in Doomed
      BY <1>4, <1>5 DEF Kids
    <3>2. x \in Reach(Par, Under(n)) /\ Par[x] = p
      BY <1>4, <3>1, ReachBase DEF Par
    <3> QED
      BY <1>4, <3>2, ReachStep
  <2> QED
    BY <1>1, <2>1, <2>2 DEF Live
<1>15. FreeListExact'
  BY <1>1, <1>3, <1>4, <1>6, FreeListGrows
<1>16. (\A y \in Open : ListOK(y))'
  <2>1. ASSUME NEW y \in Open PROVE ListOK(y)'
    <3>1. \A z \in Kids(y) : procs'[z].prev = procs[z].prev /\ procs'[z].next = procs[z].next
      BY <1>1 DEF Kids
    <3>2. ListOK(y) /\ Kids(y)' = Kids(y) /\ Newest(y)' = Newest(y)
      BY <1>8, <1>12, <1>13
    <3> QED
      BY <3>1, <3>2, ListStays
  <2> QED
    BY <1>13, <2>1
<1>17. RestOK'
  BY <1>4, <1>5, <1>11, <1>12 DEF RestOK
<1>18. HeadOK'
  <2> SUFFICES ASSUME stack' # << >>, Top'.fn = "delete", Top'.at = "prev"
               PROVE  FALSE
    BY DEF HeadOK, Doing
  <2>1. Len(stack') \in 1 .. n - 1 /\ Top' = stack'[Len(stack')]
    <3>1. stack' \in Seq(Frame)
      BY DEF TypeOK
    <3> QED
      BY <1>2, <3>1, EmptySeq, LenProperties DEF Top
  <2> QED
    BY <1>2, <1>10, <2>1
<1>19. FramesOK'
  BY <1>2, <1>10 DEF FramesOK
<1>20. GravesOK'
  <2>1. \A i \in DOMAIN stack' : stack'[i].fn = "delete" => procs'[stack'[i].p].script # Nil
    <3> TAKE i \in DOMAIN stack'
    <3>1. i \in 1 .. n - 1 /\ stack'[i] = stack[i]
      BY <1>2
    <3>2. stack[i].fn = "delete" => stack[i].p # p /\ stack[i].p \in Slot /\ Live(stack[i].p)
      BY <1>9, <3>1
    <3> QED
      BY <1>1, <3>1, <3>2 DEF Live
  <2>2. ASSUME NEW i \in DOMAIN stack', stack'[i].fn = "endMarked"
        PROVE  (\E K \in SUBSET Slot : Grave(K, i))'
    <3>1. i \in 1 .. n - 1 /\ i \in DOMAIN stack /\ stack'[i] = stack[i] /\ i < n /\ n > i
      BY <1>2
    <3>2. PICK K \in SUBSET Slot : Grave(K, i)
      BY <2>2, <3>1 DEF GravesOK
    <3> PICK L : L = K \cup {p}
      OBVIOUS
    <3> DEFINE Dead  == K \cup {Nil} \cup Above(i)
               Dead2 == L \cup {Nil} \cup Above(i)'
    <3>3. Dead \subseteq Dead2
      <4>1. \A j \in DOMAIN stack : j > i /\ stack[j].fn = "delete" =>
              \/ stack[j].p = p
              \/ j \in DOMAIN stack' /\ stack'[j].fn = "delete" /\ stack'[j].p = stack[j].p
        BY <1>2 DEF p
      <4>2. Above(i)' = {stack'[j].p : j \in {k \in DOMAIN stack' : k > i /\ stack'[k].fn = "delete"}}
        BY DEF Above
      <4>3. Above(i) \subseteq Above(i)' \cup {p}
        BY <4>1, <4>2 DEF Above
      <4> QED
        BY <4>3
    <3>4. \A k \in K : k \in Slot /\ ~Live(k) /\ procs[k].ended
                       /\ {procs[k].child, procs[k].prev, procs[k].next} \subseteq Dead
      BY <3>2 DEF Grave
    <3>5. \A j \in DOMAIN stack : j > i /\ stack[j].fn = "delete" =>
            /\ procs[stack[j].p].next \in Dead
            /\ stack[j].at # "prev" => procs[stack[j].p].prev \in Dead
            /\ stack[j].at \in {"check", "free"} => procs[stack[j].p].child \in Dead
      BY <1>4, <3>2 DEF Grave
    <3>6. \A x \in Slot : procs'[x].script = Nil /\ procs'[x].mark = stack'[i].at => x \in L
      <4>1. \A x \in Slot : ~Live(x) /\ procs[x].mark = stack[i].at => x \in K
        BY <3>2 DEF Grave
      <4> QED
        BY <1>1, <3>1, <4>1 DEF Live
    <3>7. \A j \in DOMAIN stack' : stack'[j].fn = "endMarked" => j = i
      <4>1. \A j \in DOMAIN stack : stack[j].fn = "endMarked" => j = i
        BY <3>2 DEF Grave
      <4> QED
        BY <1>2, <4>1
    <3> HIDE DEF Dead
    <3>8. {procs[p].child, procs[p].prev, procs[p].next} \subseteq Dead
      <4>1. stack[n].fn = "delete" /\ stack[n].at = "free" /\ stack[n].p = p
        BY <1>1, <1>2 DEF p
      <4> QED
        BY <1>2, <3>1, <3>5, <4>1
    <3>9. Dead2 = L \cup {Nil} \cup Above(i)' /\ L \in SUBSET Slot
      BY <1>4
    <3> HIDE DEF Dead2
    <3>10. \A k \in L : procs'[k].script = Nil /\ procs'[k].ended
                        /\ {procs'[k].child, procs'[k].prev, procs'[k].next} \subseteq Dead2
      <4> TAKE k \in L
      <4>1. k \in Slot /\ (k = p \/ k \in K)
        BY <1>4
      <4>2. {procs[k].child, procs[k].prev, procs[k].next} \subseteq Dead2
        BY <3>3, <3>4, <3>8, <4>1
      <4>3. k # p => procs[k].script = Nil /\ procs[k].ended
        BY <3>4, <4>1 DEF Live
      <4> QED
        BY <1>1, <4>1, <4>2, <4>3
    <3>11. \A j \in DOMAIN stack' : j > i /\ stack'[j].fn = "delete" =>
            /\ procs'[stack'[j].p].next \in Dead2
            /\ stack'[j].at # "prev" => procs'[stack'[j].p].prev \in Dead2
            /\ stack'[j].at \in {"check", "free"} => procs'[stack'[j].p].child \in Dead2
      <4> SUFFICES ASSUME NEW j \in DOMAIN stack', j > i, stack'[j].fn = "delete"
                   PROVE  /\ procs'[stack'[j].p].next \in Dead2
                          /\ stack'[j].at # "prev" => procs'[stack'[j].p].prev \in Dead2
                          /\ stack'[j].at \in {"check", "free"} => procs'[stack'[j].p].child \in Dead2
        OBVIOUS
      <4>1. j \in 1 .. n - 1 /\ j \in DOMAIN stack /\ stack'[j] = stack[j] /\ stack[j].fn = "delete"
        BY <1>2
      <4>2. stack[j].p \in Slot
        BY <1>9, <4>1
      <4> QED
        BY <1>1, <3>3, <3>5, <4>1, <4>2
    <3>12. Grave(L, i)'
      BY <2>1, <3>6, <3>7, <3>9, <3>10, <3>11 DEF Grave, Live
    <3> QED
      BY <3>9, <3>12
  <2> QED
    BY <2>1, <2>2 DEF GravesOK, Live
<1> QED
  BY <1>14, <1>15, <1>16, <1>17, <1>18, <1>19, <1>20
-----------------------------------------------------------------------------
(* Every step. *)

(* CoreInv does not change when nothing does.                               *)
LEMMA CoreStutter ==
  ASSUME CoreInv, UNCHANGED vars
  PROVE  CoreInv'
<1> USE DEF CoreInv
<1>1. procs' = procs /\ freeList' = freeList /\ root' = root /\ stack' = stack
      /\ paused' = paused /\ owed' = owed /\ starts' = starts
  BY DEF vars
<1>2. /\ Par' = Par /\ Back' = Back /\ Top' = Top
      /\ \A p : Live(p)' <=> Live(p)
      /\ \A p : Newest(p)' = Newest(p)
  BY <1>1 DEF Par, Back, Top, Live, Newest
<1>3. /\ \A i : Dies(i)' <=> Dies(i)
      /\ \A i : Above(i)' = Above(i)
  BY <1>1, <1>2 DEF Dies, Above, Live
<1>4. /\ Doomed' = Doomed /\ Closing' = Closing
      /\ \A i : Under(i)' = Under(i)
  BY <1>1, <1>3 DEF Doomed, Closing, Under
<1>5. /\ \A c : Kids(c)' = Kids(c)
      /\ Open' = Open
  BY <1>1, <1>2, <1>4 DEF Kids, Open
<1>6. TypeOK' /\ FreeListExact' /\ TreeOK'
  <2>1. TypeOK'
    BY <1>1 DEF TypeOK, CoreInv
  <2>2. FreeListExact'
    BY <1>1, <1>2 DEF FreeListExact
  <2>3. TreeOK'
    BY <1>1, <1>2 DEF TreeOK, Live
  <2> QED
    BY <2>1, <2>2, <2>3
<1>7. (\A par \in Open : ListOK(par))'
  <2>1. ASSUME NEW x \in Open PROVE ListOK(x)'
    <3>1. \A z \in Kids(x) : procs'[z].prev = procs[z].prev /\ procs'[z].next = procs[z].next
      BY <1>1
    <3> QED
      BY <1>2, <1>5, <3>1, ListStays
  <2> QED
    BY <1>5, <2>1
<1>8. RestOK'
  BY <1>1, <1>2, <1>4, <1>5 DEF RestOK, Doing
<1>9. HeadOK'
  BY <1>1, <1>2, <1>4, <1>5 DEF HeadOK, Doing, Live, Kids
<1>10. FramesOK'
  BY <1>1, <1>2, <1>4 DEF FramesOK, FrameOK, Live
<1>11. GravesOK'
  BY <1>1, <1>3 DEF GravesOK, Grave, Live
<1> QED
  BY <1>6, <1>7, <1>8, <1>9, <1>10, <1>11

(* CoreInv is inductive, one step for each kind of action.                  *)
LEMMA CoreStep ==
  ASSUME Careful, CoreInv, [Next]_vars
  PROVE  CoreInv'
<1>1. TypeOK'
  BY TypeStep DEF CoreInv
<1>2. CASE (\E r \in Root : Run(r)) \/ RunOlder \/ RunBlocked \/ RunScript \/ RunIdle \/ RunDone
  BY <1>1, <1>2, QuietRuns
<1>3. CASE \/ ScriptReturn \/ CmdCall \/ CmdRepeat \/ CallbackReturn
           \/ CallSetRepeat \/ Break \/ BreakEach \/ EndEach \/ BlockMarked \/ UnblockMarked
           \/ FinishStart
  BY <1>1, <1>3, QuietCalls
<1>4. CASE SetMark \/ CallEndMarked
  BY <1>1, <1>4, QuietMarks
<1>5. CASE CmdStart \/ CallStart \/ (\E r \in Root, s \in Script : Boot(s, r))
  BY <1>1, <1>5, StartSteps
<1>6. CASE CmdEnd \/ CmdEndIfDuplicate \/ CmdEndDuplicates \/ CallEnd
  BY <1>1, <1>6, EndSteps
<1>7. CASE EndEachLoop \/ EndMarkedLoop
  BY <1>1, <1>7, LoopSteps
<1>8. CASE DeleteWalk
  BY <1>1, <1>8, WalkCore
<1>9. CASE DeleteFree
  BY <1>1, <1>9, FreeCore
<1>10. CASE UNCHANGED vars
  BY <1>10, CoreStutter
<1> QED
  BY <1>2, <1>3, <1>4, <1>5, <1>6, <1>7, <1>8, <1>9, <1>10 DEF Next

(* CoreInv holds of an empty table.                                         *)
LEMMA CoreInit ==
  ASSUME Init
  PROVE  CoreInv
<1>1. /\ TypeOK /\ stack = << >> /\ DOMAIN stack = {}
      /\ freeList = [i \in 1 .. NProc |-> i]
      /\ \A r \in Root : root[r] = Nil
      /\ \A p \in Slot : procs[p].script = Nil
  BY TypeInit, EmptySeq DEF Init
<1>2. FreeListExact
  <2>1. DOMAIN freeList = Slot /\ \A i \in Slot : freeList[i] = i
    BY <1>1 DEF Slot
  <2> QED
    BY <1>1, <2>1 DEF FreeListExact, Live
<1>3. TreeOK
  BY <1>1 DEF TreeOK, Live
<1>4. Open = Root /\ \A par : Kids(par) = {}
  BY <1>1 DEF Open, Kids, Live
<1>5. \A par \in Open : ListOK(par)
  <2> TAKE par \in Open
  <2>1. Newest(par) = Nil
    BY <1>1, <1>4 DEF Newest
  <2> QED
    BY <1>4, <2>1 DEF ListOK
<1>6. RestOK
  BY <1>4 DEF RestOK
<1>7. HeadOK
  BY <1>1 DEF HeadOK, Doing
<1>8. FramesOK /\ GravesOK
  BY <1>1 DEF FramesOK, GravesOK
<1> QED
  BY <1>1, <1>2, <1>3, <1>5, <1>6, <1>7, <1>8 DEF CoreInv

(* Outside a deletion every list is whole. *)
LEMMA CoreLinks ==
  ASSUME CoreInv
  PROVE  WellLinked
<1> SUFFICES ASSUME Dying = {}, NEW p \in Slot, Live(p)
             PROVE  LET d == procs[p]
                    IN  /\ d.parent \in Root \/ (d.parent \in Slot /\ Live(d.parent))
                        /\ \A q \in {d.prev, d.next} \ {Nil} : Live(q) /\ procs[q].parent = d.parent
                        /\ d.prev # Nil => procs[d.prev].next = p
                        /\ d.next # Nil => procs[d.next].prev = p
                        /\ d.next = Nil <=> Newest(d.parent) = p
  BY DEF WellLinked
<1>1. Doomed = {} /\ Closing = {}
  BY DEF Dying, Doomed, Closing, Dies
<1> DEFINE par == procs[p].parent
<1>2. par \in Root \/ (par \in Slot /\ Live(par))
  BY DEF CoreInv, TreeOK
<1>3. p \in Kids(par) /\ ListOK(par)
  BY <1>1, <1>2 DEF CoreInv, Open, Kids
<1>4. /\ procs[p].prev \in Kids(par) \cup {Nil} /\ procs[p].next \in Kids(par) \cup {Nil}
      /\ procs[p].prev # Nil => procs[procs[p].prev].next = p
      /\ procs[p].next # Nil => procs[procs[p].next].prev = p
      /\ procs[p].next = Nil <=> Newest(par) = p
  BY <1>3 DEF ListOK
<1> QED
  BY <1>2, <1>4 DEF Kids

(* Careful callers never make proc.c free a slot twice or lose one, however *)
(* deletions, end callbacks and traversals nest.                            *)
THEOREM NoDoubleFree ==
  ASSUME Careful
  PROVE  Spec => []FreeListExact
<1>1. Init => CoreInv
  BY CoreInit
<1>2. CoreInv /\ [Next]_vars => CoreInv'
  BY CoreStep
<1>3. CoreInv => FreeListExact
  BY DEF CoreInv
<1> QED
  BY <1>1, <1>2, <1>3, PTL DEF Spec

(* Outside a deletion every live proc is on the list of its parent, which   *)
(* leads from the newest child to the oldest and back.                      *)
THEOREM TreeWellLinked ==
  ASSUME Careful
  PROVE  Spec => []WellLinked
<1>1. Init => CoreInv
  BY CoreInit
<1>2. CoreInv /\ [Next]_vars => CoreInv'
  BY CoreStep
<1>3. CoreInv => WellLinked
  BY CoreLinks
<1> QED
  BY <1>1, <1>2, <1>3, PTL DEF Spec
==============================================================================
