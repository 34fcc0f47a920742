--------------------------- MODULE SioLinkProofs ----------------------------
(***************************************************************************)
(* Proofs about SioLink, for any number of consoles and messages and any    *)
(* sizes of the queues.                                                     *)
(***************************************************************************)
EXTENDS SioLink, SequenceTheorems, TLAPS

Packet == Data \cup Ack
Lanes  == [Console -> [Console -> Seq(Packet)]]

(* Sequence numbers and their successors are sequence numbers.              *)
LEMMA SeqFacts ==
  /\ SeqMod \in Nat /\ SeqMod >= 3 /\ 0 \in SeqNo
  /\ \A k \in Nat : k % SeqMod \in SeqNo
  /\ \A s \in SeqNo : Succ(s) \in SeqNo
BY LinkAssumption DEF SeqNo, Succ

(* What a console puts on the cable arrives, if there is room for it. *)
LEMMA SentTyped ==
  ASSUME NEW w \in Lanes, NEW n \in Console, NEW m \in Console, NEW p \in Packet
  PROVE  Sent(w, n, m, p) \in Lanes
BY AppendProperties DEF Sent, Lanes

(* Taking a packet from a lane leaves lanes of packets.                     *)
LEMMA TakenTyped ==
  ASSUME TypeOK, NEW n \in Console, NEW m \in Console, wire[n][m] # << >>
  PROVE  Taken(n, m) \in Lanes /\ Head(wire[n][m]) \in Packet
<1>1. wire \in Lanes BY DEF TypeOK, Lanes, Packet
<1>2. wire[n][m] \in Seq(Packet) BY <1>1 DEF Lanes
<1>3. Head(wire[n][m]) \in Packet /\ Tail(wire[n][m]) \in Seq(Packet)
  BY <1>2, HeadTailProperties
<1> QED BY <1>1, <1>3 DEF Taken, Lanes

(* So does putting an acknowledgement into a lane.                          *)
LEMMA AcksTyped ==
  ASSUME NEW w \in Lanes, NEW m \in Console, NEW n \in Console, NEW s \in SeqNo
  PROVE  Acks(w, m, n, s) \in Lanes
BY SentTyped DEF Acks, Packet, Ack

(* A console counts acknowledgements only while it has a message to be      *)
(* acknowledged: nextPendingSend does not overtake nextPendingWrite.        *)
AwaitsOne == \A n \in Console : awaiting[n] => pendingSend[n] # << >>

TypeInv == TypeOK /\ AwaitsOne

(* Idle consoles are well typed.                                            *)
LEMMA TypeInit == Init => TypeInv
<1> SUFFICES ASSUME Init PROVE TypeInv
  OBVIOUS
<1>1. \A S : << >> \in Seq(S)
  BY EmptySeq
<1>2. MaxResend + 1 \in Nat
  BY LinkAssumption
<1> QED
  BY <1>1, <1>2, SeqFacts DEF Init, TypeInv, TypeOK, AwaitsOne

(* Emitting, sending again, giving up and a cable that stops keep the types. *)
LEMMA TypeSend ==
  ASSUME TypeInv, NEW n \in Console, Emit(n) \/ Resend(n) \/ GiveUp(n) \/ Unplug(n)
  PROVE  TypeInv'
<1> USE DEF TypeInv
<1>1. CASE Emit(n)
  <2> DEFINE d == [kind |-> "data", param |-> emitted[n] % SeqMod, data |-> emitted[n]]
  <2>1. d \in Data
    BY SeqFacts DEF TypeOK, Data
  <2>2. Append(pendingSend[n], d) \in Seq(Data)
    BY <2>1, AppendProperties DEF TypeOK
  <2>3. pendingSend' = [pendingSend EXCEPT ![n] = Append(pendingSend[n], d)]
    BY <1>1 DEF Emit
  <2> HIDE DEF d
  <2>4. pendingSend' \in [Console -> Seq(Data)]
    BY <2>2, <2>3 DEF TypeOK
  <2>5. emitted' \in [Console -> Nat]
    BY <1>1 DEF Emit, TypeOK
  <2>6. AwaitsOne'
    BY <1>1, <2>3, <2>1, AppendProperties DEF Emit, TypeOK, AwaitsOne
  <2> QED
    BY <1>1, <2>4, <2>5, <2>6 DEF Emit, TypeOK
<1>2. CASE Resend(n)
  <2>1. Head(pendingSend[n]) \in Packet
    BY <1>2, HeadTailProperties DEF Resend, TypeOK, Packet
  <2>2. \A m \in Console : Append(wire[n][m], Head(pendingSend[n])) \in Seq(Packet)
    BY <2>1, AppendProperties DEF TypeOK, Packet
  <2>3. wire' \in Lanes
    BY <1>2, <2>2 DEF Resend, TypeOK, Lanes, Packet
  <2>4. tries' \in [Console -> 0 .. MaxResend + 1]
    BY <1>2, LinkAssumption DEF Resend, TypeOK
  <2> QED
    BY <1>2, <2>3, <2>4 DEF Resend, TypeOK, Lanes, Packet, AwaitsOne
<1>3. CASE GiveUp(n)
  BY <1>3 DEF GiveUp, TypeOK, AwaitsOne
<1>4. CASE Unplug(n)
  BY <1>4 DEF Unplug, TypeOK, AwaitsOne
<1> QED
  BY <1>1, <1>2, <1>3, <1>4

(* So does taking data and acknowledgements from the cable.                 *)
LEMMA TypeTake ==
  ASSUME TypeInv, NEW n \in Console, NEW m \in Console \ {n},
         Lose(n, m) \/ TakeAck(n, m) \/ TakeData(n, m)
  PROVE  TypeInv'
<1> USE DEF TypeInv
<1>1. CASE Lose(n, m)
  BY <1>1, TakenTyped DEF Lose, TypeOK, Lanes, Packet, AwaitsOne
<1>2. CASE TakeAck(n, m)
  <2>1. wire' \in Lanes
    BY <1>2, TakenTyped DEF TakeAck
  <2>2. CASE UNCHANGED <<selfSeq, pendingSend, awaiting, tries>>
    <3> DEFINE all == acked[n] \cup {n, m}
    <3>1. all \in SUBSET Console
      BY DEF TypeOK
    <3>2. acked' = acked \/ acked' = [acked EXCEPT ![n] = all] \/ acked' = [acked EXCEPT ![n] = {}]
      BY <1>2 DEF TakeAck
    <3> HIDE DEF all
    <3>3. acked' \in [Console -> SUBSET Console]
      BY <3>1, <3>2 DEF TypeOK
    <3> QED
      BY <1>2, <2>1, <2>2, <3>3 DEF TakeAck, TypeOK, Lanes, Packet, AwaitsOne
  <2>3. CASE /\ awaiting[n]
             /\ selfSeq' = [selfSeq EXCEPT ![n] = Succ(@)]
             /\ pendingSend' = [pendingSend EXCEPT ![n] = Tail(@)]
             /\ awaiting' = [awaiting EXCEPT ![n] = FALSE]
             /\ tries' = [tries EXCEPT ![n] = 0]
             /\ acked' = [acked EXCEPT ![n] = {}]
    <3>1. selfSeq' \in [Console -> SeqNo]
      BY <2>3, SeqFacts DEF TypeOK
    <3>2. tries' \in [Console -> 0 .. MaxResend + 1]
      BY <2>3, LinkAssumption DEF TypeOK
    <3>3. awaiting' \in [Console -> BOOLEAN] /\ acked' \in [Console -> SUBSET Console]
      BY <2>3 DEF TypeOK
    <3>4. pendingSend' \in [Console -> Seq(Data)]
      BY <2>3, HeadTailProperties DEF TypeOK, AwaitsOne
    <3>5. AwaitsOne'
      BY <2>3 DEF TypeOK, AwaitsOne
    <3> QED
      BY <1>2, <2>1, <3>1, <3>2, <3>3, <3>4, <3>5 DEF TakeAck, TypeOK, Lanes, Packet
  <2> QED
    BY <1>2, <2>2, <2>3 DEF TakeAck, AckCounts
<1>3. CASE TakeData(n, m)
  <2> DEFINE d    == Head(wire[m][n])
             held == [sender |-> m, param |-> d.param, data |-> d.data]
  <2>1. d \in Data /\ Taken(m, n) \in Lanes
    BY <1>3, TakenTyped DEF TakeData, Packet, Data, Ack
  <2>2. held \in Held
    BY <2>1 DEF Data, Held
  <2>3. Append(pendingRecv[n], held) \in Seq(Held)
    BY <2>2, AppendProperties DEF TypeOK
  <2>4. seq[n][m] \in SeqNo /\ Succ(seq[n][m]) \in SeqNo
    BY SeqFacts DEF TypeOK
  <2>5. wire' \in Lanes
    BY <1>3, <2>1, <2>4, AcksTyped DEF TakeData
  <2>6. \/ pendingRecv' = pendingRecv
        \/ pendingRecv' = [pendingRecv EXCEPT ![n] = Append(pendingRecv[n], held)]
    BY <1>3 DEF TakeData
  <2> HIDE DEF d, held
  <2>7. pendingRecv' \in [Console -> Seq(Held)]
    BY <2>3, <2>6 DEF TypeOK
  <2> QED
    BY <1>3, <2>5, <2>7 DEF TakeData, TypeOK, Lanes, Packet, AwaitsOne
<1> QED
  BY <1>1, <1>2, <1>3

(* So does reading the receive queue.                                       *)
LEMMA TypeReceive ==
  ASSUME TypeInv, NEW m \in Console, Skip(m) \/ Unexpected(m) \/ Accept(m)
  PROVE  TypeInv'
<1> USE DEF TypeInv
<1> DEFINE d == Head(pendingRecv[m])
<1>1. /\ pendingRecv[m] # << >>
      /\ pendingRecv' = [pendingRecv EXCEPT ![m] = Tail(pendingRecv[m])]
  BY DEF Skip, Unexpected, Accept
<1>2. d \in Held /\ pendingRecv' \in [Console -> Seq(Held)]
  BY <1>1, HeadTailProperties DEF TypeOK
<1>3. d.sender \in Console /\ d.data \in Nat /\ wire \in Lanes
  BY <1>2 DEF Held, TypeOK, Lanes, Packet
<1>4. CASE Skip(m)
  <2>1. wire' \in Lanes
    BY <1>3, <1>4, AcksTyped DEF Skip, FirstHeld, TypeOK
  <2> QED
    BY <1>2, <1>4, <2>1 DEF Skip, TypeOK, AwaitsOne, Lanes, Packet
<1>5. CASE Unexpected(m)
  BY <1>2, <1>5 DEF Unexpected, TypeOK, AwaitsOne
<1>6. CASE Accept(m)
  <2>1. seq[m][d.sender] \in SeqNo /\ Succ(seq[m][d.sender]) \in SeqNo
    BY <1>3, SeqFacts DEF TypeOK
  <2>2. seq' \in [Console -> [Console -> SeqNo]]
    BY <1>3, <1>6, <2>1 DEF Accept, FirstHeld, TypeOK
  <2>3. Append(got[m][d.sender], d.data) \in Seq(Nat)
    BY <1>3, AppendProperties DEF TypeOK
  <2>4. got' \in [Console -> [Console -> Seq(Nat)]]
    BY <1>3, <1>6, <2>3 DEF Accept, FirstHeld, TypeOK
  <2>5. wire' \in Lanes
    BY <1>3, <1>6, <2>1, AcksTyped DEF Accept, FirstHeld
  <2> QED
    BY <1>2, <1>6, <2>2, <2>4, <2>5 DEF Accept, TypeOK, AwaitsOne, Lanes, Packet
<1> QED
  BY <1>4, <1>5, <1>6

(* Numbers, queues and acknowledgement sets stay within their types; in     *)
(* particular nextPendingSend never passes nextPendingWrite.                *)
THEOREM TypeCorrect == Spec => []TypeOK
<1>1. TypeInv /\ [Next]_vars => TypeInv'
  <2> SUFFICES ASSUME TypeInv, [Next]_vars PROVE TypeInv'
    OBVIOUS
  <2>1. CASE UNCHANGED vars
    BY <2>1 DEF vars, TypeInv, TypeOK, AwaitsOne
  <2> QED
    BY <2>1, TypeSend, TypeTake, TypeReceive DEF Next
<1>2. TypeInv => TypeOK
  BY DEF TypeInv
<1> QED
  BY <1>1, <1>2, TypeInit, PTL DEF Spec

-----------------------------------------------------------------------------
(***************************************************************************)
(* Proof that the acknowledged messages of SioLink arrive in order and      *)
(* once: the protocol implements SioChannel for any number of consoles and  *)
(* messages, any sizes of the queues and any cable.                         *)
(*                                                                         *)
(* Two consoles: n emits, m receives.  b is the message n is trying to get  *)
(* through, g the number of messages the game of m has, e the number n has  *)
(* emitted, down the lane from n to m, up the lane back, q the receive      *)
(* queue of m; ack says whether n has counted an acknowledgement of m.      *)
(***************************************************************************)

Num(k) == k % SeqMod     \* the number message k is sent with

(* Acknowledgement with the number of message k. *)
IsAck(p, k) == p.kind = "ack" /\ p.param = Num(k)

(* Data on its way is message b, behind copies of the one before it. *)
DataLane(s, b, e) ==
  /\ \A i \in 1 .. Len(s) : s[i].kind = "data" =>
       /\ s[i].data \in Nat /\ s[i].param = Num(s[i].data)
       /\ b - 1 <= s[i].data /\ s[i].data <= b /\ s[i].data < e
  /\ \A i, j \in 1 .. Len(s) :
       i < j /\ s[i].kind = "data" /\ s[j].kind = "data" => s[i].data <= s[j].data

OnlyHead(s, b) == \A i \in 1 .. Len(s) : s[i].kind = "data" => s[i].data = b

(* Acknowledgements are for message b, or for the two before it; the ones   *)
(* behind one for message b are not for the earlier one of the two.         *)
AckLane(s, b) ==
  /\ \A i \in 1 .. Len(s) : s[i].kind = "ack" =>
       \E k \in b - 1 .. b + 1 : k >= 0 /\ IsAck(s[i], k)
  /\ \A i, j \in 1 .. Len(s) :
       i < j /\ IsAck(s[i], b + 1) /\ s[j].kind = "ack" => IsAck(s[j], b) \/ IsAck(s[j], b + 1)

NoneBefore(s, b) ==
  \A i \in 1 .. Len(s) : s[i].kind = "ack" => IsAck(s[i], b) \/ IsAck(s[i], b + 1)

(* What m holds of n is the message its game waits for, behind copies of    *)
(* the one before it.                                                       *)
HeldQueue(q, n, b, g, e) ==
  /\ \A i \in 1 .. Len(q) : q[i].sender = n =>
       /\ q[i].data \in Nat /\ q[i].param = Num(q[i].data)
       /\ g - 1 <= q[i].data /\ q[i].data <= g /\ q[i].data <= b /\ q[i].data < e
  /\ \A i, j \in 1 .. Len(q) :
       i < j /\ q[i].sender = n /\ q[j].sender = n => q[i].data <= q[j].data

Holds(q, n, k) == \E i \in 1 .. Len(q) : q[i].sender = n /\ q[i].data = k

(* Console m has told n that it holds message b, or n knows. *)
Told(up, b, ack) == ack \/ \E i \in 1 .. Len(up) : IsAck(up[i], b + 1)

(* Once m has message b, no copy of the one before it is on its way.        *)
Pair(n, b, g, e, down, up, q, ack) ==
  /\ g <= b + 1 /\ b <= g + 1
  /\ DataLane(down, b, e) /\ AckLane(up, b) /\ HeldQueue(q, n, b, g, e)
  /\ g = b + 1 \/ Holds(q, n, b) \/ Told(up, b, ack) => g >= b /\ OnlyHead(down, b)
  /\ ack => NoneBefore(up, b)
  /\ ~MayRefuse => /\ Told(up, b, ack) => g = b + 1 \/ Holds(q, n, b)
                   /\ b = g + 1 => Holds(q, n, g)

(* The send queue is a stretch of what was emitted. *)
InTurn(n) ==
  /\ Base(n) >= 0 /\ selfSeq[n] = Num(Base(n))
  /\ \A i \in 1 .. Len(pendingSend[n]) :
       pendingSend[n][i] = [kind |-> "data", param |-> Num(Base(n) + i - 1),
                            data |-> Base(n) + i - 1]

Linked(n, m) ==
  /\ seq[m][n] = Num(Len(got[m][n]))
  /\ Pair(n, Base(n), Len(got[m][n]), emitted[n], wire[n][m], wire[m][n],
          pendingRecv[m], m \in acked[n])

NotOwn(m) == \A i \in 1 .. Len(pendingRecv[m]) : pendingRecv[m][i].sender # m

OrderInv ==
  /\ TypeInv
  /\ \A n \in Console : InTurn(n) /\ NotOwn(n)
  /\ \A n \in Console : \A m \in Console \ {n} : Linked(n, m)
-----------------------------------------------------------------------------
(* Numbers: messages that are at most two apart have different ones. *)

(* Quotient and remainder by the number of sequence numbers.                *)
LEMMA Division ==
  ASSUME NEW k \in Nat
  PROVE  \E d \in Nat, r \in 0 .. SeqMod - 1 : k = SeqMod * d + r
<1>1. /\ k = SeqMod * (k \div SeqMod) + (k % SeqMod)
      /\ k \div SeqMod \in Nat /\ k % SeqMod \in 0 .. SeqMod - 1
  BY LinkAssumption
<1> QED BY <1>1

(* The remainder of a number given by quotient and remainder.               *)
LEMMA Remainder ==
  ASSUME NEW d \in Nat, NEW r \in 0 .. SeqMod - 1
  PROVE  Num(SeqMod * d + r) = r
BY LinkAssumption DEF Num

(* The remainder one or two further on. *)
LEMMA Further ==
  ASSUME NEW d \in Nat, NEW r \in 0 .. SeqMod - 1, NEW i \in 1 .. 2
  PROVE  Num(SeqMod * d + r + i) = IF r + i < SeqMod THEN r + i ELSE r + i - SeqMod
<1>1. CASE r + i < SeqMod
  <2> DEFINE t == r + i
  <2>1. t \in 0 .. SeqMod - 1 /\ SeqMod * d + r + i = SeqMod * d + t
    BY <1>1, LinkAssumption
  <2> HIDE DEF t
  <2>2. Num(SeqMod * d + t) = t BY <2>1, Remainder
  <2> QED BY <1>1, <2>1, <2>2 DEF t
<1>2. CASE ~(r + i < SeqMod)
  <2> DEFINE t == r + i - SeqMod
  <2>1. t \in 0 .. SeqMod - 1 /\ SeqMod * d + r + i = SeqMod * (d + 1) + t
    BY <1>2, LinkAssumption
  <2> HIDE DEF t
  <2>2. Num(SeqMod * (d + 1) + t) = t BY <2>1, Remainder
  <2> QED BY <1>2, <2>1, <2>2 DEF t
<1> QED BY <1>1, <1>2

(* The number after a message's number is the next message's.               *)
LEMMA NumFacts ==
  ASSUME NEW k \in Nat
  PROVE  /\ Num(k) \in SeqNo /\ Succ(Num(k)) = Num(k + 1)
         /\ Num(k) # Num(k + 1) /\ Num(k) # Num(k + 2)
<1>1. PICK d \in Nat, r \in 0 .. SeqMod - 1 : k = SeqMod * d + r
  BY Division
<1>2. Num(k) = r BY <1>1, Remainder
<1>3. /\ Num(k + 1) = IF r + 1 < SeqMod THEN r + 1 ELSE r + 1 - SeqMod
      /\ Num(k + 2) = IF r + 2 < SeqMod THEN r + 2 ELSE r + 2 - SeqMod
  BY <1>1, Further
<1>4. Succ(r) = IF r + 1 < SeqMod THEN r + 1 ELSE r + 1 - SeqMod
  <2>1. CASE r + 1 < SeqMod
    <3> DEFINE t == r + 1
    <3>1. t \in 0 .. SeqMod - 1 /\ t = SeqMod * 0 + t BY <2>1, LinkAssumption
    <3> HIDE DEF t
    <3>2. Num(SeqMod * 0 + t) = t BY <3>1, Remainder
    <3> QED BY <2>1, <3>1, <3>2 DEF t, Succ, Num
  <2>2. CASE ~(r + 1 < SeqMod)
    <3>1. r + 1 = SeqMod * 1 + 0 /\ 0 \in 0 .. SeqMod - 1 /\ r + 1 - SeqMod = 0
      BY <2>2, LinkAssumption
    <3>2. Num(SeqMod * 1 + 0) = 0 BY <3>1, Remainder
    <3> QED BY <2>2, <3>1, <3>2 DEF Succ, Num
  <2> QED BY <2>1, <2>2
<1> QED BY <1>2, <1>3, <1>4, LinkAssumption DEF SeqNo

(* So the number tells which of three neighbours a message is. *)
LEMMA SameNumber ==
  ASSUME NEW j \in Nat, NEW k \in Nat, j <= k + 2, k <= j + 2, Num(j) = Num(k)
  PROVE  j = k
<1>1. Num(j) # Num(j + 1) /\ Num(j) # Num(j + 2) /\ Num(k) # Num(k + 1) /\ Num(k) # Num(k + 2)
  BY NumFacts
<1>2. k = j \/ k = j + 1 \/ k = j + 2 \/ j = k + 1 \/ j = k + 2
  OBVIOUS
<1> QED BY <1>1, <1>2

-----------------------------------------------------------------------------
(* Queues and lanes when an element is taken or appended. *)

(* What is left when the head is taken.                                     *)
LEMMA TailIs ==
  ASSUME NEW S, NEW s \in Seq(S), s # << >>
  PROVE  /\ Len(s) \in Nat \ {0} /\ Tail(s) \in Seq(S) /\ Len(Tail(s)) = Len(s) - 1
         /\ \A i \in 1 .. Len(Tail(s)) : i + 1 \in 1 .. Len(s) /\ Tail(s)[i] = s[i + 1]
         /\ Head(s) = s[1] /\ 1 \in 1 .. Len(s) /\ s[1] \in S
<1>1. Len(s) \in Nat /\ Len(s) # 0 BY EmptySeq, LenProperties
<1> QED BY <1>1, HeadTailProperties, ElementOfSeq

(* What a queue is when an element is appended.                             *)
LEMMA AppendIs ==
  ASSUME NEW S, NEW s \in Seq(S), NEW x \in S
  PROVE  /\ Append(s, x) \in Seq(S) /\ Len(s) \in Nat /\ Len(Append(s, x)) = Len(s) + 1
         /\ \A i \in 1 .. Len(s) : Append(s, x)[i] = s[i]
         /\ Append(s, x)[Len(s) + 1] = x
         /\ \A i \in 1 .. Len(Append(s, x)) : i \in 1 .. Len(s) \/ i = Len(s) + 1
BY AppendProperties, LenProperties

(* A lane of data stays one when its head is taken.                         *)
LEMMA DataTail ==
  ASSUME NEW s \in Seq(Packet), s # << >>, NEW b \in Nat, NEW e \in Nat
  PROVE  /\ DataLane(s, b, e) => DataLane(Tail(s), b, e)
         /\ OnlyHead(s, b) => OnlyHead(Tail(s), b)
BY TailIs DEF DataLane, OnlyHead

(* So does a lane of acknowledgements.                                      *)
LEMMA AckTail ==
  ASSUME NEW s \in Seq(Packet), s # << >>, NEW b \in Nat, NEW ack \in BOOLEAN
  PROVE  /\ AckLane(s, b) => AckLane(Tail(s), b)
         /\ NoneBefore(s, b) => NoneBefore(Tail(s), b)
         /\ Told(Tail(s), b, ack) => Told(s, b, ack)
<1>1. /\ Len(Tail(s)) = Len(s) - 1 /\ Len(s) \in Nat
      /\ \A i \in 1 .. Len(Tail(s)) : i + 1 \in 1 .. Len(s) /\ Tail(s)[i] = s[i + 1]
  BY TailIs
<1>2. AckLane(s, b) => AckLane(Tail(s), b) BY <1>1 DEF AckLane
<1>3. NoneBefore(s, b) => NoneBefore(Tail(s), b) BY <1>1 DEF NoneBefore
<1>4. Told(Tail(s), b, ack) => Told(s, b, ack) BY <1>1 DEF Told
<1> QED BY <1>2, <1>3, <1>4

(* A copy of message b joins the lane, or an acknowledgement does. *)
LEMMA DataAppend ==
  ASSUME NEW s \in Seq(Packet), NEW b \in Nat, NEW e \in Nat, NEW p \in Packet,
         p.kind = "data" => p.data = b /\ p.param = Num(b) /\ b < e
  PROVE  /\ DataLane(s, b, e) => DataLane(Append(s, p), b, e)
         /\ OnlyHead(s, b) => OnlyHead(Append(s, p), b)
<1>1. /\ Len(s) \in Nat /\ Len(Append(s, p)) = Len(s) + 1
      /\ \A i \in 1 .. Len(s) : Append(s, p)[i] = s[i]
      /\ Append(s, p)[Len(s) + 1] = p
      /\ \A i \in 1 .. Len(Append(s, p)) : i \in 1 .. Len(s) \/ i = Len(s) + 1
  BY AppendIs
<1>2. OnlyHead(s, b) => OnlyHead(Append(s, p), b) BY <1>1 DEF OnlyHead
<1>3. DataLane(s, b, e) => DataLane(Append(s, p), b, e) BY <1>1 DEF DataLane
<1> QED BY <1>2, <1>3

(* Data joins the lane. *)
LEMMA AckPassed ==
  ASSUME NEW s \in Seq(Packet), NEW b \in Nat, NEW ack \in BOOLEAN,
         NEW p \in Packet, p.kind = "data"
  PROVE  /\ AckLane(s, b) => AckLane(Append(s, p), b)
         /\ NoneBefore(s, b) => NoneBefore(Append(s, p), b)
         /\ Told(Append(s, p), b, ack) => Told(s, b, ack)
<1>1. /\ Len(s) \in Nat /\ Len(Append(s, p)) = Len(s) + 1
      /\ \A i \in 1 .. Len(s) : Append(s, p)[i] = s[i]
      /\ Append(s, p)[Len(s) + 1] = p
      /\ \A i \in 1 .. Len(Append(s, p)) : i \in 1 .. Len(s) \/ i = Len(s) + 1
  BY AppendIs
<1>2. AckLane(s, b) => AckLane(Append(s, p), b) BY <1>1 DEF AckLane, IsAck
<1>3. NoneBefore(s, b) => NoneBefore(Append(s, p), b) BY <1>1 DEF NoneBefore, IsAck
<1>4. Told(Append(s, p), b, ack) => Told(s, b, ack) BY <1>1 DEF Told, IsAck
<1> QED BY <1>2, <1>3, <1>4

(* An acknowledgement joins the lane; it is not for the earliest message if *)
(* there is one for the latest. *)
LEMMA AckAppend ==
  ASSUME NEW s \in Seq(Packet), NEW b \in Nat, NEW ack \in BOOLEAN,
         NEW k \in Nat, b - 1 <= k, k <= b + 1, Told(s, b, ack) => k >= b,
         NEW p \in Packet, p.kind = "ack", p.param = Num(k)
  PROVE  /\ AckLane(s, b) => AckLane(Append(s, p), b)
         /\ ack /\ NoneBefore(s, b) => NoneBefore(Append(s, p), b)
         /\ Told(Append(s, p), b, ack) => Told(s, b, ack) \/ k = b + 1
<1>1. /\ Len(s) \in Nat /\ Len(Append(s, p)) = Len(s) + 1
      /\ \A i \in 1 .. Len(s) : Append(s, p)[i] = s[i]
      /\ Append(s, p)[Len(s) + 1] = p
      /\ \A i \in 1 .. Len(Append(s, p)) : i \in 1 .. Len(s) \/ i = Len(s) + 1
  BY AppendIs
<1>2. IsAck(p, k) /\ (k >= b => IsAck(p, b) \/ IsAck(p, b + 1))
  <2>1. k >= b => k = b \/ k = b + 1 OBVIOUS
  <2> QED BY <2>1 DEF IsAck
<1>3. ASSUME IsAck(p, b + 1) PROVE k = b + 1
  <2> DEFINE j == b + 1
  <2>1. Num(k) = Num(j) BY <1>3 DEF IsAck
  <2>2. j \in Nat /\ k <= j + 2 /\ j <= k + 2 OBVIOUS
  <2> HIDE DEF j
  <2>3. k = j BY <2>1, <2>2, SameNumber
  <2> QED BY <2>3 DEF j
<1>4. Told(Append(s, p), b, ack) => Told(s, b, ack) \/ k = b + 1
  BY <1>1, <1>3 DEF Told
<1>5. ack /\ NoneBefore(s, b) => NoneBefore(Append(s, p), b)
  BY <1>1, <1>2 DEF NoneBefore, Told
<1>6. ASSUME AckLane(s, b) PROVE AckLane(Append(s, p), b)
  <2>1. \A i \in 1 .. Len(Append(s, p)) : Append(s, p)[i].kind = "ack" =>
          \E j \in b - 1 .. b + 1 : j >= 0 /\ IsAck(Append(s, p)[i], j)
    BY <1>1, <1>2, <1>6 DEF AckLane
  <2>2. ASSUME NEW i \in 1 .. Len(Append(s, p)), NEW j \in 1 .. Len(Append(s, p)),
               i < j, IsAck(Append(s, p)[i], b + 1), Append(s, p)[j].kind = "ack"
        PROVE  IsAck(Append(s, p)[j], b) \/ IsAck(Append(s, p)[j], b + 1)
    <3>1. i \in 1 .. Len(s) /\ Append(s, p)[i] = s[i]
      BY <1>1, <2>2
    <3>2. CASE j \in 1 .. Len(s)
      BY <1>1, <1>6, <2>2, <3>1, <3>2 DEF AckLane
    <3>3. CASE j = Len(s) + 1
      <4>1. Told(s, b, ack) BY <2>2, <3>1 DEF Told
      <4> QED BY <1>1, <1>2, <3>3, <4>1
    <3> QED BY <1>1, <3>2, <3>3
  <2> QED BY <2>1, <2>2 DEF AckLane
<1> QED BY <1>4, <1>5, <1>6
-----------------------------------------------------------------------------
(* What the steps of the protocol do to a pair of consoles. *)

(* n emits. *)
LEMMA PairEmits ==
  ASSUME NEW n, NEW b \in Nat, NEW g \in Nat, NEW e \in Nat,
         NEW down \in Seq(Packet), NEW up \in Seq(Packet), NEW q \in Seq(Held),
         NEW ack \in BOOLEAN, Pair(n, b, g, e, down, up, q, ack)
  PROVE  Pair(n, b, g, e + 1, down, up, q, ack)
<1>1. DataLane(down, b, e + 1) BY DEF Pair, DataLane
<1>2. HeldQueue(q, n, b, g, e + 1) BY DEF Pair, HeldQueue
<1> QED BY <1>1, <1>2 DEF Pair

(* The lane to m loses its first packet, or m takes it. *)
LEMMA PairTakesDown ==
  ASSUME NEW n, NEW b \in Nat, NEW g \in Nat, NEW e \in Nat,
         NEW down \in Seq(Packet), NEW up \in Seq(Packet), NEW q \in Seq(Held),
         NEW ack \in BOOLEAN, Pair(n, b, g, e, down, up, q, ack), down # << >>
  PROVE  Pair(n, b, g, e, Tail(down), up, q, ack)
BY DataTail DEF Pair

(* So does the lane back. *)
LEMMA PairTakesUp ==
  ASSUME NEW n, NEW b \in Nat, NEW g \in Nat, NEW e \in Nat,
         NEW down \in Seq(Packet), NEW up \in Seq(Packet), NEW q \in Seq(Held),
         NEW ack \in BOOLEAN, Pair(n, b, g, e, down, up, q, ack), up # << >>
  PROVE  Pair(n, b, g, e, down, Tail(up), q, ack)
BY AckTail DEF Pair

(* n sends message b, or m has it acknowledge another stream. *)
LEMMA PairSends ==
  ASSUME NEW n, NEW b \in Nat, NEW g \in Nat, NEW e \in Nat,
         NEW down \in Seq(Packet), NEW up \in Seq(Packet), NEW q \in Seq(Held),
         NEW ack \in BOOLEAN, Pair(n, b, g, e, down, up, q, ack),
         NEW p \in Packet, p.kind = "data" => p.data = b /\ p.param = Num(b) /\ b < e
  PROVE  Pair(n, b, g, e, Append(down, p), up, q, ack)
BY DataAppend DEF Pair

(* m sends data of its own. *)
LEMMA PairPasses ==
  ASSUME NEW n, NEW b \in Nat, NEW g \in Nat, NEW e \in Nat,
         NEW down \in Seq(Packet), NEW up \in Seq(Packet), NEW q \in Seq(Held),
         NEW ack \in BOOLEAN, Pair(n, b, g, e, down, up, q, ack),
         NEW p \in Packet, p.kind = "data"
  PROVE  Pair(n, b, g, e, down, Append(up, p), q, ack)
BY AckPassed DEF Pair

(* m says which message it expects. *)
LEMMA PairExpects ==
  ASSUME NEW n, NEW b \in Nat, NEW g \in Nat, NEW e \in Nat,
         NEW down \in Seq(Packet), NEW up \in Seq(Packet), NEW q \in Seq(Held),
         NEW ack \in BOOLEAN, Pair(n, b, g, e, down, up, q, ack),
         NEW p \in Packet, p.kind = "ack", p.param = Num(g)
  PROVE  Pair(n, b, g, e, down, Append(up, p), q, ack)
<1>1. b - 1 <= g /\ g <= b + 1 /\ (Told(up, b, ack) => g >= b)
  BY DEF Pair
<1>2. /\ AckLane(Append(up, p), b)
      /\ ack => NoneBefore(Append(up, p), b)
      /\ Told(Append(up, p), b, ack) => Told(up, b, ack) \/ g = b + 1
  BY <1>1, AckAppend DEF Pair
<1> QED BY <1>1, <1>2 DEF Pair

(* n hears that m has message b. *)
LEMMA PairHears ==
  ASSUME NEW n, NEW b \in Nat, NEW g \in Nat, NEW e \in Nat,
         NEW down \in Seq(Packet), NEW up \in Seq(Packet), NEW q \in Seq(Held),
         NEW ack \in BOOLEAN, Pair(n, b, g, e, down, up, q, ack),
         up # << >>, IsAck(Head(up), b + 1)
  PROVE  Pair(n, b, g, e, down, Tail(up), q, TRUE)
<1>1. /\ Len(Tail(up)) = Len(up) - 1 /\ Len(up) \in Nat
      /\ \A i \in 1 .. Len(Tail(up)) : i + 1 \in 1 .. Len(up) /\ Tail(up)[i] = up[i + 1]
      /\ Head(up) = up[1] /\ 1 \in 1 .. Len(up)
  BY TailIs
<1>2. Told(up, b, ack) BY <1>1 DEF Told
<1>3. NoneBefore(Tail(up), b)
  <2> SUFFICES ASSUME NEW i \in 1 .. Len(Tail(up)), Tail(up)[i].kind = "ack"
               PROVE  IsAck(Tail(up)[i], b) \/ IsAck(Tail(up)[i], b + 1)
    BY DEF NoneBefore
  <2>1. i + 1 \in 1 .. Len(up) /\ 1 < i + 1 /\ Tail(up)[i] = up[i + 1] BY <1>1
  <2> QED BY <1>1, <2>1 DEF Pair, AckLane
<1>4. AckLane(Tail(up), b) BY AckTail DEF Pair
<1> QED BY <1>2, <1>3, <1>4 DEF Pair

(* n goes on to its next message. *)
LEMMA PairAdvances ==
  ASSUME NEW n, NEW b \in Nat, NEW g \in Nat, NEW e \in Nat,
         NEW down \in Seq(Packet), NEW up \in Seq(Packet), NEW q \in Seq(Held),
         Pair(n, b, g, e, down, up, q, TRUE)
  PROVE  Pair(n, b + 1, g, e, down, up, q, FALSE)
<1>1. g >= b /\ g <= b + 1 /\ OnlyHead(down, b) /\ NoneBefore(up, b)
      /\ DataLane(down, b, e) /\ AckLane(up, b) /\ HeldQueue(q, n, b, g, e)
      /\ (~MayRefuse => g = b + 1 \/ Holds(q, n, b))
  BY DEF Pair, Told
<1>2. \A i \in 1 .. Len(up) : ~IsAck(up[i], b + 2)
  <2> SUFFICES ASSUME NEW i \in 1 .. Len(up), IsAck(up[i], b + 2) PROVE FALSE
    OBVIOUS
  <2>1. IsAck(up[i], b) \/ IsAck(up[i], b + 1) BY <1>1 DEF NoneBefore, IsAck
  <2>2. Num(b) # Num(b + 2) BY NumFacts
  <2>3. Num(b + 1) # Num(b + 2)
    <3> DEFINE c == b + 1
    <3>1. c \in Nat /\ c + 1 = b + 2 OBVIOUS
    <3> HIDE DEF c
    <3>2. Num(c) # Num(c + 1) BY <3>1, NumFacts
    <3> QED BY <3>1, <3>2 DEF c
  <2> QED BY <2>1, <2>2, <2>3 DEF IsAck
<1>3. b + 1 + 1 = b + 2 OBVIOUS
<1>4. DataLane(down, b + 1, e) BY <1>1 DEF DataLane, OnlyHead
<1>5. AckLane(up, b + 1)
  <2>1. ASSUME NEW i \in 1 .. Len(up), up[i].kind = "ack"
        PROVE  \E k \in b + 1 - 1 .. b + 1 + 1 : k >= 0 /\ IsAck(up[i], k)
    <3>1. IsAck(up[i], b) \/ IsAck(up[i], b + 1) BY <1>1, <2>1 DEF NoneBefore
    <3>2. b \in b + 1 - 1 .. b + 1 + 1 /\ b + 1 \in b + 1 - 1 .. b + 1 + 1 /\ b >= 0
      OBVIOUS
    <3> QED BY <3>1, <3>2
  <2> QED BY <1>2, <1>3, <2>1 DEF AckLane
<1>6. HeldQueue(q, n, b + 1, g, e) BY <1>1 DEF HeldQueue
<1>7. ~Told(up, b + 1, FALSE) BY <1>2, <1>3 DEF Told
<1>8. ~Holds(q, n, b + 1) BY <1>1 DEF HeldQueue, Holds
<1>9. ~MayRefuse /\ b + 1 = g + 1 => Holds(q, n, g) BY <1>1
<1>10. g <= b + 1 + 1 /\ b + 1 <= g + 1 /\ g # b + 1 + 1 BY <1>1
<1> QED BY <1>4, <1>5, <1>6, <1>7, <1>8, <1>9, <1>10, Zenon DEF Pair

(* m holds one more message of another console. *)
LEMMA PairHoldsOther ==
  ASSUME NEW n, NEW b \in Nat, NEW g \in Nat, NEW e \in Nat,
         NEW down \in Seq(Packet), NEW up \in Seq(Packet), NEW q \in Seq(Held),
         NEW ack \in BOOLEAN, Pair(n, b, g, e, down, up, q, ack),
         NEW h \in Held, h.sender # n
  PROVE  Pair(n, b, g, e, down, up, Append(q, h), ack)
<1>1. /\ Len(q) \in Nat /\ Len(Append(q, h)) = Len(q) + 1
      /\ \A i \in 1 .. Len(q) : Append(q, h)[i] = q[i]
      /\ Append(q, h)[Len(q) + 1] = h
      /\ \A i \in 1 .. Len(Append(q, h)) : i \in 1 .. Len(q) \/ i = Len(q) + 1
  BY AppendIs
<1>2. HeldQueue(Append(q, h), n, b, g, e) BY <1>1 DEF Pair, HeldQueue
<1>3. \A k : Holds(Append(q, h), n, k) <=> Holds(q, n, k)
  <2>1. 1 .. Len(q) \subseteq 1 .. Len(Append(q, h)) BY <1>1
  <2> QED BY <1>1, <2>1 DEF Holds
<1> QED BY <1>2, <1>3 DEF Pair

(* m queues the message it expects and acknowledges it.                     *)
Expected(n, g, down) == [sender |-> n, param |-> Num(g), data |-> Head(down).data]
Fits(p, g)           == p.kind = "data" /\ p.param = Num(g)
Confirm(g)           == [kind |-> "ack", param |-> Num(g + 1)]

(* The message is now held, whether or not its acknowledgement found room.  *)
LEMMA PairHasMessage ==
  ASSUME NEW n \in Console, NEW b \in Nat, NEW g \in Nat, NEW e \in Nat,
         NEW down \in Seq(Packet), NEW up \in Seq(Packet), NEW q \in Seq(Held),
         NEW ack \in BOOLEAN, Pair(n, b, g, e, down, up, q, ack),
         down # << >>, Fits(Head(down), g)
  PROVE  /\ Pair(n, b, g, e, Tail(down), up, Append(q, Expected(n, g, down)), ack)
         /\ Pair(n, b, g, e, Tail(down), Append(up, Confirm(g)),
                 Append(q, Expected(n, g, down)), ack)
<1> DEFINE h == Expected(n, g, down)
           p == Confirm(g)
<1>0. h \in Held /\ h.sender = n /\ h.param = Num(g) /\ h.data = Head(down).data
  <2>1. Head(down) = down[1] /\ 1 \in 1 .. Len(down) BY TailIs
  <2>2. Head(down).data \in Nat BY <2>1 DEF Pair, DataLane, Fits
  <2> QED BY <2>2, NumFacts DEF Held, Expected
<1> HIDE DEF h
<1>1. /\ Len(q) \in Nat /\ Len(Append(q, h)) = Len(q) + 1
      /\ \A i \in 1 .. Len(q) : Append(q, h)[i] = q[i]
      /\ Append(q, h)[Len(q) + 1] = h
      /\ \A i \in 1 .. Len(Append(q, h)) : i \in 1 .. Len(q) \/ i = Len(q) + 1
  BY <1>0, AppendIs
<1>2. /\ Head(down) = down[1] /\ 1 \in 1 .. Len(down) /\ Len(down) \in Nat
  BY TailIs
<1>3. /\ h.data \in Nat /\ Num(h.data) = Num(g) /\ b - 1 <= h.data /\ h.data <= b
      /\ h.data < e
  BY <1>0, <1>2 DEF Pair, DataLane, Fits
<1>4. h.data = g
  <2>1. g <= b + 1 /\ b <= g + 1 BY DEF Pair
  <2>2. h.data <= g + 2 /\ g <= h.data + 2 BY <1>3, <2>1
  <2> QED BY <1>3, <2>2, SameNumber
<1>5. HeldQueue(Append(q, h), n, b, g, e)
  <2> DEFINE r == Append(q, h)
  <2>0. HeldQueue(q, n, b, g, e) BY DEF Pair
  <2>1. /\ Len(q) \in Nat /\ Len(r) = Len(q) + 1
        /\ \A i \in 1 .. Len(q) : r[i] = q[i]
        /\ r[Len(q) + 1] = h
        /\ \A i \in 1 .. Len(r) : i \in 1 .. Len(q) \/ i = Len(q) + 1
    BY <1>1
  <2>2. /\ h.data \in Nat /\ h.param = Num(h.data) /\ h.data = g
        /\ g - 1 <= h.data /\ h.data <= g /\ h.data <= b /\ h.data < e
    BY <1>0, <1>3, <1>4
  <2> HIDE DEF r
  <2>3. ASSUME NEW i \in 1 .. Len(r), r[i].sender = n
        PROVE  /\ r[i].data \in Nat /\ r[i].param = Num(r[i].data)
               /\ g - 1 <= r[i].data /\ r[i].data <= g /\ r[i].data <= b /\ r[i].data < e
    BY <2>0, <2>1, <2>2, <2>3 DEF HeldQueue
  <2>4. ASSUME NEW i \in 1 .. Len(r), NEW j \in 1 .. Len(r), i < j,
               r[i].sender = n, r[j].sender = n
        PROVE  r[i].data <= r[j].data
    <3>1. i \in 1 .. Len(q) /\ r[i] = q[i] BY <2>1, <2>4
    <3>2. CASE j \in 1 .. Len(q)
      BY <2>0, <2>1, <2>4, <3>1, <3>2 DEF HeldQueue
    <3>3. CASE j = Len(q) + 1
      BY <2>1, <2>2, <2>3, <2>4, <3>3
    <3> QED BY <2>1, <3>2, <3>3
  <2>5. HeldQueue(r, n, b, g, e) BY <2>3, <2>4 DEF HeldQueue
  <2> QED BY <2>5 DEF r
<1>6. Holds(Append(q, h), n, g)
  <2>1. Len(q) + 1 \in 1 .. Len(Append(q, h)) BY <1>1
  <2> QED BY <1>0, <1>1, <1>4, <2>1 DEF Holds
<1>7. \A k : Holds(q, n, k) => Holds(Append(q, h), n, k)
  <2>1. 1 .. Len(q) \subseteq 1 .. Len(Append(q, h)) BY <1>1
  <2> QED BY <1>1, <2>1 DEF Holds
<1>8. g = b => OnlyHead(down, b)
  <2> SUFFICES ASSUME g = b, NEW i \in 1 .. Len(down), down[i].kind = "data"
               PROVE  down[i].data = b
    BY DEF OnlyHead
  <2>1. i = 1 \/ 1 < i BY <1>2
  <2>2. down[i].data \in Nat /\ down[i].data <= b BY DEF Pair, DataLane
  <2>3. 1 < i => down[1].data <= down[i].data BY <1>2 DEF Pair, DataLane, Fits
  <2> QED BY <1>0, <1>2, <1>4, <2>1, <2>2, <2>3
<1>9. \A k : Holds(Append(q, h), n, k) => Holds(q, n, k) \/ k = g
  BY <1>0, <1>1, <1>4 DEF Holds
<1>10. Pair(n, b, g, e, down, up, Append(q, h), ack)
  <2>1. Holds(Append(q, h), n, b) => Holds(q, n, b) \/ g = b BY <1>9
  <2>2. g = b => g >= b OBVIOUS
  <2>3. ~MayRefuse => /\ Told(up, b, ack) => g = b + 1 \/ Holds(Append(q, h), n, b)
                      /\ b = g + 1 => Holds(Append(q, h), n, g)
    BY <1>6, <1>7 DEF Pair
  <2>4. g = b + 1 \/ Holds(Append(q, h), n, b) \/ Told(up, b, ack)
          => g >= b /\ OnlyHead(down, b)
    BY <1>8, <2>1, <2>2 DEF Pair
  <2> QED BY <1>5, <2>3, <2>4 DEF Pair
<1>11. p \in Packet /\ p.kind = "ack" /\ p.param = Num(g + 1)
  <2> DEFINE k == g + 1
  <2>1. k \in Nat OBVIOUS
  <2> HIDE DEF k
  <2>2. Num(k) \in SeqNo BY <2>1, NumFacts
  <2> QED BY <2>2 DEF k, Confirm, Packet, Ack
<1> HIDE DEF p
<1>12. Pair(n, b, g, e, down, Append(up, p), Append(q, h), ack)
  <2> DEFINE k == g + 1
  <2>1. /\ k \in Nat /\ b - 1 <= k /\ k <= b + 1 /\ g <= b /\ (k >= b) /\ p.param = Num(k)
    BY <1>3, <1>4, <1>11 DEF Pair
  <2>2. k = b + 1 => g = b OBVIOUS
  <2> HIDE DEF k
  <2>3. /\ AckLane(Append(up, p), b)
        /\ ack => NoneBefore(Append(up, p), b)
        /\ Told(Append(up, p), b, ack) => Told(up, b, ack) \/ k = b + 1
    BY <1>11, <2>1, AckAppend DEF Pair
  <2>4. g = b => g >= b /\ OnlyHead(down, b) /\ Holds(Append(q, h), n, b)
    BY <1>6, <1>8
  <2>5. ~MayRefuse => (Told(Append(up, p), b, ack) => g = b + 1 \/ Holds(Append(q, h), n, b))
    BY <1>10, <2>2, <2>3, <2>4 DEF Pair
  <2>6. g = b + 1 \/ Holds(Append(q, h), n, b) \/ Told(Append(up, p), b, ack)
          => g >= b /\ OnlyHead(down, b)
    BY <1>10, <2>2, <2>3, <2>4 DEF Pair
  <2>7. b = g + 1 /\ ~MayRefuse => Holds(Append(q, h), n, g) BY <1>6
  <2>8. g <= b + 1 /\ b <= g + 1 /\ DataLane(down, b, e) /\ HeldQueue(Append(q, h), n, b, g, e)
    BY <1>10 DEF Pair
  <2> QED BY <2>3, <2>5, <2>6, <2>7, <2>8, Zenon DEF Pair
<1>13. /\ Append(q, h) \in Seq(Held)
       /\ Append(up, p) \in Seq(Packet)
  BY <1>0, <1>11, AppendIs
<1> DEFINE r == Append(q, h)
<1>14. r \in Seq(Held) BY <1>13
<1>15. Pair(n, b, g, e, down, up, r, ack) BY <1>10
<1>16. Pair(n, b, g, e, Tail(down), Append(up, p), r, ack)
  <2> DEFINE u == Append(up, p)
  <2>1. u \in Seq(Packet) /\ Pair(n, b, g, e, down, u, r, ack) BY <1>13, <1>12
  <2> HIDE DEF u, r
  <2>2. Pair(n, b, g, e, Tail(down), u, r, ack) BY <1>14, <2>1, PairTakesDown
  <2> QED BY <2>2 DEF u
<1> HIDE DEF r
<1>17. Pair(n, b, g, e, Tail(down), up, r, ack) BY <1>14, <1>15, PairTakesDown
<1> QED BY <1>16, <1>17 DEF r, h, p

(* It is held, and there is no room for its acknowledgement.                *)
LEMMA PairQueues ==
  ASSUME NEW n \in Console, NEW b \in Nat, NEW g \in Nat, NEW e \in Nat,
         NEW down \in Seq(Packet), NEW up \in Seq(Packet), NEW q \in Seq(Held),
         NEW ack \in BOOLEAN, Pair(n, b, g, e, down, up, q, ack),
         down # << >>, Fits(Head(down), g)
  PROVE  Pair(n, b, g, e, Tail(down), up, Append(q, Expected(n, g, down)), ack)
BY PairHasMessage

(* It is held, and its acknowledgement is on its way.                       *)
LEMMA PairConfirms ==
  ASSUME NEW n \in Console, NEW b \in Nat, NEW g \in Nat, NEW e \in Nat,
         NEW down \in Seq(Packet), NEW up \in Seq(Packet), NEW q \in Seq(Held),
         NEW ack \in BOOLEAN, Pair(n, b, g, e, down, up, q, ack),
         down # << >>, Fits(Head(down), g)
  PROVE  Pair(n, b, g, e, Tail(down), Append(up, Confirm(g)),
              Append(q, Expected(n, g, down)), ack)
BY PairHasMessage

(* m drops the head of its queue, which its game does not wait for or       *)
(* refuses.                                                                 *)
LEMMA PairSkips ==
  ASSUME NEW n, NEW b \in Nat, NEW g \in Nat, NEW e \in Nat,
         NEW down \in Seq(Packet), NEW up \in Seq(Packet), NEW q \in Seq(Held),
         NEW ack \in BOOLEAN, Pair(n, b, g, e, down, up, q, ack), q # << >>,
         MayRefuse \/ Head(q).sender # n \/ Head(q).param # Num(g)
  PROVE  Pair(n, b, g, e, down, up, Tail(q), ack)
<1>1. /\ Len(Tail(q)) = Len(q) - 1 /\ Len(q) \in Nat
      /\ \A i \in 1 .. Len(Tail(q)) : i + 1 \in 1 .. Len(q) /\ Tail(q)[i] = q[i + 1]
      /\ Head(q) = q[1] /\ 1 \in 1 .. Len(q)
  BY TailIs
<1>2. HeldQueue(Tail(q), n, b, g, e) BY <1>1 DEF Pair, HeldQueue
<1>3. \A k : Holds(Tail(q), n, k) => Holds(q, n, k) BY <1>1 DEF Holds
<1>4. ASSUME ~MayRefuse, NEW k, Holds(q, n, k), ~Holds(Tail(q), n, k)
      PROVE  k = g - 1
  <2>1. PICK i \in 1 .. Len(q) : q[i].sender = n /\ q[i].data = k BY <1>4 DEF Holds
  <2>2. i = 1
    <3> SUFFICES ASSUME i # 1 PROVE FALSE OBVIOUS
    <3>1. i - 1 \in 1 .. Len(Tail(q)) /\ i - 1 + 1 = i BY <1>1
    <3>2. Tail(q)[i - 1] = q[i] BY <1>1, <3>1
    <3> QED BY <1>4, <2>1, <3>1, <3>2 DEF Holds
  <2>3. /\ k \in Nat /\ q[1].param = Num(k) /\ g - 1 <= k /\ k <= g
    BY <1>1, <2>1, <2>2 DEF Pair, HeldQueue
  <2>4. k # g BY <1>1, <1>4, <2>1, <2>2, <2>3
  <2> QED BY <2>3, <2>4
<1>5. ~MayRefuse => (Told(up, b, ack) => g = b + 1 \/ Holds(Tail(q), n, b))
  <2>1. b = g - 1 => g = b + 1 OBVIOUS
  <2> QED BY <1>4, <2>1 DEF Pair
<1>6. ~MayRefuse => (b = g + 1 => Holds(Tail(q), n, g))
  <2>1. g # g - 1 OBVIOUS
  <2> QED BY <1>4, <2>1 DEF Pair
<1> QED BY <1>2, <1>3, <1>5, <1>6 DEF Pair

Awaited(h, n, g) == h.sender = n /\ h.param = Num(g)

(* The message the game of m waits for is the one it gets.                  *)
LEMMA PairDelivers ==
  ASSUME NEW n, NEW b \in Nat, NEW g \in Nat, NEW e \in Nat,
         NEW down \in Seq(Packet), NEW up \in Seq(Packet), NEW q \in Seq(Held),
         NEW ack \in BOOLEAN, Pair(n, b, g, e, down, up, q, ack), q # << >>,
         Awaited(Head(q), n, g)
  PROVE  Head(q).data = g /\ g <= b /\ g < e
<1>1. /\ Head(q) = q[1] /\ 1 \in 1 .. Len(q)
  BY TailIs
<1>2. /\ q[1].data \in Nat /\ Num(q[1].data) = Num(g)
      /\ g - 1 <= q[1].data /\ q[1].data <= g /\ q[1].data <= b /\ q[1].data < e
  BY <1>1 DEF Pair, HeldQueue, Awaited
<1>3. q[1].data = g
  <2>1. q[1].data <= g + 2 /\ g <= q[1].data + 2 BY <1>2
  <2> QED BY <1>2, <2>1, SameNumber
<1>4. g <= b /\ g < e BY <1>2, <1>3
<1> QED BY <1>1, <1>3, <1>4

(* The game of m gets it.                                                   *)
LEMMA PairAccepts ==
  ASSUME NEW n, NEW b \in Nat, NEW g \in Nat, NEW e \in Nat,
         NEW down \in Seq(Packet), NEW up \in Seq(Packet), NEW q \in Seq(Held),
         NEW ack \in BOOLEAN, Pair(n, b, g, e, down, up, q, ack), q # << >>,
         Awaited(Head(q), n, g)
  PROVE  Pair(n, b, g + 1, e, down, up, Tail(q), ack)
<1>1. /\ Len(Tail(q)) = Len(q) - 1 /\ Len(q) \in Nat
      /\ \A i \in 1 .. Len(Tail(q)) : i + 1 \in 1 .. Len(q) /\ Tail(q)[i] = q[i + 1]
      /\ Head(q) = q[1] /\ 1 \in 1 .. Len(q)
  BY TailIs
<1>2. q[1].data = g /\ g <= b /\ g < e
  BY <1>1, PairDelivers
<1>3. HeldQueue(Tail(q), n, b, g + 1, e)
  <2> DEFINE r == Tail(q)
             k == g + 1
  <2>0. HeldQueue(q, n, b, g, e) BY DEF Pair
  <2>1. q[1].sender = n /\ q[1].data = g /\ 1 \in 1 .. Len(q) BY <1>1, <1>2 DEF Awaited
  <2>2. \A i \in 1 .. Len(r) : i + 1 \in 1 .. Len(q) /\ 1 < i + 1 /\ r[i] = q[i + 1]
    BY <1>1
  <2>3. k - 1 <= g /\ g <= k OBVIOUS
  <2> HIDE DEF r, k
  <2>4. ASSUME NEW i \in 1 .. Len(r), r[i].sender = n
        PROVE  /\ r[i].data \in Nat /\ r[i].param = Num(r[i].data)
               /\ r[i].data = g /\ r[i].data <= b /\ r[i].data < e
    <3>1. i + 1 \in 1 .. Len(q) /\ 1 < i + 1 /\ r[i] = q[i + 1] BY <2>2
    <3>2. /\ q[i + 1].data \in Nat /\ q[i + 1].param = Num(q[i + 1].data)
          /\ q[i + 1].data <= g /\ q[i + 1].data <= b /\ q[i + 1].data < e
      BY <2>0, <2>4, <3>1 DEF HeldQueue
    <3>3. g <= q[i + 1].data BY <2>0, <2>1, <2>4, <3>1 DEF HeldQueue
    <3> DEFINE x == q[i + 1]
    <3>4. r[i] = x /\ x.data \in Nat /\ x.data <= g /\ g <= x.data BY <3>1, <3>2, <3>3
    <3>5. x.param = Num(x.data) /\ x.data <= b /\ x.data < e BY <3>2
    <3> HIDE DEF x
    <3>6. x.data = g BY <3>4
    <3> QED BY <3>4, <3>5, <3>6
  <2>5. ASSUME NEW i \in 1 .. Len(r), NEW j \in 1 .. Len(r), r[i].sender = n, r[j].sender = n
        PROVE  r[i].data <= r[j].data
    <3>1. r[i].data = g BY <2>4, <2>5
    <3>2. r[j].data = g BY <2>4, <2>5
    <3> QED BY <3>1, <3>2
  <2>6. ASSUME NEW i \in 1 .. Len(r), r[i].sender = n
        PROVE  k - 1 <= r[i].data /\ r[i].data <= k
    <3>1. r[i].data = g BY <2>4, <2>6
    <3> QED BY <2>3, <3>1
  <2>7. HeldQueue(r, n, b, k, e) BY <2>4, <2>5, <2>6 DEF HeldQueue
  <2> QED BY <2>7 DEF r, k
<1>4. \A k : Holds(Tail(q), n, k) => Holds(q, n, k) BY <1>1 DEF Holds
<1>5. g = b => Holds(q, n, b) BY <1>1, <1>2 DEF Holds, Awaited
<1>6. g + 1 = b + 1 \/ Holds(Tail(q), n, b) \/ Told(up, b, ack)
        => g + 1 >= b /\ OnlyHead(down, b)
  <2>1. g + 1 = b + 1 => g = b OBVIOUS
  <2>2. b <= g + 1 BY DEF Pair
  <2> QED BY <1>4, <1>5, <2>1, <2>2 DEF Pair
<1>7. Holds(q, n, b) => g + 1 = b + 1
  <2>1. Holds(q, n, b) => b <= g BY DEF Pair, HeldQueue, Awaited, Holds
  <2> QED BY <1>2, <2>1
<1>8. g # b + 1 /\ b # g + 1 + 1 BY <1>2 DEF Pair
<1>9. ~MayRefuse => (Told(up, b, ack) => g + 1 = b + 1 \/ Holds(Tail(q), n, b))
  BY <1>7, <1>8 DEF Pair
<1>10. g + 1 <= b + 1 /\ b <= g + 1 + 1 /\ DataLane(down, b, e) /\ AckLane(up, b)
       /\ (ack => NoneBefore(up, b))
  BY <1>2 DEF Pair
<1> QED
  BY <1>3, <1>6, <1>8, <1>9, <1>10, Zenon DEF Pair
-----------------------------------------------------------------------------
(* The pairs of all consoles, with the lanes w and the receive queues r. *)
PairOn(x, y, w, r) ==
  Pair(x, Base(x), Len(got[y][x]), emitted[x], w[x][y], w[y][x], r[y], y \in acked[x])

AllOn(w, r) == \A x \in Console : \A y \in Console \ {x} : PairOn(x, y, w, r)

(* The quantities of a pair of consoles are numbers and queues.             *)
LEMMA Sizes ==
  ASSUME OrderInv, NEW x \in Console, NEW y \in Console
  PROVE  /\ Base(x) \in Nat /\ Len(got[y][x]) \in Nat /\ emitted[x] \in Nat
         /\ wire[x][y] \in Seq(Packet) /\ pendingRecv[y] \in Seq(Held)
         /\ Len(pendingSend[x]) \in Nat /\ pendingSend[x] \in Seq(Data)
         /\ wire \in Lanes
<1>1. TypeOK /\ InTurn(x) BY DEF OrderInv, TypeInv
<1>2. /\ got[y][x] \in Seq(Nat) /\ pendingSend[x] \in Seq(Data) /\ emitted[x] \in Nat
      /\ wire[x][y] \in Seq(Packet) /\ pendingRecv[y] \in Seq(Held) /\ wire \in Lanes
  BY <1>1 DEF TypeOK, Packet, Lanes
<1>3. Len(got[y][x]) \in Nat /\ Len(pendingSend[x]) \in Nat BY <1>2, LenProperties
<1>4. Base(x) \in Nat BY <1>1, <1>2, <1>3 DEF Base, InTurn
<1> QED BY <1>2, <1>3, <1>4

(* The invariant, read for the lanes and queues as they are.                *)
LEMMA OnNow == ASSUME OrderInv PROVE AllOn(wire, pendingRecv)
BY DEF OrderInv, Linked, AllOn, PairOn

(* The lanes once a packet is taken, or an acknowledgement sent. *)
LEMMA TakenLanes ==
  ASSUME wire \in Lanes, NEW n \in Console, NEW m \in Console, NEW x \in Console,
         NEW y \in Console
  PROVE  Taken(n, m)[x][y] = IF x = n /\ y = m THEN Tail(wire[n][m]) ELSE wire[x][y]
BY DEF Taken, Lanes

(* An acknowledgement changes one lane, or none.                            *)
LEMMA AcksLanes ==
  ASSUME NEW w \in Lanes, NEW n \in Console, NEW m \in Console, NEW x \in Console,
         NEW y \in Console, NEW s \in SeqNo
  PROVE  \/ Acks(w, m, n, s)[x][y] = w[x][y]
         \/ /\ x = m /\ y = n
            /\ Acks(w, m, n, s)[x][y] = Append(w[x][y], [kind |-> "ack", param |-> s])
BY DEF Acks, Sent, Lanes

(* Losing the head of any lane keeps every pair as it is.                   *)
LEMMA TakenOn ==
  ASSUME OrderInv, NEW n \in Console, NEW m \in Console \ {n}, wire[n][m] # << >>
  PROVE  AllOn(Taken(n, m), pendingRecv)
<1> SUFFICES ASSUME NEW x \in Console, NEW y \in Console \ {x}
             PROVE  PairOn(x, y, Taken(n, m), pendingRecv)
  BY DEF AllOn
<1> DEFINE b == Base(x)         g == Len(got[y][x])  e == emitted[x]
           down == wire[x][y]   up == wire[y][x]
           q == pendingRecv[y]  ack == y \in acked[x]
<1>1. Pair(x, b, g, e, down, up, q, ack) BY OnNow DEF AllOn, PairOn
<1>2. /\ b \in Nat /\ g \in Nat /\ e \in Nat
      /\ down \in Seq(Packet) /\ up \in Seq(Packet) /\ q \in Seq(Held) /\ ack \in BOOLEAN
      /\ wire \in Lanes
  BY Sizes
<1>3. CASE x = n /\ y = m
  <2>1. Taken(n, m)[x][y] = Tail(down) /\ Taken(n, m)[y][x] = up /\ down # << >>
    BY <1>2, <1>3, TakenLanes
  <2> HIDE DEF b, g, e, down, up, q, ack
  <2>2. Pair(x, b, g, e, Tail(down), up, q, ack) BY <1>1, <1>2, <2>1, PairTakesDown
  <2> QED BY <2>1, <2>2 DEF PairOn, b, g, e, q, ack
<1>4. CASE x = m /\ y = n
  <2>1. Taken(n, m)[x][y] = down /\ Taken(n, m)[y][x] = Tail(up) /\ up # << >>
    BY <1>2, <1>4, TakenLanes
  <2> HIDE DEF b, g, e, down, up, q, ack
  <2>2. Pair(x, b, g, e, down, Tail(up), q, ack) BY <1>1, <1>2, <2>1, PairTakesUp
  <2> QED BY <2>1, <2>2 DEF PairOn, b, g, e, q, ack
<1>5. CASE ~(x = n /\ y = m) /\ ~(x = m /\ y = n)
  <2>1. Taken(n, m)[x][y] = down /\ Taken(n, m)[y][x] = up
    BY <1>2, <1>5, TakenLanes
  <2> QED BY <1>1, <2>1 DEF PairOn
<1> QED BY <1>3, <1>4, <1>5

(* m may always say which message it expects of n. *)
LEMMA AcksOn ==
  ASSUME OrderInv, NEW w \in Lanes, NEW r \in [Console -> Seq(Held)], AllOn(w, r),
         NEW n \in Console, NEW m \in Console \ {n}
  PROVE  AllOn(Acks(w, m, n, seq[m][n]), r)
<1> SUFFICES ASSUME NEW x \in Console, NEW y \in Console \ {x}
             PROVE  PairOn(x, y, Acks(w, m, n, seq[m][n]), r)
  BY DEF AllOn
<1> DEFINE b == Base(x)   g == Len(got[y][x])  e == emitted[x]
           down == w[x][y]   up == w[y][x]
           q == r[y]         ack == y \in acked[x]
           a == Acks(w, m, n, seq[m][n])
           p == [kind |-> "ack", param |-> seq[m][n]]
<1>1. /\ b \in Nat /\ g \in Nat /\ e \in Nat
      /\ down \in Seq(Packet) /\ up \in Seq(Packet) /\ q \in Seq(Held) /\ ack \in BOOLEAN
  BY Sizes DEF Lanes
<1>2. Pair(x, b, g, e, down, up, q, ack) BY DEF AllOn, PairOn
<1>3. seq[m][n] \in SeqNo /\ seq[m][n] = Num(Len(got[m][n]))
  BY DEF OrderInv, TypeInv, TypeOK, Linked
<1>4. p \in Packet /\ p.kind = "ack" /\ p.param = Num(Len(got[m][n]))
  BY <1>3 DEF Packet, Ack
<1>5. /\ a[x][y] = down \/ (x = m /\ y = n /\ a[x][y] = Append(down, p))
      /\ a[y][x] = up \/ (y = m /\ x = n /\ a[y][x] = Append(up, p))
  BY <1>3, AcksLanes
<1>6. CASE a[x][y] = down /\ a[y][x] = up
  BY <1>2, <1>6 DEF PairOn
<1>7. CASE x = m /\ y = n /\ a[x][y] = Append(down, p)
  <2>1. a[y][x] = up BY <1>5, <1>7
  <2> HIDE DEF b, g, e, down, up, q, ack, p, a
  <2>2. p.kind # "data" BY <1>4
  <2>3. Pair(x, b, g, e, Append(down, p), up, q, ack) BY <1>1, <1>2, <1>4, <2>2, PairSends
  <2> QED BY <1>7, <2>1, <2>3 DEF PairOn, b, g, e, q, ack, a
<1>8. CASE y = m /\ x = n /\ a[y][x] = Append(up, p)
  <2>1. a[x][y] = down BY <1>5, <1>8
  <2>2. p.param = Num(g) BY <1>4, <1>8
  <2> HIDE DEF b, g, e, down, up, q, ack, p, a
  <2>3. Pair(x, b, g, e, down, Append(up, p), q, ack) BY <1>1, <1>2, <1>4, <2>2, PairExpects
  <2> QED BY <1>8, <2>1, <2>3 DEF PairOn, b, g, e, q, ack, a
<1> HIDE DEF down, up, a, p
<1> QED BY <1>5, <1>6, <1>7, <1>8

(* Steps that only move packets and received messages.                      *)
LEMMA SameStreams ==
  ASSUME OrderInv, TypeInv', AllOn(wire', pendingRecv'), \A x \in Console : NotOwn(x)',
         UNCHANGED <<emitted, pendingSend, selfSeq, acked, seq, got>>
  PROVE  OrderInv'
<1>1. \A x \in Console : InTurn(x)' BY DEF OrderInv, InTurn, Base
<1>2. \A x \in Console : \A y \in Console \ {x} : Linked(x, y)'
  BY DEF OrderInv, Linked, AllOn, PairOn, Base
<1> QED BY <1>1, <1>2 DEF OrderInv
-----------------------------------------------------------------------------
(* Every action keeps the pairs. *)

(* SioEmitData: a message joins the send queue.                             *)
LEMMA OrderEmit == ASSUME OrderInv, NEW n \in Console, Emit(n) PROVE OrderInv'
<1> DEFINE d == [kind |-> "data", param |-> Num(emitted[n]), data |-> emitted[n]]
<1>1. TypeInv' BY TypeSend DEF OrderInv
<1>2. TypeOK BY DEF OrderInv, TypeInv
<1>3. /\ emitted' = [emitted EXCEPT ![n] = @ + 1]
      /\ pendingSend' = [pendingSend EXCEPT ![n] = Append(@, d)]
      /\ UNCHANGED <<selfSeq, awaiting, acked, tries, pendingRecv, seq, wire, failed, stopped, got>>
  BY DEF Emit, Num
<1>4. emitted[n] \in Nat /\ pendingSend[n] \in Seq(Data) /\ Base(n) \in Nat
      /\ Len(pendingSend[n]) \in Nat /\ emitted[n] = Base(n) + Len(pendingSend[n])
  BY Sizes DEF Base
<1>5. d \in Data BY <1>4, NumFacts DEF Data
<1> HIDE DEF d
<1>6. /\ Len(pendingSend'[n]) = Len(pendingSend[n]) + 1
      /\ \A i \in 1 .. Len(pendingSend[n]) : pendingSend'[n][i] = pendingSend[n][i]
      /\ pendingSend'[n][Len(pendingSend[n]) + 1] = d
      /\ \A i \in 1 .. Len(pendingSend'[n]) :
           i \in 1 .. Len(pendingSend[n]) \/ i = Len(pendingSend[n]) + 1
      /\ emitted'[n] = emitted[n] + 1
      /\ \A x \in Console \ {n} : pendingSend'[x] = pendingSend[x] /\ emitted'[x] = emitted[x]
  <2> DEFINE s == pendingSend[n]
  <2>1. /\ pendingSend'[n] = Append(s, d) /\ emitted'[n] = emitted[n] + 1
        /\ \A x \in Console \ {n} : pendingSend'[x] = pendingSend[x] /\ emitted'[x] = emitted[x]
    BY <1>2, <1>3 DEF TypeOK
  <2>2. s \in Seq(Data) BY <1>4
  <2> HIDE DEF s
  <2>3. /\ Len(Append(s, d)) = Len(s) + 1
        /\ \A i \in 1 .. Len(s) : Append(s, d)[i] = s[i]
        /\ Append(s, d)[Len(s) + 1] = d
        /\ \A i \in 1 .. Len(Append(s, d)) : i \in 1 .. Len(s) \/ i = Len(s) + 1
    BY <1>5, <2>2, AppendIs
  <2> QED BY <2>1, <2>3 DEF s
<1>7. \A x \in Console : Base(x)' = Base(x)
  <2>1. emitted'[n] - Len(pendingSend'[n]) = emitted[n] - Len(pendingSend[n])
    <3>1. emitted[n] + 1 - (Len(pendingSend[n]) + 1) = emitted[n] - Len(pendingSend[n])
      BY <1>4
    <3>2. emitted'[n] = emitted[n] + 1 /\ Len(pendingSend'[n]) = Len(pendingSend[n]) + 1
      BY <1>6
    <3> QED BY <1>4, <3>1, <3>2
  <2>2. Base(n)' = Base(n) BY <2>1 DEF Base
  <2>3. \A x \in Console \ {n} : Base(x)' = Base(x) BY <1>6 DEF Base
  <2> QED BY <2>2, <2>3
<1>8. ASSUME NEW x \in Console PROVE InTurn(x)'
  <2>0. InTurn(x) BY DEF OrderInv
  <2>1. CASE x # n BY <1>3, <1>6, <1>7, <2>0, <2>1 DEF InTurn
  <2>2. CASE x = n
    <3>1. Base(n) + (Len(pendingSend[n]) + 1) - 1 = emitted[n] BY <1>4
    <3>2. pendingSend'[n][Len(pendingSend[n]) + 1] =
            [kind |-> "data", param |-> Num(Base(n) + (Len(pendingSend[n]) + 1) - 1),
             data |-> Base(n) + (Len(pendingSend[n]) + 1) - 1]
      BY <1>6, <3>1 DEF d
    <3> QED BY <1>3, <1>6, <1>7, <2>0, <2>2, <3>2 DEF InTurn
  <2> QED BY <2>1, <2>2
<1>9. ASSUME NEW x \in Console, NEW y \in Console \ {x} PROVE Linked(x, y)'
  <2> DEFINE b == Base(x)         g == Len(got[y][x])  e == emitted[x]
             down == wire[x][y]   up == wire[y][x]
             q == pendingRecv[y]  ack == y \in acked[x]
  <2>1. Pair(x, b, g, e, down, up, q, ack) /\ seq[y][x] = Num(g)
    BY DEF OrderInv, Linked
  <2>2. /\ b \in Nat /\ g \in Nat /\ e \in Nat
        /\ down \in Seq(Packet) /\ up \in Seq(Packet) /\ q \in Seq(Held) /\ ack \in BOOLEAN
    BY Sizes
  <2>3. emitted'[x] = e \/ emitted'[x] = e + 1 BY <1>6
  <2> HIDE DEF b, g, e, down, up, q, ack
  <2>4. Pair(x, b, g, e + 1, down, up, q, ack) BY <2>1, <2>2, PairEmits
  <2>5. Pair(x, b, g, emitted'[x], down, up, q, ack) BY <2>1, <2>3, <2>4
  <2> QED BY <1>3, <1>7, <2>1, <2>5 DEF Linked, b, g, e, down, up, q, ack
<1>10. \A x \in Console : NotOwn(x)' BY <1>3 DEF OrderInv, NotOwn
<1> QED BY <1>1, <1>8, <1>9, <1>10 DEF OrderInv

(* SioVsync_Loop sends the pending message again.                           *)
LEMMA OrderResend == ASSUME OrderInv, NEW n \in Console, Resend(n) PROVE OrderInv'
<1> DEFINE h == Head(pendingSend[n])
<1>1. TypeInv' BY TypeSend DEF OrderInv
<1>2. /\ UNCHANGED <<emitted, pendingSend, selfSeq, acked, pendingRecv, seq, got>>
      /\ pendingSend[n] # << >>
  BY DEF Resend
<1>3. h = [kind |-> "data", param |-> Num(Base(n)), data |-> Base(n)] /\ h \in Packet
      /\ Base(n) < emitted[n]
  <2>1. /\ h = pendingSend[n][1] /\ 1 \in 1 .. Len(pendingSend[n])
        /\ h \in Data /\ Len(pendingSend[n]) >= 1
    BY <1>2, Sizes, TailIs
  <2>2. Base(n) \in Nat /\ emitted[n] \in Nat /\ Len(pendingSend[n]) \in Nat
        /\ Base(n) + 1 - 1 = Base(n)
    BY Sizes
  <2>3. h = [kind |-> "data", param |-> Num(Base(n)), data |-> Base(n)]
    BY <2>1, <2>2 DEF OrderInv, InTurn
  <2>4. Base(n) < emitted[n] BY <2>1, <2>2 DEF Base
  <2> QED BY <2>1, <2>3, <2>4 DEF Packet
<1>4. \A x, y \in Console :
        wire'[x][y] = wire[x][y] \/ (x = n /\ wire'[x][y] = Append(wire[x][y], h))
  BY DEF Resend, OrderInv, TypeInv, TypeOK
<1> HIDE DEF h
<1>5. ASSUME NEW x \in Console, NEW y \in Console \ {x} PROVE PairOn(x, y, wire', pendingRecv')
  <2> DEFINE b == Base(x)         g == Len(got[y][x])  e == emitted[x]
             down == wire[x][y]   up == wire[y][x]
             q == pendingRecv[y]  ack == y \in acked[x]
  <2>1. Pair(x, b, g, e, down, up, q, ack) BY DEF OrderInv, Linked
  <2>2. /\ b \in Nat /\ g \in Nat /\ e \in Nat
        /\ down \in Seq(Packet) /\ up \in Seq(Packet) /\ q \in Seq(Held) /\ ack \in BOOLEAN
    BY Sizes
  <2>3. CASE wire'[x][y] = down /\ wire'[y][x] = up
    BY <1>2, <2>1, <2>3 DEF PairOn
  <2>4. CASE x = n /\ wire'[x][y] = Append(down, h)
    <3>1. wire'[y][x] = up BY <1>4, <2>4
    <3>2. h.data = b /\ h.param = Num(b) /\ b < e BY <1>3, <2>4
    <3> HIDE DEF b, g, e, down, up, q, ack
    <3>3. Pair(x, b, g, e, Append(down, h), up, q, ack)
      BY <1>3, <2>1, <2>2, <3>2, PairSends
    <3> QED BY <1>2, <2>4, <3>1, <3>3 DEF PairOn, b, g, e, q, ack
  <2>5. CASE y = n /\ wire'[y][x] = Append(up, h)
    <3>1. wire'[x][y] = down BY <1>4, <2>5
    <3>2. h.kind = "data" BY <1>3
    <3> HIDE DEF b, g, e, down, up, q, ack
    <3>3. Pair(x, b, g, e, down, Append(up, h), q, ack)
      BY <1>3, <2>1, <2>2, <3>2, PairPasses
    <3> QED BY <1>2, <2>5, <3>1, <3>3 DEF PairOn, b, g, e, q, ack
  <2> QED BY <1>4, <2>3, <2>4, <2>5
<1>6. \A x \in Console : NotOwn(x)' BY <1>2 DEF OrderInv, NotOwn
<1>7. AllOn(wire', pendingRecv') BY <1>5 DEF AllOn
<1> QED BY <1>1, <1>2, <1>6, <1>7, SameStreams

(* SioVsync_Loop gives up, or the serial interrupts stop.                   *)
LEMMA OrderGiveUp ==
  ASSUME OrderInv, NEW n \in Console, GiveUp(n) \/ Unplug(n) PROVE OrderInv'
<1>1. TypeInv' BY TypeSend DEF OrderInv
<1>2. UNCHANGED <<emitted, pendingSend, selfSeq, acked, pendingRecv, seq, got, wire>>
  BY DEF GiveUp, Unplug
<1>3. AllOn(wire', pendingRecv') BY <1>2, OnNow
<1>4. \A x \in Console : NotOwn(x)' BY <1>2 DEF OrderInv, NotOwn
<1> QED BY <1>1, <1>2, <1>3, <1>4, SameStreams

(* A packet is lost.                                                        *)
LEMMA OrderLose ==
  ASSUME OrderInv, NEW n \in Console, NEW m \in Console \ {n}, Lose(n, m) PROVE OrderInv'
<1>1. TypeInv' BY TypeTake DEF OrderInv
<1>2. /\ UNCHANGED <<emitted, pendingSend, selfSeq, acked, pendingRecv, seq, got>>
      /\ wire[n][m] # << >> /\ wire' = Taken(n, m)
  BY DEF Lose
<1>3. AllOn(wire', pendingRecv') BY <1>2, TakenOn
<1>4. \A x \in Console : NotOwn(x)' BY <1>2 DEF OrderInv, NotOwn
<1> QED BY <1>1, <1>2, <1>3, <1>4, SameStreams

(* SioMain_Loop counts an acknowledgement; the last one takes the message off.*)
LEMMA OrderTakeAck ==
  ASSUME OrderInv, NEW n \in Console, NEW m \in Console \ {n}, TakeAck(n, m)
  PROVE  OrderInv'
<1> DEFINE k   == Head(wire[m][n]).param
           all == acked[n] \cup {n, m}
<1>1. TypeInv' BY TypeTake DEF OrderInv
<1>2. /\ UNCHANGED <<emitted, pendingRecv, seq, failed, got>>
      /\ wire[m][n] # << >> /\ wire' = Taken(m, n) /\ Head(wire[m][n]).kind = "ack"
  BY DEF TakeAck
<1>3. AllOn(wire', pendingRecv') BY <1>2, TakenOn
<1>4. \A x \in Console : NotOwn(x)' BY <1>2 DEF OrderInv, NotOwn
<1>5. TypeOK BY DEF OrderInv, TypeInv
<1>6. AckCounts(n, k) => awaiting[n] /\ IsAck(Head(wire[m][n]), Base(n) + 1)
  <2>1. selfSeq[n] = Num(Base(n)) /\ Base(n) \in Nat
    BY Sizes DEF OrderInv, InTurn
  <2>2. Succ(Num(Base(n))) = Num(Base(n) + 1) BY <2>1, NumFacts
  <2> QED BY <1>2, <2>1, <2>2 DEF AckCounts, IsAck
(* The pair of n and m once n has heard. *)
<1>7. AckCounts(n, k) =>
        Pair(n, Base(n), Len(got[m][n]), emitted[n], wire'[n][m], wire'[m][n],
             pendingRecv[m], TRUE)
  <2> DEFINE b == Base(n)         g == Len(got[m][n])  e == emitted[n]
             down == wire[n][m]   up == wire[m][n]
             q == pendingRecv[m]  ack == m \in acked[n]
  <2>1. Pair(n, b, g, e, down, up, q, ack) BY DEF OrderInv, Linked
  <2>2. /\ b \in Nat /\ g \in Nat /\ e \in Nat
        /\ down \in Seq(Packet) /\ up \in Seq(Packet) /\ q \in Seq(Held) /\ ack \in BOOLEAN
        /\ wire \in Lanes
    BY Sizes
  <2>3. wire'[n][m] = down /\ wire'[m][n] = Tail(up) /\ up # << >>
    BY <1>2, <2>2, TakenLanes
  <2>4. AckCounts(n, k) => IsAck(Head(up), b + 1) BY <1>6
  <2> HIDE DEF b, g, e, down, up, q, ack
  <2>5. AckCounts(n, k) => Pair(n, b, g, e, down, Tail(up), q, TRUE)
    BY <2>1, <2>2, <2>3, <2>4, PairHears
  <2> QED BY <2>3, <2>5 DEF b, g, e, q
<1>8. CASE ~AckCounts(n, k)
  <2>1. UNCHANGED <<selfSeq, pendingSend, acked>> BY <1>8 DEF TakeAck
  <2> QED BY <1>1, <1>2, <1>3, <1>4, <2>1, SameStreams
<1>9. CASE AckCounts(n, k) /\ ~Everybody(all)
  <2>1. /\ acked' = [acked EXCEPT ![n] = all]
        /\ UNCHANGED <<selfSeq, pendingSend>>
    BY <1>9 DEF TakeAck
  <2>2. \A x \in Console : InTurn(x)' BY <1>2, <2>1 DEF OrderInv, InTurn, Base
  <2>3. ASSUME NEW x \in Console, NEW y \in Console \ {x} PROVE Linked(x, y)'
    <3>1. PairOn(x, y, wire', pendingRecv') BY <1>3 DEF AllOn
    <3>2. seq'[y][x] = Num(Len(got'[y][x])) /\ Base(x)' = Base(x)
      BY <1>2, <2>1 DEF OrderInv, Linked, Base
    <3>3. CASE x = n /\ y = m
      <4>1. m \in acked'[n] BY <1>5, <2>1 DEF TypeOK
      <4>2. (m \in acked'[n]) = TRUE BY <4>1
      <4> QED BY <1>2, <1>7, <1>9, <3>2, <3>3, <4>2 DEF Linked
    <3>4. CASE ~(x = n /\ y = m)
      <4>1. (y \in acked'[x]) = (y \in acked[x])
        <5>1. CASE x # n
          <6>1. acked'[x] = acked[x] BY <1>5, <2>1, <5>1 DEF TypeOK
          <6> QED BY <6>1
        <5>2. CASE x = n
          <6>1. acked'[x] = acked[x] \cup {n, m} BY <1>5, <2>1, <5>2 DEF TypeOK
          <6>2. y # n /\ y # m BY <3>4, <5>2
          <6> QED BY <6>1, <6>2
        <5> QED BY <5>1, <5>2
      <4> QED BY <1>2, <3>1, <3>2, <4>1 DEF Linked, PairOn
    <3> QED BY <3>3, <3>4
  <2> QED BY <1>1, <1>4, <2>2, <2>3 DEF OrderInv
<1>10. CASE AckCounts(n, k) /\ Everybody(all)
  <2>1. /\ selfSeq' = [selfSeq EXCEPT ![n] = Succ(@)]
        /\ pendingSend' = [pendingSend EXCEPT ![n] = Tail(@)]
        /\ acked' = [acked EXCEPT ![n] = {}]
    BY <1>10 DEF TakeAck
  <2>2. pendingSend[n] # << >> /\ pendingSend[n] \in Seq(Data)
    BY <1>6, <1>10, Sizes DEF OrderInv, TypeInv, AwaitsOne
  <2>3. /\ Len(pendingSend[n]) \in Nat /\ Len(pendingSend'[n]) = Len(pendingSend[n]) - 1
        /\ \A i \in 1 .. Len(pendingSend'[n]) :
             i + 1 \in 1 .. Len(pendingSend[n])
             /\ pendingSend'[n][i] = pendingSend[n][i + 1]
        /\ \A x \in Console \ {n} : /\ pendingSend'[x] = pendingSend[x]
                                    /\ selfSeq'[x] = selfSeq[x] /\ acked'[x] = acked[x]
        /\ acked'[n] = {} /\ selfSeq'[n] = Succ(selfSeq[n])
    <3> DEFINE s == pendingSend[n]
    <3>1. /\ pendingSend'[n] = Tail(s) /\ acked'[n] = {} /\ selfSeq'[n] = Succ(selfSeq[n])
          /\ \A x \in Console \ {n} : /\ pendingSend'[x] = pendingSend[x]
                                      /\ selfSeq'[x] = selfSeq[x] /\ acked'[x] = acked[x]
      BY <1>5, <2>1 DEF TypeOK
    <3>2. s \in Seq(Data) /\ s # << >> BY <2>2
    <3> HIDE DEF s
    <3>3. /\ Len(s) \in Nat \ {0} /\ Len(Tail(s)) = Len(s) - 1
          /\ \A i \in 1 .. Len(Tail(s)) : i + 1 \in 1 .. Len(s) /\ Tail(s)[i] = s[i + 1]
      BY <3>2, TailIs
    <3> QED BY <3>1, <3>3 DEF s
  <2>4. /\ Base(n) \in Nat /\ emitted[n] \in Nat /\ Base(n)' = Base(n) + 1
        /\ \A x \in Console \ {n} : Base(x)' = Base(x)
    BY <1>2, <2>3, Sizes DEF Base
  <2>5. ASSUME NEW x \in Console PROVE InTurn(x)'
    <3>0. InTurn(x) BY DEF OrderInv
    <3>1. CASE x # n BY <1>2, <2>3, <2>4, <3>0, <3>1 DEF InTurn
    <3>2. CASE x = n
      <4>1. Base(n)' >= 0 /\ selfSeq'[n] = Num(Base(n)')
        <5>1. selfSeq[n] = Num(Base(n)) BY <3>0, <3>2 DEF InTurn
        <5>2. Succ(Num(Base(n))) = Num(Base(n) + 1) BY <2>4, NumFacts
        <5> QED BY <2>3, <2>4, <5>1, <5>2
      <4>2. ASSUME NEW i \in 1 .. Len(pendingSend'[n])
            PROVE  pendingSend'[n][i] = [kind |-> "data", param |-> Num(Base(n)' + i - 1),
                                         data |-> Base(n)' + i - 1]
        <5>1. Base(n) + (i + 1) - 1 = Base(n)' + i - 1 /\ i + 1 \in 1 .. Len(pendingSend[n])
          BY <2>3, <2>4
        <5>2. pendingSend[n][i + 1] =
                [kind |-> "data", param |-> Num(Base(n) + (i + 1) - 1),
                 data |-> Base(n) + (i + 1) - 1]
          BY <3>0, <3>2, <5>1 DEF InTurn
        <5> QED BY <2>3, <5>1, <5>2
      <4> QED BY <3>2, <4>1, <4>2 DEF InTurn
    <3> QED BY <3>1, <3>2
  <2>6. ASSUME NEW x \in Console, NEW y \in Console \ {x} PROVE Linked(x, y)'
    <3>1. PairOn(x, y, wire', pendingRecv') BY <1>3 DEF AllOn
    <3>2. seq'[y][x] = Num(Len(got'[y][x])) BY <1>2 DEF OrderInv, Linked
    <3>3. CASE x # n
      <4>1. (y \in acked'[x]) = (y \in acked[x]) /\ Base(x)' = Base(x) BY <2>3, <2>4, <3>3
      <4> QED BY <1>2, <3>1, <3>2, <4>1 DEF Linked, PairOn
    <3>4. CASE x = n
      <4> DEFINE b == Base(n)          g == Len(got[y][n])  e == emitted[n]
                 down == wire'[n][y]   up == wire'[y][n]    q == pendingRecv[y]
      <4>1. Pair(n, b, g, e, down, up, q, TRUE)
        <5>1. CASE y = m BY <1>7, <1>10, <5>1
        <5>2. CASE y # m
          <6>1. (y \in acked[n]) = TRUE BY <1>10, <3>4, <5>2 DEF Everybody
          <6> QED BY <1>2, <3>1, <3>4, <6>1 DEF PairOn
        <5> QED BY <5>1, <5>2
      <4>2. /\ b \in Nat /\ g \in Nat /\ e \in Nat /\ q \in Seq(Held)
        BY Sizes
      <4>3. down \in Seq(Packet) /\ up \in Seq(Packet)
        <5>1. wire' \in Lanes BY <1>1 DEF TypeInv, TypeOK, Packet, Lanes
        <5> QED BY <5>1, <3>4 DEF Lanes
      <4>4. (y \in acked'[n]) = FALSE BY <2>3
      <4> HIDE DEF b, g, e, down, up, q
      <4>5. Pair(n, b + 1, g, e, down, up, q, FALSE) BY <4>1, <4>2, <4>3, PairAdvances
      <4> QED BY <1>2, <2>4, <3>2, <3>4, <4>4, <4>5 DEF Linked, b, g, e, down, up, q
    <3> QED BY <3>3, <3>4
  <2> QED BY <1>1, <1>4, <2>5, <2>6 DEF OrderInv
<1> QED BY <1>8, <1>9, <1>10

(* SioMain_Loop queues what it expects and acknowledges what it has.        *)
LEMMA OrderTakeData ==
  ASSUME OrderInv, NEW m \in Console, NEW n \in Console \ {m}, TakeData(m, n)
  PROVE  OrderInv'
<1> DEFINE d == Head(wire[n][m])
           h == [sender |-> n, param |-> d.param, data |-> d.data]
           s == seq[m][n]
<1>1. TypeInv' BY TypeTake DEF OrderInv
<1>2. /\ UNCHANGED <<emitted, pendingSend, selfSeq, acked, seq, got>>
      /\ wire[n][m] # << >> /\ d.kind = "data"
  BY DEF TakeData
<1>3. /\ wire \in Lanes /\ Taken(n, m) \in Lanes /\ d \in Data
      /\ pendingRecv \in [Console -> Seq(Held)] /\ s \in SeqNo
  <2>1. TypeOK BY DEF OrderInv, TypeInv
  <2>2. Taken(n, m) \in Lanes /\ d \in Packet BY <1>2, <2>1, TakenTyped
  <2>3. d \in Data BY <1>2, <2>2 DEF Packet, Ack
  <2>4. pendingRecv \in [Console -> Seq(Held)] /\ s \in SeqNo
    BY <2>1 DEF TypeOK
  <2>5. wire \in Lanes BY <2>1 DEF TypeOK, Lanes, Packet
  <2> HIDE DEF d, s
  <2> QED BY <2>2, <2>3, <2>4, <2>5
<1>4. h \in Held BY <1>3 DEF Data, Held
<1>5. s = Num(Len(got[m][n])) /\ Len(got[m][n]) \in Nat /\ Succ(s) = Num(Len(got[m][n]) + 1)
      /\ Succ(s) \in SeqNo
  <2>1. s = Num(Len(got[m][n])) /\ Len(got[m][n]) \in Nat BY Sizes DEF OrderInv, Linked
  <2> QED BY <1>3, <2>1, NumFacts, SeqFacts
<1>6. AllOn(Taken(n, m), pendingRecv) BY <1>2, TakenOn
<1> HIDE DEF d
<1>7. CASE d.param # s
  <2>1. wire' = Acks(Taken(n, m), m, n, s) /\ pendingRecv' = pendingRecv
    BY <1>7 DEF TakeData, d
  <2>2. AllOn(wire', pendingRecv') BY <1>3, <1>6, <2>1, AcksOn
  <2>3. \A x \in Console : NotOwn(x)' BY <2>1 DEF OrderInv, NotOwn
  <2> QED BY <1>1, <1>2, <2>2, <2>3, SameStreams
<1>8. CASE wire' = Taken(n, m) /\ pendingRecv' = pendingRecv
  <2>1. \A x \in Console : NotOwn(x)' BY <1>8 DEF OrderInv, NotOwn
  <2>2. AllOn(wire', pendingRecv') BY <1>6, <1>8
  <2> QED BY <1>1, <1>2, <2>1, <2>2, SameStreams
<1>9. CASE /\ d.param = s
           /\ pendingRecv' = [pendingRecv EXCEPT ![m] = Append(@, h)]
           /\ wire' = Acks(Taken(n, m), m, n, Succ(s))
  <2> DEFINE p == [kind |-> "ack", param |-> Succ(s)]
  <2>1. p \in Packet /\ p.kind = "ack" /\ p.param = Succ(s) BY <1>5 DEF Packet, Ack
  <2>2. /\ pendingRecv'[m] = Append(pendingRecv[m], h)
        /\ \A x \in Console \ {m} : pendingRecv'[x] = pendingRecv[x]
    BY <1>3, <1>9
  <2>3. \A x, y \in Console :
          \/ wire'[x][y] = Taken(n, m)[x][y]
          \/ x = m /\ y = n /\ wire'[x][y] = Append(Taken(n, m)[x][y], p)
    <3> DEFINE w == Taken(n, m)
               a == Succ(s)
    <3>1. w \in Lanes /\ a \in SeqNo /\ wire' = Acks(w, m, n, a) BY <1>3, <1>5, <1>9
    <3>2. p = [kind |-> "ack", param |-> a] OBVIOUS
    <3> HIDE DEF w, a, p, h, s
    <3>3. \A x, y \in Console :
            \/ wire'[x][y] = w[x][y]
            \/ x = m /\ y = n /\ wire'[x][y] = Append(w[x][y], p)
      BY <3>1, <3>2, AcksLanes
    <3> QED BY <3>3 DEF w
  <2>4. \A x, y \in Console :
          Taken(n, m)[x][y] = IF x = n /\ y = m THEN Tail(wire[n][m]) ELSE wire[x][y]
    BY <1>3, TakenLanes
  <2> HIDE DEF h, p, s
  <2>5. ASSUME NEW x \in Console, NEW y \in Console \ {x}
        PROVE  PairOn(x, y, wire', pendingRecv')
    <3> DEFINE b == Base(x)   g == Len(got[y][x])  e == emitted[x]
               down == wire[x][y]   up == wire[y][x]
               q == pendingRecv[y]  ack == y \in acked[x]
               td == Taken(n, m)[x][y]  tu == Taken(n, m)[y][x]
    <3>0. td \in Seq(Packet) /\ tu \in Seq(Packet) BY <1>3 DEF Lanes
    <3>1. Pair(x, b, g, e, down, up, q, ack) BY DEF OrderInv, Linked
    <3>2. Pair(x, b, g, e, td, tu, q, ack) BY <1>6 DEF AllOn, PairOn
    <3>3. /\ b \in Nat /\ g \in Nat /\ e \in Nat
          /\ down \in Seq(Packet) /\ up \in Seq(Packet) /\ q \in Seq(Held) /\ ack \in BOOLEAN
      BY Sizes
    <3>4. CASE x = n /\ y = m
      <4>1. td = Tail(down) /\ tu = up /\ down # << >> /\ wire'[x][y] = td
        BY <1>2, <2>3, <2>4, <3>4
      <4>2. /\ Head(down).kind = "data" /\ Head(down).param = Num(g)
            /\ h = Expected(x, g, down) /\ p = Confirm(g)
        <5>1. down = wire[n][m] /\ g = Len(got[m][n]) /\ x = n BY <3>4
        <5>2. Head(down).kind = "data" /\ Head(down) = d BY <1>2, <5>1 DEF d
        <5>3. d.param = Num(g) /\ Succ(s) = Num(g + 1) BY <1>5, <1>9, <5>1
        <5> HIDE DEF down, g, d, s
        <5>4. h = Expected(x, g, down)
          <6>1. x = n /\ d.param = Num(g) /\ Head(down).data = d.data BY <5>1, <5>2, <5>3
          <6> QED BY <6>1 DEF h, Expected
        <5>5. p = Confirm(g) BY <5>3 DEF p, Confirm
        <5> QED BY <5>2, <5>3, <5>4, <5>5
      <4>3. wire'[y][x] = up \/ wire'[y][x] = Append(up, p)
        <5>1. tu = up BY <4>1
        <5>2. wire'[y][x] = tu \/ wire'[y][x] = Append(tu, p)
          <6> HIDE DEF b, g, e, down, up, q, ack, td
          <6> QED BY <2>3
        <5> HIDE DEF b, g, e, down, up, q, ack, td, tu
        <5> QED BY <5>1, <5>2
      <4>4. pendingRecv'[y] = Append(q, h) BY <2>2, <3>4
      <4> HIDE DEF b, g, e, down, up, q, ack, td, tu
      <4>5. Fits(Head(down), g) /\ down # << >>
        BY <4>1, <4>2 DEF Fits
      <4>6. Pair(x, b, g, e, Tail(down), up, Append(q, Expected(x, g, down)), ack)
        BY <3>1, <3>3, <4>5, PairQueues
      <4>7. Pair(x, b, g, e, Tail(down), Append(up, Confirm(g)),
                 Append(q, Expected(x, g, down)), ack)
        BY <3>1, <3>3, <4>5, PairConfirms
      <4>8. Pair(x, b, g, e, wire'[x][y], wire'[y][x], pendingRecv'[y], ack)
        BY <4>1, <4>2, <4>3, <4>4, <4>6, <4>7
      <4> QED BY <4>8 DEF PairOn, b, g, e, ack
    <3>5. CASE x = m /\ y = n
      <4>1. pendingRecv'[y] = q /\ wire'[y][x] = tu
            /\ (wire'[x][y] = td \/ wire'[x][y] = Append(td, p))
        BY <2>2, <2>3, <3>5
      <4>2. p.kind # "data" BY <2>1
      <4> HIDE DEF b, g, e, down, up, q, ack, td, tu
      <4>3. Pair(x, b, g, e, Append(td, p), tu, q, ack)
        BY <2>1, <3>0, <3>2, <3>3, <4>2, PairSends
      <4>4. Pair(x, b, g, e, wire'[x][y], wire'[y][x], pendingRecv'[y], ack)
        BY <3>2, <4>1, <4>3
      <4> QED BY <4>4 DEF PairOn, b, g, e, ack
    <3>6. CASE y = m /\ x # n
      <4>1. wire'[x][y] = td /\ wire'[y][x] = tu /\ pendingRecv'[y] = Append(q, h)
        BY <2>2, <2>3, <3>6
      <4>2. h.sender # x BY <3>6 DEF h
      <4> HIDE DEF b, g, e, down, up, q, ack, td, tu
      <4>3. Pair(x, b, g, e, td, tu, Append(q, h), ack)
        BY <1>4, <3>0, <3>2, <3>3, <4>2, PairHoldsOther DEF h
      <4> QED BY <4>1, <4>3 DEF PairOn, b, g, e, ack
    <3>7. CASE y # m /\ ~(x = m /\ y = n)
      <4>1. wire'[x][y] = td /\ wire'[y][x] = tu /\ pendingRecv'[y] = q
        BY <2>2, <2>3, <3>7
      <4> QED BY <3>2, <4>1 DEF PairOn
    <3> HIDE DEF td, tu
    <3> QED BY <3>4, <3>5, <3>6, <3>7
  <2>6. ASSUME NEW x \in Console PROVE NotOwn(x)'
    <3>0. NotOwn(x) BY DEF OrderInv
    <3>1. CASE x # m BY <2>2, <3>0, <3>1 DEF NotOwn
    <3>2. CASE x = m
      <4> DEFINE q == pendingRecv[m]
      <4>1. q \in Seq(Held) /\ h \in Held /\ h.sender # m BY <1>3, <1>4 DEF h
      <4>2. \A i \in 1 .. Len(q) : q[i].sender # m BY <3>0, <3>2 DEF NotOwn
      <4> HIDE DEF q
      <4>3. \A i \in 1 .. Len(Append(q, h)) : Append(q, h)[i].sender # m
        BY <4>1, <4>2, AppendIs
      <4> QED BY <2>2, <3>2, <4>3 DEF NotOwn, q
    <3> QED BY <3>1, <3>2
  <2>7. AllOn(wire', pendingRecv') BY <2>5 DEF AllOn
  <2> QED BY <1>1, <1>2, <2>6, <2>7, SameStreams
<1> HIDE DEF h, s
<1> QED BY <1>7, <1>8, <1>9 DEF TakeData, d, h, s

(* SioReceiveData drops an entry it does not wait for or its caller refuses.*)
LEMMA OrderDrop ==
  ASSUME OrderInv, NEW m \in Console, Skip(m) \/ Unexpected(m)
  PROVE  OrderInv'
<1> DEFINE h == FirstHeld(m)
           n == h.sender
           q == pendingRecv[m]
           r == [pendingRecv EXCEPT ![m] = Tail(@)]
<1>1. TypeInv' BY TypeReceive DEF OrderInv
<1>2. /\ UNCHANGED <<emitted, pendingSend, selfSeq, acked, seq, got>>
      /\ q # << >> /\ pendingRecv' = r
      /\ MayRefuse \/ h.param # seq[m][n]
  BY DEF Skip, Unexpected, IsFresh
<1>3. pendingRecv \in [Console -> Seq(Held)] /\ q \in Seq(Held) /\ wire \in Lanes
  BY Sizes DEF OrderInv, TypeInv, TypeOK
<1>4. /\ h = q[1] /\ h \in Held /\ Len(q) \in Nat \ {0}
      /\ \A i \in 1 .. Len(Tail(q)) : i + 1 \in 1 .. Len(q) /\ Tail(q)[i] = q[i + 1]
      /\ Tail(q) \in Seq(Held) /\ h = Head(q)
  BY <1>2, <1>3, TailIs DEF FirstHeld
<1>5. n \in Console \ {m}
  BY <1>4 DEF OrderInv, NotOwn, Held
<1>6. r \in [Console -> Seq(Held)] /\ r[m] = Tail(q)
      /\ \A x \in Console \ {m} : r[x] = pendingRecv[x]
  BY <1>3, <1>4
<1> HIDE DEF r
<1>7. AllOn(wire, r)
  <2> SUFFICES ASSUME NEW x \in Console, NEW y \in Console \ {x} PROVE PairOn(x, y, wire, r)
    BY DEF AllOn
  <2>1. PairOn(x, y, wire, pendingRecv) BY OnNow DEF AllOn
  <2>2. CASE y # m BY <1>6, <2>1, <2>2 DEF PairOn
  <2>3. CASE y = m
    <3> DEFINE b == Base(x)         g == Len(got[m][x])  e == emitted[x]
               down == wire[x][m]   up == wire[m][x]     ack == m \in acked[x]
    <3>1. Pair(x, b, g, e, down, up, q, ack) BY <2>1, <2>3 DEF PairOn
    <3>2. /\ b \in Nat /\ g \in Nat /\ e \in Nat /\ ack \in BOOLEAN
          /\ down \in Seq(Packet) /\ up \in Seq(Packet)
      BY Sizes
    <3>3. MayRefuse \/ Head(q).sender # x \/ Head(q).param # Num(g)
      <4>1. n = x => seq[m][n] = Num(g) BY <2>3 DEF OrderInv, Linked
      <4> QED BY <1>2, <1>4, <4>1
    <3> HIDE DEF b, g, e, down, up, q, ack, h
    <3>4. Pair(x, b, g, e, down, up, Tail(q), ack)
      BY <1>2, <1>3, <3>1, <3>2, <3>3, PairSkips
    <3> QED BY <1>6, <2>3, <3>4 DEF PairOn, b, g, e, down, up, ack, q
  <2> QED BY <2>2, <2>3
<1>8. AllOn(wire', pendingRecv')
  <2>1. wire' = wire \/ wire' = Acks(wire, m, n, seq[m][n])
    BY DEF Skip, Unexpected
  <2> HIDE DEF n
  <2>2. AllOn(Acks(wire, m, n, seq[m][n]), r) BY <1>3, <1>5, <1>6, <1>7, AcksOn
  <2> QED BY <1>2, <1>7, <2>1, <2>2
<1>9. ASSUME NEW x \in Console PROVE NotOwn(x)'
  <2>1. NotOwn(x) BY DEF OrderInv
  <2>2. CASE x # m BY <1>2, <1>6, <2>1, <2>2 DEF NotOwn
  <2>3. CASE x = m
    <3>1. pendingRecv'[m] = Tail(q) BY <1>2, <1>6
    <3>2. \A i \in 1 .. Len(q) : q[i].sender # m BY <2>1, <2>3 DEF NotOwn
    <3>3. \A i \in 1 .. Len(Tail(q)) : Tail(q)[i].sender # m BY <1>4, <3>2
    <3> QED BY <2>3, <3>1, <3>3 DEF NotOwn
  <2> QED BY <2>2, <2>3
<1> QED BY <1>1, <1>2, <1>8, <1>9, SameStreams

(* SioReceiveData returns the message it waits for, and acknowledges it.    *)
LEMMA OrderAccept ==
  ASSUME OrderInv, NEW m \in Console, Accept(m)
  PROVE  /\ OrderInv'
         /\ \E n \in Console \ {m} :
              /\ Len(got[m][n]) < emitted[n]
              /\ got' = [got EXCEPT ![m][n] = Append(@, Len(@))]
<1> DEFINE h == FirstHeld(m)
           n == h.sender
           q == pendingRecv[m]
           s == Len(got[m][n])
           p == [kind |-> "ack", param |-> Num(s + 1)]
<1>1. TypeInv' /\ TypeOK BY TypeReceive DEF OrderInv, TypeInv
<1>2. /\ UNCHANGED <<emitted, pendingSend, selfSeq, acked>>
      /\ q # << >> /\ pendingRecv' = [pendingRecv EXCEPT ![m] = Tail(@)]
      /\ h.param = seq[m][n]
      /\ seq' = [seq EXCEPT ![m][n] = Succ(@)]
      /\ got' = [got EXCEPT ![m][n] = Append(@, h.data)]
      /\ wire' = Acks(wire, m, n, Succ(seq[m][n]))
  BY DEF Accept, IsFresh
<1>3. q \in Seq(Held) /\ wire \in Lanes
  BY Sizes DEF OrderInv, TypeInv, TypeOK
<1>4. /\ h = q[1] /\ h \in Held /\ Len(q) \in Nat \ {0}
      /\ \A i \in 1 .. Len(Tail(q)) : i + 1 \in 1 .. Len(q) /\ Tail(q)[i] = q[i + 1]
      /\ Tail(q) \in Seq(Held) /\ h = Head(q)
  BY <1>2, <1>3, TailIs DEF FirstHeld
<1>5. n \in Console \ {m}
  BY <1>4 DEF OrderInv, NotOwn, Held
<1>6. /\ s \in Nat /\ seq[m][n] = Num(s) /\ Succ(seq[m][n]) = Num(s + 1)
      /\ Num(s + 1) \in SeqNo
  <2>1. s \in Nat BY <1>5, Sizes
  <2>2. seq[m][n] = Num(s) BY <1>5 DEF OrderInv, Linked
  <2>3. Num(s) \in SeqNo /\ Succ(Num(s)) = Num(s + 1) BY <2>1, NumFacts
  <2> QED BY <2>1, <2>2, <2>3, SeqFacts
(* The pair of n and m. *)
<1>7. /\ Pair(n, Base(n), s + 1, emitted[n], wire[n][m], wire[m][n], Tail(q), m \in acked[n])
      /\ h.data = s /\ s < emitted[n]
  <2> DEFINE b == Base(n)         e == emitted[n]
             down == wire[n][m]   up == wire[m][n]  ack == m \in acked[n]
  <2>1. Pair(n, b, s, e, down, up, q, ack) BY <1>5 DEF OrderInv, Linked
  <2>2. /\ b \in Nat /\ s \in Nat /\ e \in Nat /\ ack \in BOOLEAN
        /\ down \in Seq(Packet) /\ up \in Seq(Packet)
    BY <1>5, Sizes
  <2>3. Awaited(Head(q), n, s) BY <1>2, <1>4, <1>6 DEF Awaited
  <2>4. q # << >> /\ q \in Seq(Held) BY <1>2, <1>3
  <2> HIDE DEF b, e, down, up, ack, s, q, h, n, p
  <2>5. Head(q).data = s /\ s < e
    BY <2>1, <2>2, <2>3, <2>4, PairDelivers
  <2>6. Pair(n, b, s + 1, e, down, up, Tail(q), ack)
    BY <2>1, <2>2, <2>3, <2>4, PairAccepts
  <2>7. h = Head(q) BY <1>4 DEF h, q
  <2> QED BY <2>5, <2>6, <2>7 DEF b, e, down, up, ack, q
<1>8. /\ got' = [got EXCEPT ![m][n] = Append(@, Len(@))] /\ s < emitted[n]
      /\ Len(got'[m][n]) = s + 1
      /\ seq'[m][n] = Num(s + 1) /\ pendingRecv'[m] = Tail(q)
      /\ \A x \in Console \ {m} : pendingRecv'[x] = pendingRecv[x]
      /\ \A x, y \in Console : ~(x = n /\ y = m) =>
           got'[y][x] = got[y][x] /\ seq'[y][x] = seq[y][x]
  <2>1. /\ got' = [got EXCEPT ![m][n] = Append(@, Len(@))] /\ s < emitted[n]
        /\ got'[m][n] = Append(got[m][n], s)
    BY <1>1, <1>2, <1>5, <1>7 DEF TypeOK
  <2>2. got[m][n] \in Seq(Nat) BY <1>1, <1>5 DEF TypeOK
  <2>3. Len(got'[m][n]) = s + 1 BY <1>6, <2>1, <2>2, AppendIs
  <2>4. seq'[m][n] = Num(s + 1) BY <1>1, <1>2, <1>5, <1>6 DEF TypeOK
  <2>5. /\ pendingRecv'[m] = Tail(q)
        /\ \A x \in Console \ {m} : pendingRecv'[x] = pendingRecv[x]
    BY <1>1, <1>2 DEF TypeOK
  <2> HIDE DEF h, n
  <2>6. \A x, y \in Console : ~(x = n /\ y = m) =>
           got'[y][x] = got[y][x] /\ seq'[y][x] = seq[y][x]
    BY <1>1, <1>2, <1>5 DEF TypeOK
  <2> QED BY <2>1, <2>3, <2>4, <2>5, <2>6
<1>9. p \in Packet /\ p.kind = "ack" /\ p.param = Num(s + 1) BY <1>6 DEF Packet, Ack
<1>10. \A x, y \in Console :
         \/ wire'[x][y] = wire[x][y]
         \/ x = m /\ y = n /\ wire'[x][y] = Append(wire[x][y], p)
  BY <1>2, <1>3, <1>5, <1>6, AcksLanes
<1> HIDE DEF h, n, p, s
<1>11. ASSUME NEW x \in Console, NEW y \in Console \ {x} PROVE Linked(x, y)'
  <2> DEFINE b == Base(x)         g == Len(got[y][x])  e == emitted[x]
             down == wire[x][y]   up == wire[y][x]
             r == pendingRecv[y]  ack == y \in acked[x]
  <2>1. Pair(x, b, g, e, down, up, r, ack) /\ seq[y][x] = Num(g)
    BY DEF OrderInv, Linked
  <2>2. /\ b \in Nat /\ g \in Nat /\ e \in Nat
        /\ down \in Seq(Packet) /\ up \in Seq(Packet) /\ r \in Seq(Held) /\ ack \in BOOLEAN
    BY Sizes
  <2>3. Base(x)' = b /\ emitted'[x] = e /\ (y \in acked'[x]) = ack BY <1>2 DEF Base
  <2>4. CASE x = n /\ y = m
    <3> DEFINE t == Tail(q)  k == s + 1
    <3>1. Pair(x, b, k, e, down, up, t, ack) BY <1>7, <2>4
    <3>2. wire'[x][y] = down /\ (wire'[y][x] = up \/ wire'[y][x] = Append(up, p))
      BY <1>5, <1>10, <2>4
    <3>3. k \in Nat /\ t \in Seq(Held) /\ p.param = Num(k) BY <1>4, <1>6, <1>9
    <3>4. Len(got'[y][x]) = k /\ seq'[y][x] = Num(k) /\ pendingRecv'[y] = t
      BY <1>8, <2>4
    <3> HIDE DEF b, g, e, down, up, r, ack, t, k, q
    <3>5. Pair(x, b, k, e, down, Append(up, p), t, ack)
      BY <1>9, <2>2, <3>1, <3>3, PairExpects
    <3>6. Pair(x, b, k, e, wire'[x][y], wire'[y][x], t, ack) BY <3>1, <3>2, <3>5
    <3> QED BY <2>3, <3>4, <3>6 DEF Linked, b, e
  <2>5. CASE x = m /\ y = n
    <3>1. wire'[y][x] = up /\ (wire'[x][y] = down \/ wire'[x][y] = Append(down, p))
      BY <1>5, <1>10, <2>5
    <3>2. got'[y][x] = got[y][x] /\ seq'[y][x] = seq[y][x] /\ pendingRecv'[y] = r
      BY <1>5, <1>8, <2>5
    <3>3. p.kind # "data" BY <1>9
    <3> HIDE DEF b, e, down, up, r, ack
    <3>4. Pair(x, b, g, e, Append(down, p), up, r, ack)
      BY <1>9, <2>1, <2>2, <3>3, PairSends
    <3>5. Pair(x, b, g, e, wire'[x][y], wire'[y][x], r, ack) BY <2>1, <3>1, <3>4
    <3> QED BY <2>1, <2>3, <3>2, <3>5 DEF Linked, b, e
  <2>6. CASE y = m /\ x # n
    <3>1. wire'[x][y] = down /\ wire'[y][x] = up BY <1>5, <1>10, <2>6
    <3>2. got'[y][x] = got[y][x] /\ seq'[y][x] = seq[y][x] /\ pendingRecv'[y] = Tail(r)
      BY <1>8, <2>6
    <3>3. r # << >> /\ Head(r).sender # x BY <1>2, <1>4, <2>6 DEF n
    <3> HIDE DEF b, g, e, down, up, r, ack, q
    <3>4. Pair(x, b, g, e, down, up, Tail(r), ack) BY <2>1, <2>2, <3>3, PairSkips
    <3> QED BY <2>1, <2>3, <3>1, <3>2, <3>4 DEF Linked, b, e, g
  <2>7. CASE y # m /\ ~(x = m /\ y = n)
    <3>1. /\ wire'[x][y] = down /\ wire'[y][x] = up /\ pendingRecv'[y] = r
          /\ got'[y][x] = got[y][x] /\ seq'[y][x] = seq[y][x]
      BY <1>8, <1>10, <2>7
    <3> QED BY <2>1, <2>3, <3>1 DEF Linked
  <2> QED BY <2>4, <2>5, <2>6, <2>7
<1>12. ASSUME NEW x \in Console PROVE NotOwn(x)'
  <2>1. NotOwn(x) BY DEF OrderInv
  <2>2. CASE x # m BY <1>8, <2>1, <2>2 DEF NotOwn
  <2>3. CASE x = m
    <3>1. \A i \in 1 .. Len(q) : q[i].sender # m BY <2>1, <2>3 DEF NotOwn
    <3>2. \A i \in 1 .. Len(Tail(q)) : Tail(q)[i].sender # m BY <1>4, <3>1
    <3> QED BY <1>8, <2>3, <3>2 DEF NotOwn
  <2> QED BY <2>2, <2>3
<1>13. \A x \in Console : InTurn(x)' BY <1>2 DEF OrderInv, InTurn, Base
<1>14. OrderInv' BY <1>1, <1>11, <1>12, <1>13 DEF OrderInv
<1> QED BY <1>5, <1>8, <1>14 DEF s
-----------------------------------------------------------------------------
(* At first nothing is emitted, held or on its way.                         *)
LEMMA OrderInit == Init => OrderInv
<1> SUFFICES ASSUME Init PROVE OrderInv OBVIOUS
<1>1. TypeInv BY TypeInit
<1>2. Num(0) = 0
  <2>1. 0 \in 0 .. SeqMod - 1 /\ 0 = SeqMod * 0 + 0 BY LinkAssumption
  <2>2. Num(SeqMod * 0 + 0) = 0 BY <2>1, Remainder
  <2> QED BY <2>1, <2>2
<1>3. ASSUME NEW n \in Console PROVE InTurn(n) /\ NotOwn(n) /\ Base(n) = 0
  <2>1. emitted[n] = 0 /\ pendingSend[n] = << >> /\ pendingRecv[n] = << >> /\ selfSeq[n] = 0
    BY DEF Init
  <2>2. Len(pendingSend[n]) = 0 /\ Len(pendingRecv[n]) = 0 /\ 1 .. 0 = {} BY <2>1
  <2>3. emitted[n] - Len(pendingSend[n]) = 0 - 0 BY <2>1, <2>2
  <2>4. 0 - 0 = 0 OBVIOUS
  <2>5. Base(n) = 0 BY <2>3, <2>4 DEF Base
  <2> QED BY <1>2, <2>1, <2>2, <2>5 DEF InTurn, NotOwn
<1>4. ASSUME NEW n \in Console, NEW m \in Console \ {n} PROVE Linked(n, m)
  <2>1. /\ Base(n) = 0 /\ emitted[n] = 0 /\ pendingRecv[m] = << >> /\ acked[n] = {}
        /\ wire[n][m] = << >> /\ wire[m][n] = << >> /\ got[m][n] = << >> /\ seq[m][n] = 0
    BY <1>3 DEF Init
  <2>2. Pair(n, 0, 0, 0, << >>, << >>, << >>, FALSE)
    <3>1. /\ DataLane(<< >>, 0, 0) /\ AckLane(<< >>, 0) /\ HeldQueue(<< >>, n, 0, 0, 0)
          /\ ~Holds(<< >>, n, 0) /\ ~Told(<< >>, 0, FALSE)
      BY DEF DataLane, AckLane, HeldQueue, Holds, Told
    <3>2. 0 <= 0 + 1 /\ 0 # 0 + 1 OBVIOUS
    <3> QED BY <3>1, <3>2, Zenon DEF Pair
  <2>3. (m \in acked[n]) = FALSE /\ Len(got[m][n]) = 0 BY <2>1
  <2> QED BY <1>2, <2>1, <2>2, <2>3 DEF Linked
<1> QED BY <1>1, <1>3, <1>4 DEF OrderInv

(* Every step keeps the invariant.                                          *)
LEMMA OrderStep == OrderInv /\ [Next]_vars => OrderInv'
<1> SUFFICES ASSUME OrderInv, [Next]_vars PROVE OrderInv'
  OBVIOUS
<1>1. CASE UNCHANGED vars
  <2>1. TypeInv' BY <1>1 DEF vars, OrderInv, TypeInv, TypeOK, AwaitsOne
  <2>2. UNCHANGED <<emitted, pendingSend, selfSeq, acked, pendingRecv, seq, got, wire>>
    BY <1>1 DEF vars
  <2>3. AllOn(wire', pendingRecv') BY <2>2, OnNow
  <2>4. \A x \in Console : NotOwn(x)' BY <2>2 DEF OrderInv, NotOwn
  <2> QED BY <2>1, <2>2, <2>3, <2>4, SameStreams
<1>2. ASSUME NEW n \in Console, Emit(n) \/ Resend(n) \/ GiveUp(n) \/ Unplug(n) PROVE OrderInv'
  BY <1>2, OrderEmit, OrderResend, OrderGiveUp
<1>3. ASSUME NEW n \in Console, Skip(n) \/ Unexpected(n) PROVE OrderInv'
  BY <1>3, OrderDrop
<1>4. ASSUME NEW n \in Console, Accept(n) PROVE OrderInv'
  BY <1>4, OrderAccept
<1>5. ASSUME NEW n \in Console, NEW m \in Console \ {n},
             Lose(n, m) \/ TakeAck(n, m) \/ TakeData(n, m)
      PROVE  OrderInv'
  BY <1>5, OrderLose, OrderTakeAck, OrderTakeData
<1> QED BY <1>1, <1>2, <1>3, <1>4, <1>5 DEF Next

(* The invariant holds for ever.                                            *)
LEMMA OrderAlways == Spec => []OrderInv
BY OrderInit, OrderStep, PTL DEF Spec

(* The window is one message, whatever the sizes of the queues: the game of *)
(* m is at most one message behind the one n is trying to get through, and  *)
(* at most one ahead (OneAhead).                                            *)
THEOREM WindowIsOne == Spec => []OneAhead
<1>1. OrderInv => OneAhead BY DEF OrderInv, Linked, Pair, OneAhead
<1> QED BY <1>1, OrderAlways, PTL

(* What every console has acknowledged, SioReceiveData has returned or will *)
(* find in its queue, when no receiver refuses a message (AckedIsKept).     *)
THEOREM AckedStays == ASSUME ~MayRefuse PROVE Spec => []AckedIsKept
<1>1. OrderInv => AckedIsKept
  <2> SUFFICES ASSUME OrderInv, NEW n \in Console, NEW m \in Console \ {n},
                      NEW k \in 0 .. Base(n) - 1, ~(k < Len(got[m][n]))
               PROVE  \E i \in DOMAIN pendingRecv[m] :
                        pendingRecv[m][i].sender = n /\ pendingRecv[m][i].data = k
    BY DEF AckedIsKept
  <2> DEFINE b == Base(n)  g == Len(got[m][n])  q == pendingRecv[m]
  <2>1. b \in Nat /\ g \in Nat /\ q \in Seq(Held) BY Sizes
  <2>2. b <= g + 1 /\ (b = g + 1 => Holds(q, n, g)) BY DEF OrderInv, Linked, Pair
  <2>3. k = g /\ b = g + 1 BY <2>1, <2>2
  <2>4. Holds(q, n, k) BY <2>2, <2>3
  <2>5. DOMAIN q = 1 .. Len(q) BY <2>1, LenProperties
  <2> QED BY <2>4, <2>5 DEF Holds
<1> QED BY <1>1, OrderAlways, PTL

(* The protocol of sio_core.c implements the channel: whatever the cable    *)
(* loses and however often a message is sent again, the game of each        *)
(* console sees what the others emitted, in order and once (InOrderOnce).   *)
THEOREM ChannelIsKept == Spec => InOrderOnce
<1>1. Init => Channel!Init BY DEF Init, Channel!Init
<1>2. OrderInv /\ [Next]_vars => [Channel!Next]_(Channel!vars)
  <2> SUFFICES ASSUME OrderInv, [Next]_vars PROVE [Channel!Next]_(Channel!vars)
    OBVIOUS
  <2>1. ASSUME NEW n \in Console, Emit(n) PROVE Channel!Next
    BY <2>1 DEF Emit, Channel!Next, Channel!Emit
  <2>2. ASSUME NEW m \in Console, Accept(m) PROVE Channel!Next
    <3>1. PICK n \in Console \ {m} :
            /\ Len(got[m][n]) < emitted[n]
            /\ got' = [got EXCEPT ![m][n] = Append(@, Len(@))]
      BY <2>2, OrderAccept
    <3>2. emitted' = emitted BY <2>2 DEF Accept
    <3> QED BY <3>1, <3>2 DEF Channel!Next, Channel!Deliver
  <2>3. ASSUME UNCHANGED <<emitted, got>> PROVE UNCHANGED Channel!vars
    BY <2>3 DEF Channel!vars
  <2>4. ASSUME NEW n \in Console,
               \/ Resend(n) \/ GiveUp(n) \/ Unplug(n) \/ Skip(n) \/ Unexpected(n)
               \/ \E m \in Console \ {n} : Lose(n, m) \/ TakeAck(n, m) \/ TakeData(n, m)
        PROVE  UNCHANGED <<emitted, got>>
    BY <2>4 DEF Resend, GiveUp, Unplug, Skip, Unexpected, Lose, TakeAck, TakeData
  <2>5. CASE UNCHANGED vars
    <3>1. UNCHANGED <<emitted, got>> BY <2>5 DEF vars
    <3> QED BY <2>3, <3>1
  <2>6. CASE Next
    BY <2>1, <2>2, <2>3, <2>4, <2>6 DEF Next
  <2> QED BY <2>5, <2>6
<1> QED BY <1>1, <1>2, OrderAlways, PTL DEF Spec, InOrderOnce, Channel!Spec
=============================================================================
