---------------------------- MODULE SioRingProofs ----------------------------
(***************************************************************************)
(* Proofs about SioRing, for rings of every size, every longest packet, any *)
(* packets to send and any number of faults.                                *)
(***************************************************************************)
EXTENDS SioRing, SequenceTheorems, WellFoundedInduction, TLAPS

(* Every set of natural numbers that is not empty has a least member.       *)
LEMMA LeastNumber ==
  ASSUME NEW T \in SUBSET Nat, T # {}
  PROVE  \E x \in T : \A y \in T : x <= y
<1> DEFINE R == {ss \in Nat \X Nat : ss[1] < ss[2]}
<1>1. IsWellFoundedOn(R, Nat)
  BY NatLessThanWellFounded DEF OpToRel
<1>2. PICK x \in T : \A y \in T : ~ (<<y, x>> \in R)
  BY <1>1, WFMin
<1>3. \A y \in T : y \in Nat /\ x \in Nat /\ ~ (y < x)
  BY <1>2
<1>4. \A y \in T : x <= y
  BY <1>3
<1> QED BY <1>4

(* What holds of 0, and of the next number whenever of one, holds of all:   *)
(* induction, with the numbers it holds of as a set.                        *)
LEMMA AllNumbers ==
  ASSUME NEW C, 0 \in C, \A n \in Nat : n \in C => n + 1 \in C
  PROVE  Nat \subseteq C
<1>1. SUFFICES ASSUME Nat \ C # {} PROVE FALSE
  OBVIOUS
<1>2. PICK x \in Nat \ C : \A y \in Nat \ C : x <= y
  BY <1>1, LeastNumber
<1>3. x # 0 /\ x - 1 \in Nat
  BY <1>2
<1>4. x - 1 \in C
  BY <1>2, <1>3
<1> QED BY <1>2, <1>3, <1>4

(* The same up to a bound.                                                  *)
LEMMA UpTo ==
  ASSUME NEW k \in Nat, NEW C, 0 \in C, \A n \in 1 .. k : n - 1 \in C => n \in C
  PROVE  0 .. k \subseteq C
<1> DEFINE D == {n \in Nat : n <= k => n \in C}
<1>1. 0 \in D
  OBVIOUS
<1>2. ASSUME NEW n \in Nat, n \in D PROVE n + 1 \in D
  <2>1. n + 1 <= k => n + 1 \in 1 .. k /\ n + 1 - 1 \in C
    BY <1>2
  <2> QED BY <2>1
<1>3. Nat \subseteq D
  <2> HIDE DEF D
  <2> QED BY <1>1, <1>2, AllNumbers
<1> QED BY <1>3

(* g is defined by recursion from a, with a step for each number.           *)
Recursive(g, S, a, k, step) ==
  /\ g \in [0 .. k -> S]
  /\ g[0] = a
  /\ \A i \in 1 .. k : g[i] = step[i][g[i - 1]]

(* A function that is defined by recursion exists, and where it takes its   *)
(* values.                                                                  *)
LEMMA Recursion ==
  ASSUME NEW S, NEW a \in S, NEW k \in Nat, NEW step \in [1 .. k -> [S -> S]]
  PROVE  \E g : Recursive(g, S, a, k, step)
<1> DEFINE C == {n \in 0 .. k : \E g : Recursive(g, S, a, n, step)}
<1>1. 0 \in C
  <2> DEFINE g == [i \in 0 .. 0 |-> a]
  <2>1. g \in [0 .. 0 -> S] /\ g[0] = a
    OBVIOUS
  <2>2. 1 .. 0 = {} /\ 0 \in 0 .. k
    OBVIOUS
  <2> HIDE DEF g
  <2>3. Recursive(g, S, a, 0, step)
    BY <2>1, <2>2 DEF Recursive
  <2> QED BY <2>2, <2>3
<1>2. ASSUME NEW n \in 1 .. k, n - 1 \in C PROVE n \in C
  <2>1. PICK g : Recursive(g, S, a, n - 1, step)
    BY <1>2
  <2> DEFINE b == step[n][g[n - 1]]
             h == [i \in 0 .. n |-> IF i = n THEN b ELSE g[i]]
  <2>2. g \in [0 .. n - 1 -> S] /\ g[0] = a
        /\ \A i \in 1 .. n - 1 : g[i] = step[i][g[i - 1]]
    BY <2>1 DEF Recursive
  <2>3. n - 1 \in 0 .. n - 1 /\ g[n - 1] \in S /\ b \in S /\ n \in 0 .. k
    BY <2>2
  <2>4. h \in [0 .. n -> S]
    <3>1. \A i \in 0 .. n : i # n => g[i] \in S
      BY <2>2
    <3> HIDE DEF b
    <3> QED BY <2>3, <3>1
  <2>5. h[0] = a
    BY <2>2
  <2>6. ASSUME NEW i \in 1 .. n PROVE h[i] = step[i][h[i - 1]]
    <3>1. i - 1 \in 0 .. n - 1 /\ h[i - 1] = g[i - 1]
      OBVIOUS
    <3>2. CASE i = n
      <4>1. h[n] = b
        BY <3>2
      <4> QED BY <3>1, <3>2, <4>1
    <3>3. CASE i # n
      <4>1. i \in 1 .. n - 1 /\ h[i] = g[i]
        BY <3>3
      <4> QED BY <2>2, <3>1, <3>3, <4>1
    <3> QED BY <3>2, <3>3
  <2> HIDE DEF h, b
  <2>7. Recursive(h, S, a, n, step)
    BY <2>4, <2>5, <2>6 DEF Recursive
  <2> QED BY <2>3, <2>7
<1>3. 0 .. k \subseteq C
  <2> HIDE DEF C
  <2> QED BY <1>1, <1>2, UpTo
<1>4. k \in C
  BY <1>3
<1> QED BY <1>4

----------------------------------------------------------------------------
(* The constants of the ring, in the form the provers use best.             *)
LEMMA Sizes ==
  /\ RingSize \in Nat /\ MaxBody \in Nat /\ MaxBody >= 1 /\ MaxBody < WordMod
  /\ RingSize >= MaxBody + 7 /\ 0 \in Cursor
  /\ WordMod \in Nat /\ WordMod > 65535
  /\ Magic \in Word /\ Idle \in Word /\ Noise \in Word /\ 0 \in Word
  /\ Again \in Body /\ Mail \in Seq(Body) /\ Len(Mail) \in Nat
  /\ \A k \in 1 .. Len(Mail) : Mail[k] \in Body
BY RingAssumption DEF Cursor, Word, Magic, Idle, Noise

(* One cursor further on, and one back.                                      *)
LEMMA CursorSteps ==
  ASSUME NEW c \in Cursor
  PROVE  /\ After(c) \in Cursor /\ Before(c) \in Cursor
         /\ After(c) = IF c = RingSize - 1 THEN 0 ELSE c + 1
         /\ Before(c) = IF c = 0 THEN RingSize - 1 ELSE c - 1
<1>1. RingSize \in Nat /\ RingSize >= 8
  BY Sizes
<1>2. c \in Nat /\ c <= RingSize - 1
  BY <1>1 DEF Cursor
<1>3. (c + 1) % RingSize = IF c = RingSize - 1 THEN 0 ELSE c + 1
  BY <1>1, <1>2
<1>4. (c - 1) % RingSize = IF c = 0 THEN RingSize - 1 ELSE c - 1
  BY <1>1, <1>2
<1> QED BY <1>1, <1>2, <1>3, <1>4 DEF After, Before, Cursor

(* A body is a sequence of words that a packet has room for.                *)
LEMMA BodyIs ==
  ASSUME NEW body \in Body
  PROVE  /\ body \in Seq(Word) /\ Len(body) \in Nat /\ Len(body) <= MaxBody
         /\ \A i \in 1 .. Len(body) : body[i] \in Nat
BY Sizes DEF Body, Word

(* The weighted sum of a body is a number.                                  *)
LEMMA WeightedIs ==
  ASSUME NEW body \in Body
  PROVE  Weighted(body) \in Nat
<1> DEFINE K == Len(body)
           step == [i \in 1 .. K |-> [n \in Nat |-> n + body[i] * i]]
           IsSum(g) == g = [i \in 0 .. K |-> IF i = 0 THEN 0
                                              ELSE g[i - 1] + body[i] * i]
           sum == CHOOSE g : IsSum(g)
<1>1. K \in Nat /\ \A i \in 1 .. K : body[i] \in Nat
  BY BodyIs
<1>2. step \in [1 .. K -> [Nat -> Nat]]
  <2> HIDE DEF K
  <2>1. \A i \in 1 .. K, n \in Nat : n + body[i] * i \in Nat
    BY <1>1
  <2> QED BY <2>1
<1>3. \E g : Recursive(g, Nat, 0, K, step)
  <2> HIDE DEF K, step
  <2> QED BY <1>1, <1>2, Recursion
<1>4. ASSUME NEW g, Recursive(g, Nat, 0, K, step) PROVE IsSum(g)
  <2> HIDE DEF K
  <2>1. /\ g \in [0 .. K -> Nat] /\ g[0] = 0
        /\ \A i \in 1 .. K : g[i] = step[i][g[i - 1]]
    BY <1>4 DEF Recursive
  <2>2. ASSUME NEW i \in 1 .. K PROVE g[i] = g[i - 1] + body[i] * i
    <3>1. i - 1 \in 0 .. K /\ g[i - 1] \in Nat
      BY <1>1, <2>1
    <3> QED BY <2>1, <3>1
  <2>3. \A i \in 0 .. K : g[i] = IF i = 0 THEN 0 ELSE g[i - 1] + body[i] * i
    BY <2>1, <2>2
  <2> HIDE DEF step
  <2> QED BY <2>1, <2>3
<1>5. IsSum(sum)
  <2> HIDE DEF IsSum
  <2> QED BY <1>3, <1>4
<1>6. sum \in [0 .. K -> Nat]
  <2> HIDE DEF K
  <2>1. /\ sum[0] = 0
        /\ \A i \in 1 .. K : sum[i] = sum[i - 1] + body[i] * i
        /\ sum = [i \in 0 .. K |-> sum[i]]
    <3> HIDE DEF sum
    <3> DEFINE value(i) == IF i = 0 THEN 0 ELSE sum[i - 1] + body[i] * i
    <3>1. sum = [i \in 0 .. K |-> value(i)]
      BY <1>5
    <3>2. \A i \in 0 .. K : sum[i] = value(i)
      <4> HIDE DEF value
      <4> QED BY <3>1
    <3>3. sum[0] = value(0)
      BY <1>1, <3>2
    <3>4. ASSUME NEW i \in 1 .. K PROVE sum[i] = value(i) /\ i # 0
      <4> HIDE DEF value
      <4>1. i \in 0 .. K /\ i # 0
        BY <1>1
      <4> QED BY <3>2, <4>1
    <3>5. sum = [i \in 0 .. K |-> sum[i]]
      <4> HIDE DEF value
      <4> QED BY <3>1, <3>2
    <3> QED BY <3>3, <3>4, <3>5
  <2> HIDE DEF sum
  <2> DEFINE C == {i \in 0 .. K : sum[i] \in Nat}
  <2>2. 0 \in C
    BY <1>1, <2>1
  <2>3. ASSUME NEW i \in 1 .. K, i - 1 \in C PROVE i \in C
    <3>1. sum[i - 1] \in Nat /\ body[i] * i \in Nat
      BY <1>1, <2>3
    <3>2. sum[i] = sum[i - 1] + body[i] * i
      BY <2>1
    <3>3. i \in 0 .. K
      BY <1>1
    <3> QED BY <3>1, <3>2, <3>3
  <2>4. 0 .. K \subseteq C
    <3> HIDE DEF C
    <3> QED BY <1>1, <2>2, <2>3, UpTo
  <2> QED BY <2>1, <2>4
<1>7. Weighted(body) = sum[K]
  BY DEF Weighted
<1>8. K \in 0 .. K
  BY <1>1
<1> HIDE DEF sum, K
<1> QED BY <1>6, <1>7, <1>8

(* What a packet is made of.                                                *)
LEMMA PacketIs ==
  ASSUME NEW body \in Body
  PROVE  /\ PacketOf(body) \in Seq(Word)
         /\ Len(PacketOf(body)) = Len(body) + 4
         /\ PacketOf(body)[1] = Magic
         /\ PacketOf(body)[2] = Len(body)
         /\ PacketOf(body)[3] = SumA(body)
         /\ PacketOf(body)[4] = SumB(body)
         /\ \A i \in 1 .. Len(body) : PacketOf(body)[i + 4] = body[i]
<1>1. Weighted(body) \in Nat /\ Len(body) \in Nat
      /\ Len(body) <= MaxBody
  BY WeightedIs, BodyIs
<1>2. WordMod \in Nat /\ WordMod > 65535
  BY Sizes
<1>3. SumA(body) \in Word
  BY <1>1, <1>2 DEF SumA, Word, Magic
<1>4. SumB(body) \in Word
  <2> DEFINE n == -(Len(body) + Weighted(body))
  <2>1. n \in Int
    BY <1>1
  <2>2. n % WordMod \in 0 .. WordMod - 1
    <3> HIDE DEF n
    <3> QED BY <1>2, <2>1
  <2> QED BY <2>2 DEF SumB, Word
<1>5. Len(body) \in Word
  BY <1>1, Sizes DEF Word
<1> DEFINE h == <<Magic, Len(body), SumA(body), SumB(body)>>
<1>6. h \in Seq(Word) /\ Len(h) = 4
      /\ h[1] = Magic /\ h[2] = Len(body) /\ h[3] = SumA(body) /\ h[4] = SumB(body)
  BY <1>3, <1>4, <1>5, Sizes
<1>7. PacketOf(body) = h \o body
  BY DEF PacketOf
<1> HIDE DEF h
<1>8. body \in Seq(Word)
  BY BodyIs
<1>9. /\ h \o body \in Seq(Word) /\ Len(h \o body) = Len(h) + Len(body)
      /\ \A i \in 1 .. Len(h) + Len(body) :
           (h \o body)[i] = IF i <= Len(h) THEN h[i] ELSE body[i - Len(h)]
  BY <1>6, <1>8, ConcatProperties
<1>10. \A i \in 1 .. Len(body) : i + 4 \in 1 .. 4 + Len(body) /\ i + 4 > 4
                                 /\ i + 4 - 4 = i
  BY <1>1
<1> QED BY <1>1, <1>6, <1>7, <1>9, <1>10

----------------------------------------------------------------------------
(* A call that begins holds the words of a packet.                          *)
LEMMA CallBegins ==
  ASSUME TypeOK, NEW body \in Body
  PROVE  [cur |-> write, todo |-> PacketOf(body), active |-> TRUE] \in Call
BY PacketIs DEF TypeOK, Call

(* Returning is being in no call.                                           *)
LEMMA NotCalledIs == NotCalled \in Call
<1>1. << >> \in Seq(Word) /\ 0 \in Cursor
  BY Sizes
<1> QED BY <1>1 DEF NotCalled, Call

(* Writing a word keeps what is typed.                                      *)
LEMMA WriteTyped ==
  ASSUME TypeOK, NEW c \in {"main", "vblank"}, Write(c)
  PROVE  TypeOK'
<1>1. /\ call[c] \in Call /\ call[c].todo \in Seq(Word) /\ call[c].todo # << >>
      /\ call[c].cur \in Cursor
  BY DEF TypeOK, Call, Write
<1>2. Head(call[c].todo) \in Word /\ Tail(call[c].todo) \in Seq(Word)
  BY <1>1, HeadTailProperties
<1>3. After(call[c].cur) \in Cursor
  BY <1>1, CursorSteps
<1>4. outgoing' \in [Cursor -> Word]
  BY <1>1, <1>2 DEF TypeOK, Write
<1> DEFINE next == After(call[c].cur)
           new == IF next = 0 THEN NotCalled
                  ELSE [cur |-> next, todo |-> Tail(call[c].todo), active |-> TRUE]
<1>5. new \in Call
  <2>1. [cur |-> next, todo |-> Tail(call[c].todo), active |-> TRUE] \in Call
    BY <1>2, <1>3 DEF Call
  <2> QED BY <2>1, NotCalledIs
<1>6. call' = [call EXCEPT ![c] = new]
  BY DEF Write
<1>7. call' \in [{"main", "vblank"} -> Call]
  <2> HIDE DEF new
  <2> QED BY <1>5, <1>6 DEF TypeOK
<1> QED BY <1>4, <1>7 DEF TypeOK, Write

(* So does a transfer, whatever the words are that have not been read yet.  *)
LEMMA TransferTyped ==
  ASSUME TypeOK, NEW words, Transfer(words), words \in Seq(Word),
         Len(words) < RingSize, late' \in BOOLEAN, faults' \in 0 .. MaxFaults,
         through' \in BOOLEAN
  PROVE  TypeOK'
<1>1. CASE HasWord
  <2>1. SendCursorMoves
    BY <1>1 DEF Transfer
  <2>2. outgoing' \in [Cursor -> Word]
    <3>1. \A i \in Cursor : outgoing[After(i)] \in Word
      BY CursorSteps DEF TypeOK
    <3> QED BY <2>1, <3>1 DEF SendCursorMoves
  <2>3. write' \in Cursor /\ loaded' \in Cursor
    BY <2>1, CursorSteps, Sizes DEF SendCursorMoves, TypeOK
  <2>4. call' \in [{"main", "vblank"} -> Call]
    <3> DEFINE new(c) == IF call[c].active THEN [call[c] EXCEPT !.cur = Before(@)]
                         ELSE call[c]
    <3>1. ASSUME NEW c \in {"main", "vblank"} PROVE new(c) \in Call
      <4>1. call[c] \in Call /\ Before(call[c].cur) \in Cursor
        BY CursorSteps DEF TypeOK, Call
      <4> QED BY <4>1 DEF Call
    <3>2. call' = [c \in {"main", "vblank"} |-> new(c)]
      BY <2>1 DEF SendCursorMoves, TypeOK
    <3> HIDE DEF new
    <3> QED BY <3>1, <3>2
  <2> QED BY <2>2, <2>3, <2>4 DEF Transfer, TypeOK
<1>2. CASE ~HasWord
  BY <1>2 DEF Transfer, TypeOK
<1> QED BY <1>1, <1>2

(* A word that arrives is put behind the others, or the ring is empty.       *)
LEMMA ArrivesTyped ==
  ASSUME TypeOK, NEW word \in Word
  PROVE  Arrives(word) \in Seq(Word) /\ Len(Arrives(word)) < RingSize
<1>1. incoming \in Seq(Word) /\ Len(incoming) \in Nat /\ Len(incoming) < RingSize
  BY DEF TypeOK
<1>2. RingSize \in Nat /\ RingSize > 0
  BY Sizes
<1>3. CASE RingIsFull
  BY <1>2, <1>3 DEF Arrives
<1>4. CASE ~RingIsFull
  <2>1. Append(incoming, word) \in Seq(Word)
        /\ Len(Append(incoming, word)) = Len(incoming) + 1
    BY <1>1
  <2> QED BY <1>1, <1>2, <1>4, <2>1 DEF Arrives, RingIsFull
<1> QED BY <1>3, <1>4

(* The word that leaves is a word.                                          *)
LEMMA WordOutTyped == TypeOK => WordOut \in Word
BY Sizes DEF TypeOK, WordOut

(* What is left when the first n words have been read.                      *)
LEMMA Skipped ==
  ASSUME TypeOK, NEW n \in 0 .. Count, Skip(n)
  PROVE  /\ incoming' \in Seq(Word) /\ Len(incoming') = Count - n
         /\ \A i \in 1 .. Count - n : incoming'[i] = incoming[n + i]
<1>1. incoming \in Seq(Word) /\ Count \in Nat
  BY DEF TypeOK, Count
<1>2. incoming' = SubSeq(incoming, n + 1, Count)
  BY DEF Skip
<1>3. \A i \in n + 1 .. Count : incoming[i] \in Word
  BY <1>1 DEF Count
<1>4. /\ incoming' \in Seq(Word)
      /\ Len(incoming') = IF n + 1 <= Count THEN Count - (n + 1) + 1 ELSE 0
      /\ \A i \in 1 .. Count - (n + 1) + 1 : incoming'[i] = incoming[n + 1 + i - 1]
  BY <1>1, <1>2, <1>3, SubSeqProperties
<1>5. Count - (n + 1) + 1 = Count - n
  BY <1>1
<1>6. \A i \in 1 .. Count - n : n + 1 + i - 1 = n + i
  BY <1>1
<1> QED BY <1>1, <1>4, <1>5, <1>6

(* The body of a packet whose length is not above the longest.              *)
LEMMA ReturnedTyped ==
  ASSUME TypeOK, Framed, Length <= MaxBody, Length + 6 <= Count
  PROVE  /\ Length \in Nat /\ Returned \in Body /\ Len(Returned) = Length
         /\ \A i \in 1 .. Length : Returned[i] = incoming[i + 4]
<1>1. incoming \in Seq(Word) /\ Count \in Nat /\ Count > 4
  BY DEF TypeOK, Count, Framed
<1>2. Length \in Nat
  <2>1. incoming[2] \in Word
    BY <1>1 DEF Count
  <2> QED BY <2>1, Sizes DEF Length, Word
<1>3. \A i \in 5 .. 4 + Length : incoming[i] \in Word
  <2>1. \A i \in 5 .. 4 + Length : i \in 1 .. Count
    BY <1>1, <1>2
  <2> QED BY <1>1, <2>1 DEF Count
<1>4. /\ Returned \in Seq(Word) /\ Len(Returned) = Length
      /\ \A i \in 1 .. Length : Returned[i] = incoming[i + 4]
  <2> DEFINE n == 4 + Length
  <2>1. PICK m \in Int : m = 5
    OBVIOUS
  <2>2. n \in Int
    BY <1>2
  <2>3. Returned = SubSeq(incoming, m, n)
    BY <2>1 DEF Returned
  <2>4. \A i \in m .. n : incoming[i] \in Word
    BY <1>3, <2>1
  <2> HIDE DEF n
  <2>5. /\ SubSeq(incoming, m, n) \in Seq(Word)
        /\ Len(SubSeq(incoming, m, n)) = IF m <= n THEN n - m + 1 ELSE 0
        /\ \A i \in 1 .. n - m + 1 : SubSeq(incoming, m, n)[i] = incoming[m + i - 1]
    BY <2>2, <2>4, SubSeqProperties
  <2>6. n - m + 1 = Length /\ (m <= n \/ Length = 0)
    BY <1>2, <2>1 DEF n
  <2>7. \A i \in 1 .. Length : m + i - 1 = i + 4
    BY <1>2, <2>1
  <2> HIDE DEF Length
  <2>8. Len(SubSeq(incoming, m, n)) = Length
    BY <1>2, <2>1, <2>2, <2>5, <2>6
  <2> QED BY <2>3, <2>5, <2>6, <2>7, <2>8
<1> QED BY <1>2, <1>4 DEF Body

(* Reading a packet keeps what is typed.                                    *)
LEMMA TakeTyped ==
  ASSUME TypeOK, TakePacket
  PROVE  TypeOK'
<1>1. /\ Length \in Nat /\ Returned \in Body /\ Framed /\ Length <= MaxBody
      /\ Length + 6 <= Count
  BY ReturnedTyped DEF TakePacket
<1>2. /\ Count \in Nat /\ Len(incoming) = Count /\ Count < RingSize
      /\ RingSize \in Nat
  BY Sizes DEF TypeOK, Count
<1>3. incoming' \in Seq(Word) /\ Len(incoming') < RingSize
  <2>1. Length + 4 \in 0 .. Count /\ Skip(Length + 4)
    BY <1>1, <1>2 DEF TakePacket
  <2>2. incoming' \in Seq(Word) /\ Len(incoming') = Count - (Length + 4)
    <3> HIDE DEF Length
    <3> QED BY <2>1, Skipped
  <2> QED BY <1>1, <1>2, <2>2
<1>4. accepted' \in Seq(Body) /\ through' \in BOOLEAN
  <2>1. accepted \in Seq(Body) /\ through \in BOOLEAN
    BY DEF TypeOK
  <2>2. <<Returned>> \in Seq(Body) /\ Append(accepted, Returned) \in Seq(Body)
    <3> HIDE DEF Length
    <3> QED BY <1>1, <2>1
  <2>3. \/ through' = TRUE /\ accepted' = accepted
        \/ through' = through /\ accepted' \in {<<Returned>>, Append(accepted, Returned)}
        \/ through' = through /\ accepted' = accepted
    BY DEF TakePacket, Return
  <2> QED BY <2>1, <2>2, <2>3
<1> QED BY <1>3, <1>4 DEF TakePacket, sender, TypeOK

(* Stepping over words keeps what is typed.                                 *)
LEMMA SkipTyped ==
  ASSUME TypeOK, NEW n \in 0 .. Count, Skip(n),
         UNCHANGED <<sender, late, faults, raced, accepted, through>>
  PROVE  TypeOK'
<1>1. /\ Count \in Nat /\ Len(incoming) = Count /\ Count < RingSize
      /\ RingSize \in Nat
  BY Sizes DEF TypeOK, Count
<1>2. incoming' \in Seq(Word) /\ Len(incoming') = Count - n
  BY Skipped
<1>3. Len(incoming') < RingSize
  BY <1>1, <1>2
<1> QED BY <1>2, <1>3 DEF TypeOK, sender

(* So does what goes wrong.                                                  *)
LEMMA TroubleTyped ==
  ASSUME TypeOK, Trouble
  PROVE  faults' \in 0 .. MaxFaults /\ through' \in BOOLEAN
<1>1. MaxFaults \in Nat
  BY RingAssumption
<1>2. faults \in Nat /\ faults < MaxFaults /\ faults' = faults + 1
  BY <1>1 DEF TypeOK, Trouble
<1>3. faults' \in 0 .. MaxFaults
  BY <1>1, <1>2
<1>4. through' \in BOOLEAN
  BY Zenon DEF Trouble
<1> QED BY <1>3, <1>4

(* So does the start of a session.                                           *)
LEMMA InitTyped == Init => TypeOK
BY Sizes, NotCalledIs, RingAssumption DEF Init, TypeOK

(* Cursors stay in their rings and words in 16 bits, whatever the two       *)
(* consoles, the interrupts and the cable do.                               *)
THEOREM TypeCorrect == Spec => []TypeOK
<1>1. Init => TypeOK
  BY InitTyped
<1>2. 0 \in Cursor
  BY Sizes
<1>3. TypeOK /\ [Next]_vars => TypeOK'
  <2> SUFFICES ASSUME TypeOK, [Next]_vars PROVE TypeOK'
    OBVIOUS
  <2>1. CASE SendMail
    <3>1. mailed + 1 \in 1 .. Len(Mail) /\ mailed' \in 0 .. Len(Mail)
      BY <2>1, Sizes DEF SendMail, TypeOK
    <3>2. [cur |-> write, todo |-> PacketOf(Mail[mailed + 1]), active |-> TRUE]
            \in Call
      BY <3>1, Sizes, CallBegins
    <3>3. call' \in [{"main", "vblank"} -> Call]
      BY <2>1, <3>2 DEF SendMail, Begin, TypeOK
    <3> QED BY <2>1, <3>1, <3>3 DEF SendMail, TypeOK
  <2>2. CASE SendAgain
    <3>1. [cur |-> write, todo |-> PacketOf(Again), active |-> TRUE] \in Call
      BY Sizes, CallBegins
    <3>2. call' \in [{"main", "vblank"} -> Call]
      BY <2>2, <3>1 DEF SendAgain, Begin, TypeOK
    <3>3. raced' \in BOOLEAN /\ through' \in BOOLEAN
      BY <2>2 DEF SendAgain, TypeOK
    <3> QED BY <2>2, <3>2, <3>3 DEF SendAgain, TypeOK
  <2>3. ASSUME NEW c \in {"main", "vblank"}, Write(c) PROVE TypeOK'
    BY <2>3, WriteTyped
  <2>4. ASSUME NEW c \in {"main", "vblank"}, Commit(c) PROVE TypeOK'
    <3>1. write' \in Cursor /\ call' \in [{"main", "vblank"} -> Call]
      BY <2>4, NotCalledIs DEF Commit, TypeOK, Call
    <3> QED BY <2>4, <3>1 DEF Commit, TypeOK
  <2>5. CASE ClearLoads
    BY <2>5, <1>2, TroubleTyped DEF ClearLoads, TypeOK
  <2>6. CASE HaltLoads
    <3>1. faults' \in 0 .. MaxFaults /\ through' \in BOOLEAN
      BY <2>6, TroubleTyped DEF HaltLoads
    <3>2. loaded' \in Cursor /\ playing' \in BOOLEAN
          /\ clearing' \in {"no", "queue", "halt"}
      BY <2>6, <1>2 DEF HaltLoads
    <3> QED BY <2>6, <3>1, <3>2 DEF HaltLoads, TypeOK
  <2>7. CASE ClearStores
    <3>1. raced' \in BOOLEAN
      BY <2>7 DEF ClearStores, TypeOK
    <3> QED BY <2>7, <3>1, Sizes DEF ClearStores, TypeOK
  <2>8. CASE StartSession
    BY <2>8, Sizes DEF StartSession, TypeOK
  <2>9. CASE Serial
    <3>1. late' \in BOOLEAN /\ Transfer(Arrives(WordOut))
      BY <2>9 DEF Serial, TypeOK
    <3>2. faults' \in 0 .. MaxFaults /\ through' \in BOOLEAN
      BY <2>9 DEF Serial, TypeOK
    <3> QED BY <3>1, <3>2, WordOutTyped, ArrivesTyped, TransferTyped
  <2>10. CASE Garble
    <3>1. late' \in BOOLEAN /\ Transfer(Arrives(Noise))
      BY <2>10 DEF Garble, TypeOK
    <3>2. faults' \in 0 .. MaxFaults /\ through' \in BOOLEAN
      BY <2>10, TroubleTyped DEF Garble
    <3> QED BY <3>1, <3>2, Sizes, ArrivesTyped, TransferTyped
  <2>11. CASE FallBehind
    BY <2>11, TroubleTyped DEF FallBehind, sender, TypeOK
  <2>12. CASE ReaderRestarts
    <3>1. incoming' \in Seq(Word) /\ Len(incoming') < RingSize
      BY <2>12, Sizes DEF ReaderRestarts
    <3> QED BY <2>12, <3>1, TroubleTyped DEF ReaderRestarts, sender, TypeOK
  <2>13. CASE Resync
    <3>1. PICK n \in 1 .. Count : Skip(n)
      BY <2>13 DEF Resync
    <3>2. n \in 0 .. Count
      BY DEF Count, TypeOK
    <3> QED BY <2>13, <3>1, <3>2, SkipTyped DEF Resync
  <2>14. CASE TooLong
    <3>1. 1 \in 0 .. Count
      BY <2>14 DEF TooLong, Framed, Count, TypeOK
    <3>2. Skip(1) /\ UNCHANGED <<sender, late, faults, raced, accepted, through>>
      BY <2>14 DEF TooLong
    <3>3. PICK n \in 0 .. Count : n = 1
      BY <3>1
    <3> QED BY <3>2, <3>3, SkipTyped
  <2>15. CASE TakePacket
    BY <2>15, TakeTyped
  <2>16. CASE UNCHANGED vars
    BY <2>16 DEF vars, sender, TypeOK
  <2> QED BY <2>1, <2>2, <2>3, <2>4, <2>5, <2>6, <2>7, <2>8, <2>9, <2>10, <2>11,
             <2>12, <2>13, <2>14, <2>15, <2>16 DEF Next, ReadPacket
<1> QED BY <1>1, <1>3, PTL DEF Spec

----------------------------------------------------------------------------
(* While nothing goes wrong, the lane (the words not read yet and those that *)
(* wait to leave) is cut into frames: idle words and whole packets.  F are   *)
(* the positions where frames begin and the one behind the last; tag says    *)
(* which packet of Mail begins at a position, 0 one of Again or none.        *)
BodyOf(t) == IF t = 0 THEN Again ELSE Mail[t]

Stands(s, k, p) ==
  /\ k + Len(p) - 1 <= Len(s)
  /\ \A j \in 1 .. Len(p) : s[k + j - 1] = p[j]

FrameAt(s, F, k, t) ==
  \/ t = 0 /\ s[k] = Idle /\ k + 1 \in F
  \/ Stands(s, k, PacketOf(BodyOf(t))) /\ k + Len(BodyOf(t)) + 4 \in F

Cut(s, m, F, tag) ==
  /\ F \subseteq 1 .. Len(s) + 1
  /\ 1 \in F /\ Len(s) + 1 \in F
  /\ tag \in [Nat -> 0 .. m]
  /\ \A k \in Nat : tag[k] # 0 => k \in 1 .. Len(s)
  /\ \A k \in F : k <= Len(s) => FrameAt(s, F, k, tag[k])

Rising(tag) ==
  \A k, l \in Nat : k < l /\ tag[k] # 0 /\ tag[l] # 0 => tag[k] < tag[l]

(* got says which packets of Mail were accepted: in order, and before those  *)
(* that are still on the lane.                                               *)
Got(m, acc, tag, got) ==
  /\ got \in [1 .. Len(acc) -> 1 .. m]
  /\ \A i \in 1 .. Len(acc) : acc[i] = Mail[got[i]]
  /\ \A i, j \in 1 .. Len(acc) : i < j => got[i] < got[j]
  /\ \A i \in 1 .. Len(acc), k \in Nat : tag[k] # 0 => got[i] < tag[k]

Story(s, m, acc, F, tag, got) ==
  Cut(s, m, F, tag) /\ Rising(tag) /\ Got(m, acc, tag, got)

Told(s, m, acc) == \E F, tag, got : Story(s, m, acc, F, tag, got)

(* The bodies of the packets are bodies.                                    *)
LEMMA BodyOfIs ==
  ASSUME NEW t \in 0 .. Len(Mail)
  PROVE  BodyOf(t) \in Body
<1>1. t # 0 => t \in 1 .. Len(Mail)
  BY Sizes
<1> QED BY <1>1, Sizes DEF BodyOf

(* The packet of a tag, in the form the provers use best.                   *)
LEMMA PacketOfTag ==
  ASSUME NEW t \in 0 .. Len(Mail)
  PROVE  /\ Len(BodyOf(t)) \in Nat /\ Len(BodyOf(t)) <= MaxBody
         /\ PacketOf(BodyOf(t)) \in Seq(Word)
         /\ Len(PacketOf(BodyOf(t))) = Len(BodyOf(t)) + 4
BY BodyOfIs, BodyIs, PacketIs

(* A frame stays a frame when words are added behind the lane.              *)
LEMMA FrameStays ==
  ASSUME NEW s \in Seq(Word), NEW r \in Seq(Word), Len(s) <= Len(r),
         \A i \in 1 .. Len(s) : r[i] = s[i],
         NEW F, NEW G, F \subseteq G, NEW t \in 0 .. Len(Mail),
         NEW k \in 1 .. Len(s), FrameAt(s, F, k, t)
  PROVE  FrameAt(r, G, k, t)
<1> DEFINE p == PacketOf(BodyOf(t))
<1>1. Len(p) \in Nat /\ Len(s) \in Nat /\ Len(r) \in Nat /\ k \in Nat
  BY PacketOfTag
<1>2. CASE t = 0 /\ s[k] = Idle /\ k + 1 \in F
  BY <1>2 DEF FrameAt
<1>3. CASE Stands(s, k, p) /\ k + Len(BodyOf(t)) + 4 \in F
  <2> HIDE DEF p
  <2>1. k + Len(p) - 1 <= Len(s) /\ \A j \in 1 .. Len(p) : s[k + j - 1] = p[j]
    BY <1>3 DEF Stands
  <2>2. k + Len(p) - 1 <= Len(r)
    BY <1>1, <2>1
  <2>3. ASSUME NEW j \in 1 .. Len(p) PROVE r[k + j - 1] = p[j]
    <3>1. k + j - 1 \in 1 .. Len(s)
      BY <1>1, <2>1
    <3> QED BY <2>1, <3>1
  <2>4. Stands(r, k, p)
    BY <2>2, <2>3 DEF Stands
  <2> QED BY <1>3, <2>4 DEF FrameAt, p
<1> QED BY <1>2, <1>3 DEF FrameAt

(* An idle word is a frame of its own.                                      *)
LEMMA IdleIsTold ==
  ASSUME NEW s \in Seq(Word), NEW r \in Seq(Word), Len(r) = Len(s) + 1,
         \A i \in 1 .. Len(s) : r[i] = s[i], r[Len(s) + 1] = Idle,
         NEW m \in 0 .. Len(Mail), NEW acc, Told(s, m, acc)
  PROVE  Told(r, m, acc)
<1>1. PICK F, tag, got : Story(s, m, acc, F, tag, got)
  BY DEF Told
<1> DEFINE G == F \cup {Len(s) + 2}
<1>2. /\ F \subseteq 1 .. Len(s) + 1 /\ 1 \in F /\ Len(s) + 1 \in F
      /\ tag \in [Nat -> 0 .. m]
      /\ \A k \in Nat : tag[k] # 0 => k \in 1 .. Len(s)
      /\ \A k \in F : k <= Len(s) => FrameAt(s, F, k, tag[k])
  BY <1>1 DEF Story, Cut
<1>3. Len(s) \in Nat /\ Len(r) \in Nat /\ Len(Mail) \in Nat
  BY Sizes
<1>4. G \subseteq 1 .. Len(r) + 1 /\ 1 \in G /\ Len(r) + 1 \in G
  <2>1. Len(r) + 1 = Len(s) + 2
    BY <1>3
  <2>2. ASSUME NEW k \in 1 .. Len(s) + 1 PROVE k \in 1 .. Len(r) + 1
    BY <1>3
  <2>3. Len(r) + 1 \in 1 .. Len(r) + 1
    BY <1>3
  <2> QED BY <1>2, <2>1, <2>2, <2>3
<1>5. \A k \in Nat : tag[k] # 0 => k \in 1 .. Len(r)
  <2>1. \A k \in 1 .. Len(s) : k \in 1 .. Len(r)
    BY <1>3
  <2> QED BY <1>2, <2>1
<1>6. ASSUME NEW k \in G, k <= Len(r) PROVE FrameAt(r, G, k, tag[k])
  <2>1. CASE k \in 1 .. Len(s)
    <3>1. k \in F /\ k <= Len(s) /\ k \in Nat /\ F \subseteq G
      BY <1>3, <2>1
    <3>2. FrameAt(s, F, k, tag[k])
      BY <1>2, <3>1
    <3>3. tag[k] \in 0 .. Len(Mail)
      BY <1>2, <1>3, <3>1
    <3>4. Len(s) <= Len(r)
      BY <1>3
    <3> HIDE DEF G
    <3> QED BY <2>1, <3>1, <3>2, <3>3, <3>4, FrameStays
  <2>2. CASE k = Len(s) + 1
    <3>1. tag[k] = 0
      BY <1>2, <1>3, <2>2
    <3>2. k + 1 = Len(s) + 2
      BY <1>3, <2>2
    <3>3. k + 1 \in G /\ r[k] = Idle
      BY <2>2, <3>2
    <3> HIDE DEF G
    <3> QED BY <3>1, <3>3 DEF FrameAt
  <2>3. k \in 1 .. Len(s) \/ k = Len(s) + 1
    <3>1. k \in 1 .. Len(r) + 1 /\ k <= Len(r)
      BY <1>4, <1>6
    <3> HIDE DEF G
    <3> QED BY <1>3, <3>1
  <2> QED BY <2>1, <2>2, <2>3
<1>7. Cut(r, m, G, tag)
  <2> HIDE DEF G
  <2> QED BY <1>2, <1>4, <1>5, <1>6 DEF Cut
<1>8. Story(r, m, acc, G, tag, got)
  BY <1>1, <1>7 DEF Story
<1> QED BY <1>8 DEF Told

(* So is a packet, if its number comes after those before it.               *)
LEMMA PacketIsTold ==
  ASSUME NEW s \in Seq(Word), NEW r \in Seq(Word),
         NEW m \in 0 .. Len(Mail), NEW n \in m .. Len(Mail),
         NEW t \in 0 .. n, t # 0 => t > m,
         Len(r) = Len(s) + Len(BodyOf(t)) + 4,
         \A i \in 1 .. Len(s) : r[i] = s[i],
         \A i \in 1 .. Len(BodyOf(t)) + 4 : r[Len(s) + i] = PacketOf(BodyOf(t))[i],
         NEW acc, Told(s, m, acc)
  PROVE  Told(r, n, acc)
<1>1. PICK F, tag, got : Story(s, m, acc, F, tag, got)
  BY DEF Told
<1> DEFINE e == Len(s) + 1
           L == Len(BodyOf(t))
           G == F \cup {Len(r) + 1}
           new == [tag EXCEPT ![e] = t]
<1>2. /\ F \subseteq 1 .. Len(s) + 1 /\ 1 \in F /\ e \in F
      /\ tag \in [Nat -> 0 .. m]
      /\ \A k \in Nat : tag[k] # 0 => k \in 1 .. Len(s)
      /\ \A k \in F : k <= Len(s) => FrameAt(s, F, k, tag[k])
  BY <1>1 DEF Story, Cut
<1>3. /\ Len(s) \in Nat /\ Len(r) \in Nat /\ Len(Mail) \in Nat /\ m \in Nat
      /\ n \in Nat /\ e \in Nat /\ m <= n /\ n <= Len(Mail) /\ t \in Nat /\ t <= n
  BY Sizes
<1>4. L \in Nat /\ Len(PacketOf(BodyOf(t))) = L + 4 /\ t \in 0 .. Len(Mail)
  BY <1>3, PacketOfTag
<1>5. /\ new \in [Nat -> 0 .. n] /\ new[e] = t
      /\ \A k \in Nat : k # e => new[k] = tag[k]
  <2>1. t \in 0 .. n /\ \A k \in 0 .. m : k \in 0 .. n
    BY <1>3
  <2>2. tag \in [Nat -> 0 .. n]
    BY <1>2, <2>1
  <2> HIDE DEF e
  <2> QED BY <1>3, <2>1, <2>2
<1> HIDE DEF new
<1>6. G \subseteq 1 .. Len(r) + 1 /\ 1 \in G /\ Len(r) + 1 \in G
  <2>1. Len(s) <= Len(r)
    BY <1>3, <1>4
  <2>2. ASSUME NEW k \in 1 .. Len(s) + 1 PROVE k \in 1 .. Len(r) + 1
    BY <1>3, <2>1
  <2>3. Len(r) + 1 \in 1 .. Len(r) + 1
    BY <1>3
  <2> QED BY <1>2, <2>2, <2>3
<1>7. \A k \in Nat : new[k] # 0 => k \in 1 .. Len(r)
  <2>1. Len(s) + 1 <= Len(r)
    BY <1>3, <1>4
  <2>2. e \in 1 .. Len(r) /\ \A k \in 1 .. Len(s) : k \in 1 .. Len(r)
    BY <1>3, <2>1
  <2> QED BY <1>2, <1>5, <2>2
<1>8. ASSUME NEW k \in G, k <= Len(r) PROVE FrameAt(r, G, k, new[k])
  <2>1. k \in F
    BY <1>3, <1>8
  <2>2. CASE k = e
    <3>1. Stands(r, e, PacketOf(BodyOf(t)))
      <4>1. e + (L + 4) - 1 <= Len(r)
        BY <1>3, <1>4
      <4>2. \A j \in 1 .. L + 4 : e + j - 1 = Len(s) + j
        BY <1>3
      <4> HIDE DEF e
      <4> QED BY <1>4, <4>1, <4>2 DEF Stands
    <3>2. e + L + 4 \in G
      <4>1. e + L + 4 = Len(r) + 1
        BY <1>3, <1>4
      <4> QED BY <4>1
    <3> HIDE DEF G, e
    <3> QED BY <1>5, <2>2, <3>1, <3>2 DEF FrameAt, L
  <2>3. CASE k # e
    <3>1. k \in 1 .. Len(s) /\ k <= Len(s) /\ k \in Nat /\ F \subseteq G
      <4>1. k \in 1 .. Len(s) + 1
        BY <1>2, <2>1
      <4> QED BY <1>3, <2>3, <4>1
    <3>2. FrameAt(s, F, k, tag[k]) /\ new[k] = tag[k]
      BY <1>2, <1>5, <2>1, <2>3, <3>1
    <3>3. tag[k] \in 0 .. Len(Mail)
      BY <1>2, <1>3, <3>1
    <3>4. Len(s) <= Len(r)
      BY <1>3, <1>4
    <3> HIDE DEF G, e
    <3> QED BY <3>1, <3>2, <3>3, <3>4, FrameStays
  <2> QED BY <2>2, <2>3
<1>9. Cut(r, n, G, new)
  <2> HIDE DEF G
  <2> QED BY <1>5, <1>6, <1>7, <1>8 DEF Cut
<1>10. \A k \in Nat : tag[k] \in Nat /\ tag[k] <= m
  <2>1. \A k \in Nat : tag[k] \in 0 .. m
    BY <1>2
  <2> QED BY <1>3, <2>1
<1>11. Rising(new)
  <2> SUFFICES ASSUME NEW k \in Nat, NEW l \in Nat, k < l, new[k] # 0, new[l] # 0
               PROVE  new[k] < new[l]
    BY DEF Rising
  <2>1. k # e
    <3>1. CASE k = e
      <4>1. l # e /\ ~(l \in 1 .. Len(s))
        BY <1>3, <3>1
      <4> QED BY <1>2, <1>5, <4>1
    <3> QED BY <3>1
  <2>2. new[k] = tag[k] /\ tag[k] # 0 /\ tag[k] \in Nat /\ tag[k] <= m
    BY <1>5, <1>10, <2>1
  <2>3. CASE l = e
    <3>1. new[l] = t /\ t > m
      BY <1>5, <2>3
    <3> HIDE DEF e
    <3> QED BY <1>3, <2>2, <3>1
  <2>4. CASE l # e
    <3>1. new[l] = tag[l]
      BY <1>5, <2>4
    <3>2. Rising(tag)
      BY <1>1 DEF Story
    <3> HIDE DEF e
    <3> QED BY <2>2, <3>1, <3>2 DEF Rising
  <2> QED BY <2>3, <2>4
<1>12. Got(n, acc, new, got)
  <2>1. /\ got \in [1 .. Len(acc) -> 1 .. m]
        /\ \A i \in 1 .. Len(acc) : acc[i] = Mail[got[i]]
        /\ \A i, j \in 1 .. Len(acc) : i < j => got[i] < got[j]
        /\ \A i \in 1 .. Len(acc), k \in Nat : tag[k] # 0 => got[i] < tag[k]
    BY <1>1 DEF Story, Got
  <2>2. got \in [1 .. Len(acc) -> 1 .. n]
    BY <1>3, <2>1
  <2>3. ASSUME NEW i \in 1 .. Len(acc), NEW k \in Nat, new[k] # 0
        PROVE  got[i] < new[k]
    <3>1. got[i] \in Nat /\ got[i] <= m
      BY <1>3, <2>1
    <3>2. CASE k = e
      <4>1. new[k] = t /\ t > m
        BY <1>5, <2>3, <3>2
      <4> HIDE DEF e
      <4> QED BY <1>3, <3>1, <4>1
    <3>3. CASE k # e
      BY <1>5, <2>1, <2>3, <3>3
    <3> QED BY <3>2, <3>3
  <2> QED BY <2>1, <2>2, <2>3 DEF Got
<1>13. Story(r, n, acc, G, new, got)
  BY <1>9, <1>11, <1>12 DEF Story
<1> QED BY <1>13 DEF Told

(* The tags when the first n words have gone.                               *)
Moved(tag, n) == [k \in Nat |-> IF k = 0 THEN 0 ELSE tag[k + n]]

(* What is left of the lane when whole frames have been read: a packet may   *)
(* be accepted on the way.                                                  *)
LEMMA ShorterIsCut ==
  ASSUME NEW s \in Seq(Word), NEW r \in Seq(Word), NEW n \in 0 .. Len(s),
         Len(r) = Len(s) - n, \A i \in 1 .. Len(r) : r[i] = s[n + i],
         NEW m \in 0 .. Len(Mail), NEW F, NEW tag, Cut(s, m, F, tag), n + 1 \in F
  PROVE  \E G : Cut(r, m, G, Moved(tag, n))
<1> DEFINE new == Moved(tag, n)
           G == {k \in 1 .. Len(r) + 1 : k + n \in F}
<1>1. /\ F \subseteq 1 .. Len(s) + 1 /\ 1 \in F /\ Len(s) + 1 \in F
      /\ tag \in [Nat -> 0 .. m]
      /\ \A k \in Nat : tag[k] # 0 => k \in 1 .. Len(s)
      /\ \A k \in F : k <= Len(s) => FrameAt(s, F, k, tag[k])
  BY DEF Cut
<1>2. Len(s) \in Nat /\ Len(r) \in Nat /\ Len(Mail) \in Nat /\ n \in Nat
      /\ Len(s) = Len(r) + n
  BY Sizes
<1>3. G \subseteq 1 .. Len(r) + 1 /\ 1 \in G /\ Len(r) + 1 \in G
  <2>1. 1 \in 1 .. Len(r) + 1 /\ Len(r) + 1 \in 1 .. Len(r) + 1
        /\ 1 + n = n + 1 /\ Len(r) + 1 + n = Len(s) + 1
    BY <1>2
  <2> QED BY <1>1, <2>1
<1>4. /\ \A k \in Nat : k # 0 => new[k] = tag[k + n]
      /\ new[0] = 0
  BY DEF Moved
<1>5. new \in [Nat -> 0 .. m]
  <2>1. 0 \in 0 .. m /\ \A k \in Nat : k + n \in Nat
    BY <1>2
  <2>2. \A k \in Nat : tag[k + n] \in 0 .. m
    BY <1>1, <2>1
  <2> QED BY <2>1, <2>2 DEF Moved
<1> HIDE DEF new
<1>6. ASSUME NEW k \in Nat, new[k] # 0 PROVE k \in 1 .. Len(r)
  <2>1. k # 0 /\ tag[k + n] # 0 /\ k + n \in Nat
    BY <1>2, <1>4, <1>6
  <2>2. k + n \in 1 .. Len(s)
    BY <1>1, <2>1
  <2> QED BY <1>2, <2>1, <2>2
<1>7. ASSUME NEW k \in G, k <= Len(r) PROVE FrameAt(r, G, k, new[k])
  <2> DEFINE t == tag[k + n]
             L == Len(BodyOf(t))
             p == PacketOf(BodyOf(t))
  <2>1. k \in 1 .. Len(r) /\ k + n \in F /\ k + n <= Len(s) /\ k \in Nat
        /\ k + n \in Nat /\ k # 0 /\ r[k] = s[n + k] /\ n + k = k + n
    <3>1. k \in 1 .. Len(r) + 1 /\ k + n \in F
      OBVIOUS
    <3> HIDE DEF G
    <3>2. k \in 1 .. Len(r) /\ k \in Nat /\ k + n <= Len(s) /\ k + n \in Nat
          /\ k # 0 /\ n + k = k + n
      BY <1>2, <1>7, <3>1
    <3> QED BY <3>1, <3>2
  <2>2. new[k] = t /\ FrameAt(s, F, k + n, t)
    BY <1>1, <1>4, <2>1
  <2>3. t \in 0 .. Len(Mail)
    <3>1. t \in 0 .. m
      BY <1>1, <2>1
    <3> HIDE DEF t
    <3> QED BY <1>2, <3>1
  <2>4. L \in Nat /\ Len(p) = L + 4
    BY <2>3, PacketOfTag
  <2> HIDE DEF t
  <2>5. CASE t = 0 /\ s[k + n] = Idle /\ k + n + 1 \in F
    <3>1. k + 1 \in G
      <4>1. k + 1 \in 1 .. Len(r) + 1 /\ k + 1 + n = k + n + 1
        BY <1>2, <2>1
      <4> QED BY <2>5, <4>1
    <3> HIDE DEF G
    <3> QED BY <2>1, <2>2, <2>5, <3>1 DEF FrameAt
  <2>6. CASE Stands(s, k + n, p) /\ k + n + L + 4 \in F
    <3> HIDE DEF L, p
    <3>1. k + n + Len(p) - 1 <= Len(s) /\ \A j \in 1 .. Len(p) : s[k + n + j - 1] = p[j]
      BY <2>6 DEF Stands
    <3>2. k + Len(p) - 1 <= Len(r)
      BY <1>2, <2>1, <2>4, <3>1
    <3>3. ASSUME NEW j \in 1 .. Len(p) PROVE r[k + j - 1] = p[j]
      <4>1. k + j - 1 \in 1 .. Len(r) /\ n + (k + j - 1) = k + n + j - 1
        BY <1>2, <2>1, <2>4, <3>2
      <4> QED BY <3>1, <4>1
    <3>4. Stands(r, k, p)
      BY <3>2, <3>3 DEF Stands
    <3>5. k + L + 4 \in G
      <4>1. k + L + 4 \in 1 .. Len(r) + 1 /\ k + L + 4 + n = k + n + L + 4
        BY <1>2, <2>1, <2>4, <3>2
      <4> QED BY <2>6, <4>1
    <3> HIDE DEF G
    <3> QED BY <2>2, <3>4, <3>5 DEF FrameAt, p, L
  <2> QED BY <2>2, <2>5, <2>6 DEF FrameAt
<1>8. Cut(r, m, G, new)
  <2> HIDE DEF G
  <2> QED BY <1>3, <1>5, <1>6, <1>7 DEF Cut
<1> QED BY <1>8 DEF new

(* The tags keep rising.                                                    *)
LEMMA ShorterRises ==
  ASSUME NEW n \in Nat, NEW tag, Rising(tag)
  PROVE  Rising(Moved(tag, n))
<1> DEFINE new == Moved(tag, n)
<1> SUFFICES ASSUME NEW k \in Nat, NEW l \in Nat, k < l, new[k] # 0, new[l] # 0
             PROVE  new[k] < new[l]
  BY DEF Rising
<1>1. k # 0 /\ l # 0 /\ new[k] = tag[k + n] /\ new[l] = tag[l + n]
  BY DEF Moved
<1>2. k + n \in Nat /\ l + n \in Nat /\ k + n < l + n
  OBVIOUS
<1> QED BY <1>1, <1>2 DEF Rising

(* Frames are read and nothing is accepted.                                 *)
LEMMA ShorterIsTold ==
  ASSUME NEW s \in Seq(Word), NEW r \in Seq(Word), NEW n \in 0 .. Len(s),
         Len(r) = Len(s) - n, \A i \in 1 .. Len(r) : r[i] = s[n + i],
         NEW m \in 0 .. Len(Mail), NEW F, NEW tag, NEW got, NEW acc,
         Story(s, m, acc, F, tag, got), n + 1 \in F
  PROVE  Told(r, m, acc)
<1> DEFINE new == Moved(tag, n)
<1>1. n \in Nat /\ Cut(s, m, F, tag) /\ Rising(tag) /\ Got(m, acc, tag, got)
  BY DEF Story
<1>2. PICK G : Cut(r, m, G, new)
  BY <1>1, ShorterIsCut
<1>3. Rising(new)
  BY <1>1, ShorterRises
<1>4. Got(m, acc, new, got)
  <2>1. ASSUME NEW k \in Nat, new[k] # 0 PROVE k + n \in Nat /\ new[k] = tag[k + n]
    BY <1>1, <2>1 DEF Moved
  <2> HIDE DEF new
  <2> QED BY <1>1, <2>1 DEF Got
<1> QED BY <1>2, <1>3, <1>4 DEF Story, Told

(* A packet is read: it is the first of the lane, and comes after everything *)
(* that was accepted before.                                                *)
LEMMA TakenIsTold ==
  ASSUME NEW s \in Seq(Word), NEW r \in Seq(Word), NEW n \in 0 .. Len(s),
         Len(r) = Len(s) - n, \A i \in 1 .. Len(r) : r[i] = s[n + i], n >= 1,
         NEW m \in 0 .. Len(Mail), NEW F, NEW tag, NEW got, NEW acc \in Seq(Body),
         Story(s, m, acc, F, tag, got), n + 1 \in F, tag[1] # 0
  PROVE  Told(r, m, Append(acc, Mail[tag[1]]))
<1> DEFINE new == Moved(tag, n)
           K == Len(acc)
           b == Append(acc, Mail[tag[1]])
           t == tag[1]
           more == [i \in 1 .. K + 1 |-> IF i = K + 1 THEN t ELSE got[i]]
<1>1. n \in Nat /\ Cut(s, m, F, tag) /\ Rising(tag) /\ Got(m, acc, tag, got)
  BY DEF Story
<1>2. PICK G : Cut(r, m, G, new)
  BY <1>1, ShorterIsCut
<1>3. Rising(new)
  BY <1>1, ShorterRises
<1>4. ASSUME NEW k \in Nat, new[k] # 0
      PROVE  k + n \in Nat /\ new[k] = tag[k + n] /\ 1 < k + n /\ tag[k + n] # 0
  BY <1>1, <1>4 DEF Moved
<1> HIDE DEF new
<1>5. /\ K \in Nat /\ Len(b) = K + 1
      /\ \A i \in 1 .. K : b[i] = acc[i]
      /\ b[K + 1] = Mail[t]
  BY AppendProperties
<1>6. /\ got \in [1 .. K -> 1 .. m]
      /\ \A i \in 1 .. K : acc[i] = Mail[got[i]]
      /\ \A i, j \in 1 .. K : i < j => got[i] < got[j]
      /\ \A i \in 1 .. K, k \in Nat : tag[k] # 0 => got[i] < tag[k]
  BY <1>1 DEF Got
<1>7. t \in 1 .. m
  <2>1. tag \in [Nat -> 0 .. m] /\ 1 \in Nat
    BY <1>1 DEF Cut
  <2>2. t \in 0 .. m /\ t # 0
    BY <2>1
  <2> HIDE DEF t
  <2> QED BY <2>2
<1>8. /\ more \in [1 .. K + 1 -> 1 .. m] /\ more[K + 1] = t
      /\ \A i \in 1 .. K : more[i] = got[i]
  <2> HIDE DEF K, t
  <2>1. K + 1 \in 1 .. K + 1 /\ \A i \in 1 .. K : i \in 1 .. K + 1 /\ i # K + 1
    BY <1>5
  <2>2. \A i \in 1 .. K + 1 : i # K + 1 => i \in 1 .. K
    BY <1>5
  <2>3. \A i \in 1 .. K : got[i] \in 1 .. m
    BY <1>6
  <2>4. \A i \in 1 .. K + 1 : (IF i = K + 1 THEN t ELSE got[i]) \in 1 .. m
    BY <1>7, <2>2, <2>3
  <2> QED BY <2>1, <2>4
<1> HIDE DEF more, b
<1>9. \A i \in 1 .. K + 1 : i \in 1 .. K \/ i = K + 1
  <2> HIDE DEF K
  <2> QED BY <1>5
<1>10. \A i \in 1 .. K : got[i] < t
  BY <1>6
<1>11. Got(m, b, new, more)
  <2>1. more \in [1 .. Len(b) -> 1 .. m]
    BY <1>5, <1>8
  <2>2. \A i \in 1 .. Len(b) : b[i] = Mail[more[i]]
    <3> HIDE DEF K, t
    <3> QED BY <1>5, <1>6, <1>8, <1>9
  <2>3. ASSUME NEW i \in 1 .. Len(b), NEW j \in 1 .. Len(b), i < j
        PROVE  more[i] < more[j]
    <3> HIDE DEF K, t
    <3>1. i \in 1 .. K
      BY <1>5, <2>3
    <3>2. CASE j = K + 1
      BY <1>8, <1>10, <3>1, <3>2
    <3>3. CASE j \in 1 .. K
      BY <1>6, <1>8, <2>3, <3>1, <3>3
    <3> QED BY <1>5, <1>9, <3>2, <3>3
  <2>4. ASSUME NEW i \in 1 .. Len(b), NEW k \in Nat, new[k] # 0
        PROVE  more[i] < new[k]
    <3>1. k + n \in Nat /\ new[k] = tag[k + n] /\ 1 < k + n /\ tag[k + n] # 0
      BY <1>4, <2>4
    <3>2. t < tag[k + n]
      <4>1. PICK o \in Nat : o = 1
        OBVIOUS
      <4> QED BY <1>1, <3>1, <4>1 DEF Rising
    <3> HIDE DEF K, t
    <3>3. CASE i = K + 1
      BY <1>8, <3>1, <3>2, <3>3
    <3>4. CASE i \in 1 .. K
      BY <1>6, <1>8, <3>1, <3>4
    <3> QED BY <1>5, <1>9, <3>3, <3>4
  <2> QED BY <2>1, <2>2, <2>3, <2>4 DEF Got
<1>12. Told(r, m, b)
  BY <1>2, <1>3, <1>11 DEF Story, Told
<1> QED BY <1>12 DEF b

(* More packets may have been sent than were told of.                       *)
LEMMA MoreIsTold ==
  ASSUME NEW s, NEW m \in Nat, NEW n \in Nat, m <= n, NEW acc, Told(s, m, acc)
  PROVE  Told(s, n, acc)
<1>1. PICK F, tag, got : Story(s, m, acc, F, tag, got)
  BY DEF Told
<1>2. (\A k \in 0 .. m : k \in 0 .. n) /\ \A k \in 1 .. m : k \in 1 .. n
  OBVIOUS
<1>3. Cut(s, n, F, tag)
  <2>1. tag \in [Nat -> 0 .. m]
    BY <1>1 DEF Story, Cut
  <2>2. tag \in [Nat -> 0 .. n]
    BY <1>2, <2>1
  <2> QED BY <1>1, <2>2 DEF Story, Cut
<1>4. Got(n, acc, tag, got)
  <2>1. got \in [1 .. Len(acc) -> 1 .. m]
    BY <1>1 DEF Story, Got
  <2>2. got \in [1 .. Len(acc) -> 1 .. n]
    BY <1>2, <2>1
  <2> QED BY <1>1, <2>2 DEF Story, Got
<1> QED BY <1>1, <1>3, <1>4 DEF Story, Told

----------------------------------------------------------------------------
(* Nothing has gone wrong, and no interrupt got in between two steps of the  *)
(* main loop.                                                               *)
Calm == faults = 0 /\ ~raced

(* The words not read yet and those that wait to leave.                     *)
LaneOf(in, w, out) ==
  [i \in 1 .. Len(in) + w |-> IF i <= Len(in) THEN in[i] ELSE out[i - Len(in) - 1]]

Lane == LaneOf(incoming, write, outgoing)

(* How many packets of Mail were written to the end or given up.            *)
Sent == IF call["main"].active THEN mailed - 1 ELSE mailed

(* A SioSend has written the first words of the packet, behind those that    *)
(* wait to leave, and has the others in hand.                               *)
InProgress(x, w, out, body) ==
  x.active =>
    /\ w <= x.cur
    /\ x.cur - w + Len(x.todo) = Len(body) + 4
    /\ \A j \in 1 .. x.cur - w : out[w + j - 1] = PacketOf(body)[j]
    /\ \A j \in 1 .. Len(x.todo) : x.todo[j] = PacketOf(body)[x.cur - w + j]

Quiet ==
  /\ clearing = "no" /\ playing /\ ~late
  /\ call["vblank"].active => ~call["main"].active
  /\ call["main"].active => mailed \in 1 .. Len(Mail)
  /\ InProgress(call["main"], write, outgoing, Mail[mailed])
  /\ InProgress(call["vblank"], write, outgoing, Again)
  /\ Told(Lane, Sent, accepted)

(* The ring and its cursors, in the form the provers use best.              *)
LEMMA RingIs ==
  ASSUME TypeOK
  PROVE  /\ Count \in Nat /\ write \in Nat /\ write < RingSize
         /\ RingSize \in Nat /\ incoming \in Seq(Word) /\ Len(incoming) = Count
         /\ \A i \in 1 .. Count : incoming[i] \in Word
         /\ \A i \in 0 .. RingSize - 1 : outgoing[i] \in Word
         /\ mailed \in Nat /\ mailed <= Len(Mail)
<1>1. RingSize \in Nat /\ Len(Mail) \in Nat
  BY Sizes
<1> QED BY <1>1 DEF TypeOK, Count, Cursor

(* The lane is a sequence of words.                                         *)
LEMMA LaneOfIs ==
  ASSUME NEW in \in Seq(Word), NEW w \in Cursor, NEW out \in [Cursor -> Word]
  PROVE  /\ LaneOf(in, w, out) \in Seq(Word)
         /\ Len(LaneOf(in, w, out)) = Len(in) + w
         /\ \A i \in 1 .. Len(in) : LaneOf(in, w, out)[i] = in[i]
         /\ \A i \in 1 .. w : LaneOf(in, w, out)[Len(in) + i] = out[i - 1]
<1> DEFINE m == Len(in)
           word(i) == IF i <= m THEN in[i] ELSE out[i - m - 1]
           n == m + w
           lane == LaneOf(in, w, out)
<1>1. /\ m \in Nat /\ w \in Nat /\ w < RingSize /\ RingSize \in Nat
      /\ \A i \in 1 .. m : in[i] \in Word
      /\ \A i \in 0 .. RingSize - 1 : out[i] \in Word
  BY Sizes DEF Cursor
<1>2. n \in Nat
  BY <1>1
<1>3. ASSUME NEW i \in 1 .. n PROVE word(i) \in Word
  <2>1. CASE i <= m
    BY <1>1, <2>1
  <2>2. CASE ~(i <= m)
    <3>1. i - m - 1 \in 0 .. RingSize - 1
      BY <1>1, <2>2
    <3> QED BY <1>1, <2>2, <3>1
  <2> QED BY <2>1, <2>2
<1>4. ASSUME NEW i \in 1 .. m PROVE word(i) = in[i] /\ i \in 1 .. n
  BY <1>1
<1>5. ASSUME NEW i \in 1 .. w
      PROVE  word(m + i) = out[i - 1] /\ m + i \in 1 .. n
  <2>1. PICK x \in Nat : x = m + i
    BY <1>1
  <2>2. x - m - 1 = i - 1 /\ ~(x <= m) /\ x \in 1 .. n
    BY <1>1, <2>1
  <2>3. word(x) = out[x - m - 1]
    BY <2>2
  <2> HIDE DEF word
  <2> QED BY <2>1, <2>2, <2>3
<1>6. lane = [i \in 1 .. n |-> word(i)]
  BY DEF LaneOf
<1> HIDE DEF word, n, lane, m
<1>7. lane \in Seq(Word) /\ Len(lane) = n
  BY <1>2, <1>3, <1>6
<1>8. /\ \A i \in 1 .. m : lane[i] = in[i]
      /\ \A i \in 1 .. w : lane[m + i] = out[i - 1]
  BY <1>4, <1>5, <1>6
<1> QED BY <1>7, <1>8 DEF n, lane, m

(* So is the one of a state.                                                *)
LEMMA LaneIs ==
  ASSUME TypeOK
  PROVE  /\ Lane \in Seq(Word) /\ Len(Lane) = Count + write
         /\ \A i \in 1 .. Count : Lane[i] = incoming[i]
         /\ \A i \in 1 .. write : Lane[Count + i] = outgoing[i - 1]
BY LaneOfIs DEF TypeOK, Lane, Count

(* The numbers of the packets told of.                                      *)
LEMMA SentIs ==
  ASSUME TypeOK, Quiet
  PROVE  Sent \in 0 .. Len(Mail) /\ Sent \in Nat /\ Sent <= mailed
BY RingIs, Sizes DEF Quiet, Sent

(* The lane begins with the packet of t.                                    *)
Begins(F, tag, got, t) ==
  /\ Story(Lane, Sent, accepted, F, tag, got) /\ tag[1] = t
  /\ Len(BodyOf(t)) + 4 <= Count + write
  /\ \A j \in 1 .. Len(BodyOf(t)) + 4 :
       j <= Count => incoming[j] = PacketOf(BodyOf(t))[j]
  /\ Len(BodyOf(t)) + 4 + 1 \in F

(* A magic at the front of the lane begins a packet.                        *)
LEMMA FirstFrame ==
  ASSUME TypeOK, Quiet, Count > 0, incoming[1] = Magic
  PROVE  \E t \in 0 .. Len(Mail) : \E F, tag, got : Begins(F, tag, got, t)
<1>1. PICK F, tag, got : Story(Lane, Sent, accepted, F, tag, got)
  BY DEF Quiet, Told
<1>2. /\ Count \in Nat /\ write \in Nat /\ Len(Lane) = Count + write
      /\ \A i \in 1 .. Count : Lane[i] = incoming[i]
  BY RingIs, LaneIs
<1>3. PICK o \in Nat : o = 1
  OBVIOUS
<1>4. o \in F /\ o <= Len(Lane) /\ tag \in [Nat -> 0 .. Sent]
      /\ \A k \in F : k <= Len(Lane) => FrameAt(Lane, F, k, tag[k])
  BY <1>1, <1>2, <1>3 DEF Story, Cut
<1>5. PICK t \in 0 .. Len(Mail) : t = tag[1]
  <2>1. tag[o] \in 0 .. Sent /\ Sent \in 0 .. Len(Mail) /\ Len(Mail) \in Nat
    BY <1>3, <1>4, SentIs, Sizes
  <2>2. tag[o] \in 0 .. Len(Mail)
    BY <2>1
  <2> QED BY <1>3, <2>2
<1> DEFINE L == Len(BodyOf(t))
           p == PacketOf(BodyOf(t))
<1>6. FrameAt(Lane, F, o, t)
  BY <1>3, <1>4, <1>5
<1>7. Lane[o] # Idle
  BY <1>2, <1>3 DEF Magic, Idle
<1>8. Stands(Lane, o, p) /\ o + L + 4 \in F
  BY <1>6, <1>7 DEF FrameAt
<1>9. L \in Nat /\ Len(p) = L + 4
  BY <1>5, PacketOfTag
<1> HIDE DEF L, p
<1>10. o + Len(p) - 1 <= Len(Lane) /\ \A j \in 1 .. Len(p) : Lane[o + j - 1] = p[j]
  BY <1>8 DEF Stands
<1>11. ASSUME NEW j \in 1 .. L + 4, j <= Count PROVE incoming[j] = p[j]
  <2>1. o + j - 1 = j /\ j \in 1 .. Count
    BY <1>2, <1>3, <1>9, <1>11
  <2> QED BY <1>2, <1>9, <1>10, <2>1
<1>12. L + 4 <= Count + write /\ L + 4 + 1 = o + L + 4
  BY <1>2, <1>3, <1>9, <1>10
<1>13. Begins(F, tag, got, t)
  <2>1. /\ Story(Lane, Sent, accepted, F, tag, got) /\ tag[1] = t
        /\ L + 4 <= Count + write
        /\ \A j \in 1 .. L + 4 : j <= Count => incoming[j] = p[j]
        /\ L + 4 + 1 \in F
    BY <1>1, <1>5, <1>8, <1>11, <1>12
  <2> QED BY <2>1 DEF L, p, Begins
<1> QED BY <1>13

(* What Sio_ReadPacket finds while nothing goes wrong is a whole packet: its *)
(* length is never too large, its sums match, and the ring is never full.    *)
LEMMA CalmFrames ==
  ASSUME TypeOK, Quiet, Framed
  PROVE  /\ Length <= MaxBody
         /\ Length + 6 <= Count =>
              \E t \in 0 .. Len(Mail) : \E F, tag, got :
                Begins(F, tag, got, t) /\ Length = Len(BodyOf(t))
                /\ Returned = BodyOf(t) /\ SumsMatch
<1>1. Count > 4 /\ incoming[1] = Magic
  BY DEF Framed
<1>2. /\ Count \in Nat /\ write \in Nat
  BY RingIs
<1>3. PICK t \in 0 .. Len(Mail) : \E F, tag, got : Begins(F, tag, got, t)
  BY <1>1, <1>2, FirstFrame
<1>4. PICK F, tag, got : Begins(F, tag, got, t)
  BY <1>3
<1> DEFINE b == BodyOf(t)
           L == Len(b)
           p == PacketOf(b)
<1>5. b \in Body
  BY <1>3, BodyOfIs
<1>6. L \in Nat /\ L <= MaxBody /\ b \in Seq(Word)
  BY <1>5, BodyIs
<1>7. /\ p[2] = L /\ p[3] = SumA(b) /\ p[4] = SumB(b)
      /\ \A i \in 1 .. L : p[i + 4] = b[i]
  BY <1>5, PacketIs
<1>8. incoming[2] = L /\ incoming[3] = SumA(b) /\ incoming[4] = SumB(b)
  <2>1. PICK x \in Nat, y \in Nat, z \in Nat : x = 2 /\ y = 3 /\ z = 4
    OBVIOUS
  <2>2. /\ x \in 1 .. L + 4 /\ y \in 1 .. L + 4 /\ z \in 1 .. L + 4
        /\ x <= Count /\ y <= Count /\ z <= Count
    BY <1>1, <1>2, <1>6, <2>1
  <2>3. incoming[x] = p[x] /\ incoming[y] = p[y] /\ incoming[z] = p[z]
    BY <1>4, <2>2 DEF Begins
  <2> QED BY <1>7, <2>1, <2>3
<1>9. Length = L
  BY <1>8 DEF Length
<1>10. ASSUME Length + 6 <= Count
      PROVE  Returned = b /\ SumsMatch
  <2>1. /\ Returned \in Body /\ Len(Returned) = L
        /\ \A i \in 1 .. L : Returned[i] = incoming[i + 4]
    BY <1>6, <1>9, <1>10, ReturnedTyped
  <2>2. ASSUME NEW i \in 1 .. L PROVE Returned[i] = b[i]
    <3>1. i + 4 \in 1 .. L + 4 /\ i + 4 <= Count
      BY <1>2, <1>6, <1>9, <1>10
    <3>2. incoming[i + 4] = p[i + 4]
      BY <1>4, <3>1 DEF Begins
    <3> QED BY <1>7, <2>1, <3>2
  <2>3. Returned \in Seq(Word)
    BY <2>1, BodyIs
  <2>4. Returned = b
    <3> HIDE DEF b
    <3> QED BY <1>6, <2>1, <2>2, <2>3, SeqEqual
  <2>5. SumsMatch
    BY <1>8, <2>4 DEF SumsMatch
  <2> QED BY <2>4, <2>5
<1> QED BY <1>3, <1>4, <1>6, <1>9, <1>10

(* A reader that keeps up never finds its ring full.                        *)
LEMMA CalmIsNotFull ==
  ASSUME TypeOK, Quiet, ~CanRead
  PROVE  ~RingIsFull
<1>1. Count \in Nat /\ Len(incoming) = Count /\ RingSize \in Nat /\ MaxBody \in Nat
      /\ RingSize >= MaxBody + 7 /\ MaxBody >= 1
  BY RingIs, Sizes
<1>2. CASE Framed
  <2>1. Length <= MaxBody
    BY <1>2, CalmFrames
  <2>2. ~(Length + 6 <= Count)
    BY <1>2, <2>1 DEF CanRead
  <2>3. Length \in Nat
    <3>1. incoming[2] \in Word
      BY <1>1, <1>2, RingIs DEF Framed
    <3> QED BY <3>1, Sizes DEF Word, Length
  <2> QED BY <1>1, <2>1, <2>2, <2>3 DEF RingIsFull
<1>3. CASE ~Framed
  <2>1. Count <= 4
    BY <1>1, <1>3 DEF CanRead, Framed
  <2> QED BY <1>1, <2>1 DEF RingIsFull
<1> QED BY <1>2, <1>3

----------------------------------------------------------------------------
(* The lane is the same when neither the words not read yet nor those that  *)
(* wait to leave change.                                                    *)
LEMMA LaneStays ==
  ASSUME TypeOK, TypeOK', incoming' = incoming, write' = write,
         \A i \in 0 .. write - 1 : outgoing'[i] = outgoing[i]
  PROVE  Lane' = Lane
<1>1. Count \in Nat /\ write \in Nat
  BY RingIs
<1>2. /\ Lane \in Seq(Word) /\ Len(Lane) = Count + write
      /\ \A i \in 1 .. Count : Lane[i] = incoming[i]
      /\ \A i \in 1 .. write : Lane[Count + i] = outgoing[i - 1]
  BY LaneIs
<1>3. /\ Lane' \in Seq(Word) /\ Len(Lane') = Count + write
      /\ \A i \in 1 .. Count : Lane'[i] = incoming[i]
      /\ \A i \in 1 .. write : Lane'[Count + i] = outgoing'[i - 1]
  <2>1. incoming \in Seq(Word) /\ write \in Cursor /\ outgoing' \in [Cursor -> Word]
    BY DEF TypeOK
  <2>2. Lane' = LaneOf(incoming, write, outgoing')
    BY DEF Lane
  <2> QED BY <2>1, <2>2, LaneOfIs DEF Count
<1>4. ASSUME NEW i \in 1 .. Len(Lane) PROVE Lane'[i] = Lane[i]
  <2>1. CASE i <= Count
    <3>1. i \in 1 .. Count
      BY <1>1, <1>2, <2>1
    <3> QED BY <1>1, <1>2, <1>3, <3>1
  <2>2. CASE ~(i <= Count)
    <3>1. PICK l \in 1 .. write : i = Count + l
      <4>1. i - Count \in 1 .. write /\ i = Count + (i - Count)
        BY <1>1, <1>2, <2>2
      <4> QED BY <4>1
    <3>2. l - 1 \in 0 .. write - 1
      BY <1>1
    <3> QED BY <1>1, <1>2, <1>3, <3>1, <3>2
  <2> QED BY <2>1, <2>2
<1>5. Len(Lane') = Len(Lane)
  BY <1>1, <1>2, <1>3
<1> QED BY <1>2, <1>3, <1>4, <1>5, SeqEqual

(* A call that begins has nothing written and the whole packet in hand.     *)
LEMMA BeginsWell ==
  ASSUME TypeOK, NEW body \in Body,
         NEW x, x = [cur |-> write, todo |-> PacketOf(body), active |-> TRUE]
  PROVE  InProgress(x, write, outgoing, body)
<1>1. write \in Nat /\ Len(body) \in Nat /\ Len(PacketOf(body)) = Len(body) + 4
  BY RingIs, BodyIs, PacketIs
<1>2. x.cur = write /\ x.todo = PacketOf(body)
  OBVIOUS
<1>3. write - write = 0 /\ \A j \in Nat : 0 + j = j
  BY <1>1
<1>4. \A j \in 1 .. Len(x.todo) : x.todo[j] = PacketOf(body)[x.cur - write + j]
  BY <1>2, <1>3
<1>5. x.cur - write + Len(x.todo) = Len(body) + 4 /\ write <= x.cur
      /\ 1 .. x.cur - write = {}
  BY <1>1, <1>2, <1>3
<1> QED BY <1>4, <1>5 DEF InProgress

(* Being in no call.                                                        *)
LEMMA NotInProgress ==
  ASSUME NEW x, ~x.active, NEW w, NEW out, NEW body
  PROVE  InProgress(x, w, out, body)
BY DEF InProgress

(* The main loop begins to send.                                            *)
LEMMA CalmSendMail ==
  ASSUME TypeOK, TypeOK', Quiet, SendMail
  PROVE  Quiet'
<1>1. mailed + 1 \in 1 .. Len(Mail) /\ mailed' = mailed + 1 /\ mailed \in Nat
  BY RingIs, Sizes DEF SendMail
<1>2. /\ ~call["main"].active /\ ~call["vblank"].active
      /\ call' = [call EXCEPT !["main"] =
           [cur |-> write, todo |-> PacketOf(Mail[mailed + 1]), active |-> TRUE]]
      /\ call \in [{"main", "vblank"} -> Call]
  BY DEF SendMail, Begin, Runs, TypeOK
<1>3. /\ call'["main"] =
           [cur |-> write, todo |-> PacketOf(Mail[mailed + 1]), active |-> TRUE]
      /\ call'["vblank"] = call["vblank"] /\ call'["main"].active
  BY <1>2
<1>4. UNCHANGED <<outgoing, write, clearing, playing, incoming, late, accepted>>
  BY DEF SendMail
<1>5. InProgress(call'["main"], write', outgoing', Mail[mailed'])
  <2>1. Mail[mailed + 1] \in Body
    BY <1>1, Sizes
  <2> QED BY <1>1, <1>3, <1>4, <2>1, BeginsWell
<1>6. InProgress(call'["vblank"], write', outgoing', Again)
  BY <1>2, <1>3, NotInProgress
<1>7. Told(Lane', Sent', accepted')
  <2>1. Lane' = Lane
    BY <1>4, LaneStays
  <2>2. Sent' = Sent
    <3>1. Sent' = mailed' - 1 /\ Sent = mailed
      BY <1>2, <1>3 DEF Sent
    <3> QED BY <1>1, <3>1
  <2> QED BY <1>4, <2>1, <2>2 DEF Quiet
<1>8. mailed' \in 1 .. Len(Mail) /\ ~call'["vblank"].active
  BY <1>1, <1>2, <1>3
<1> QED BY <1>4, <1>5, <1>6, <1>7, <1>8 DEF Quiet

(* The interrupt begins to send, and not between two steps of the main loop. *)
LEMMA CalmSendAgain ==
  ASSUME TypeOK, TypeOK', Quiet, SendAgain, ~raced'
  PROVE  Quiet'
<1>1. /\ ~call["main"].active /\ ~call["vblank"].active
      /\ call' = [call EXCEPT !["vblank"] =
           [cur |-> write, todo |-> PacketOf(Again), active |-> TRUE]]
      /\ call \in [{"main", "vblank"} -> Call]
  BY DEF SendAgain, Begin, Between, TypeOK
<1>2. /\ call'["vblank"] = [cur |-> write, todo |-> PacketOf(Again), active |-> TRUE]
      /\ call'["main"] = call["main"] /\ ~call'["main"].active
  BY <1>1
<1>3. UNCHANGED <<outgoing, write, clearing, playing, mailed, incoming, late, accepted>>
  BY DEF SendAgain
<1>4. InProgress(call'["vblank"], write', outgoing', Again)
  BY <1>2, <1>3, Sizes, BeginsWell
<1>5. InProgress(call'["main"], write', outgoing', Mail[mailed'])
  BY <1>2, NotInProgress
<1>6. Told(Lane', Sent', accepted')
  <2>1. Lane' = Lane
    BY <1>3, LaneStays
  <2>2. Sent' = Sent
    BY <1>2, <1>3 DEF Sent
  <2> QED BY <1>3, <2>1, <2>2 DEF Quiet
<1> QED BY <1>2, <1>3, <1>4, <1>5, <1>6 DEF Quiet

(* A word more is written and one less in hand.                             *)
LEMMA WritesOn ==
  ASSUME NEW x \in Call, NEW w \in Nat, NEW out \in [Cursor -> Word], NEW body \in Body,
         x.active, x.todo # << >>, InProgress(x, w, out, body),
         After(x.cur) # 0,
         NEW y, y = [cur |-> After(x.cur), todo |-> Tail(x.todo), active |-> TRUE],
         NEW more, more = [out EXCEPT ![x.cur] = Head(x.todo)]
  PROVE  InProgress(y, w, more, body)
<1> DEFINE p == PacketOf(body)
           n == x.cur - w
<1>1. /\ x.cur \in Cursor /\ x.cur \in Nat /\ x.todo \in Seq(Word)
      /\ Len(x.todo) \in Nat
  BY Sizes DEF Call, Cursor
<1>2. /\ w <= x.cur /\ n + Len(x.todo) = Len(body) + 4 /\ Len(body) \in Nat
      /\ \A j \in 1 .. n : out[w + j - 1] = p[j]
      /\ \A j \in 1 .. Len(x.todo) : x.todo[j] = p[n + j]
  BY BodyIs DEF InProgress
<1>3. After(x.cur) = x.cur + 1
  BY <1>1, CursorSteps
<1>4. /\ Len(x.todo) >= 1 /\ Head(x.todo) = x.todo[1]
      /\ Len(Tail(x.todo)) = Len(x.todo) - 1
      /\ \A j \in 1 .. Len(x.todo) - 1 : Tail(x.todo)[j] = x.todo[j + 1]
  BY <1>1, HeadTailProperties
<1>5. y.cur = x.cur + 1 /\ y.todo = Tail(x.todo) /\ n \in Nat
      /\ y.cur - w = n + 1
  BY <1>1, <1>2, <1>3
<1>6. x.todo[1] = p[n + 1]
  <2>1. PICK o \in 1 .. Len(x.todo) : o = 1
    BY <1>1, <1>4
  <2> QED BY <1>2, <2>1
<1>7. more[x.cur] = p[n + 1]
  BY <1>1, <1>4, <1>6
<1>8. \A i \in Cursor : i # x.cur => more[i] = out[i]
  OBVIOUS
<1> HIDE DEF p
<1>9. ASSUME NEW j \in 1 .. n + 1 PROVE more[w + j - 1] = p[j]
  <2>1. CASE j = n + 1
    <3>1. w + j - 1 = x.cur
      BY <1>1, <2>1
    <3> QED BY <1>7, <2>1, <3>1
  <2>2. CASE j # n + 1
    <3>1. j \in 1 .. n /\ w + j - 1 \in 0 .. x.cur - 1
      <4> DEFINE e == x.cur
      <4>1. e \in Nat /\ n = e - w /\ n \in Nat
        BY <1>1, <1>5
      <4> HIDE DEF e, n
      <4>2. j \in 1 .. n /\ w + j - 1 \in 0 .. e - 1
        BY <2>2, <4>1
      <4> QED BY <4>2 DEF e
    <3>2. w + j - 1 \in Cursor /\ w + j - 1 # x.cur
      BY <1>1, <3>1, Sizes DEF Cursor
    <3> QED BY <1>2, <1>8, <3>1, <3>2
  <2> QED BY <2>1, <2>2
<1>10. ASSUME NEW j \in 1 .. Len(x.todo) - 1 PROVE Tail(x.todo)[j] = p[n + 1 + j]
  <2>1. j + 1 \in 1 .. Len(x.todo) /\ n + 1 + j = n + (j + 1)
    BY <1>1, <1>5
  <2> QED BY <1>2, <1>4, <2>1
<1>11. /\ w <= y.cur /\ y.cur - w + Len(y.todo) = Len(body) + 4
       /\ Len(y.todo) = Len(x.todo) - 1
  BY <1>1, <1>2, <1>4, <1>5
<1> DEFINE k == n + 1
<1>12. /\ y.cur - w = k /\ Len(y.todo) = Len(x.todo) - 1
       /\ \A j \in 1 .. k : more[w + j - 1] = p[j]
       /\ \A j \in 1 .. Len(x.todo) - 1 : y.todo[j] = p[k + j]
  BY <1>5, <1>9, <1>10, <1>11
<1> HIDE DEF k
<1> QED BY <1>11, <1>12 DEF InProgress, p

(* A SioSend writes a word.                                                 *)
LEMMA CalmWrite ==
  ASSUME TypeOK, TypeOK', Quiet, NEW c \in {"main", "vblank"}, Write(c)
  PROVE  Quiet'
<1>1. /\ Runs(c) /\ call[c].active /\ call[c].todo # << >>
      /\ outgoing' = [outgoing EXCEPT ![call[c].cur] = Head(call[c].todo)]
      /\ UNCHANGED <<write, clearing, playing, mailed, incoming, late, accepted>>
  BY DEF Write
<1> DEFINE next == After(call[c].cur)
           on == [cur |-> next, todo |-> Tail(call[c].todo), active |-> TRUE]
<1>2. /\ call \in [{"main", "vblank"} -> Call] /\ call[c] \in Call
      /\ outgoing \in [Cursor -> Word] /\ write \in Nat /\ call[c].cur \in Cursor
  BY RingIs DEF TypeOK, Call
<1>3. call' = [call EXCEPT ![c] = IF next = 0 THEN NotCalled ELSE on]
  BY DEF Write
<1>4. call'[c] = (IF next = 0 THEN NotCalled ELSE on)
      /\ \A d \in {"main", "vblank"} : d # c => call'[d] = call[d]
  <2> HIDE DEF on, next
  <2> QED BY <1>2, <1>3
<1>5. \A d \in {"main", "vblank"} : d # c => ~call[d].active
  BY <1>1 DEF Quiet
<1>6. ASSUME NEW body \in Body, InProgress(call[c], write, outgoing, body)
      PROVE  InProgress(call'[c], write', outgoing', body)
  <2>1. CASE next = 0
    <3>1. ~call'[c].active
      BY <1>4, <2>1 DEF NotCalled
    <3> QED BY <3>1, NotInProgress
  <2>2. CASE next # 0
    <3>1. call'[c] = on
      BY <1>4, <2>2
    <3> QED BY <1>1, <1>2, <1>6, <2>2, <3>1, WritesOn
  <2> QED BY <2>1, <2>2
<1>7. call[c].cur >= write
  BY <1>1, <1>2 DEF Quiet, InProgress
<1>8. Lane' = Lane
  <2>1. ASSUME NEW i \in 0 .. write - 1 PROVE outgoing'[i] = outgoing[i]
    <3>1. i \in Cursor /\ i # call[c].cur
      BY <1>2, <1>7, RingIs DEF Cursor
    <3> QED BY <1>1, <1>2, <3>1
  <2> QED BY <1>1, <2>1, LaneStays
<1>9. InProgress(call'["main"], write', outgoing', Mail[mailed'])
  <2>1. CASE c = "main"
    <3>1. Mail[mailed] \in Body
      BY <1>1, <2>1, Sizes DEF Quiet
    <3> QED BY <1>1, <1>6, <2>1, <3>1 DEF Quiet
  <2>2. CASE c # "main"
    <3>1. ~call'["main"].active
      BY <1>4, <1>5, <2>2
    <3> QED BY <3>1, NotInProgress
  <2> QED BY <2>1, <2>2
<1>10. InProgress(call'["vblank"], write', outgoing', Again)
  <2>1. CASE c = "vblank"
    BY <1>6, <2>1, Sizes DEF Quiet
  <2>2. CASE c # "vblank"
    <3>1. ~call'["vblank"].active
      BY <1>4, <1>5, <2>2
    <3> QED BY <3>1, NotInProgress
  <2> QED BY <2>1, <2>2
<1>11. call'["main"].active => call["main"].active /\ ~call'["vblank"].active
  <2>1. call'["main"].active => c = "main"
    BY <1>4, <1>5
  <2> QED BY <1>1, <1>4, <1>5, <2>1
<1>12. Told(Lane', Sent', accepted')
  <2>1. Sent \in Nat /\ Sent <= mailed /\ mailed \in Nat
    BY SentIs, RingIs
  <2>2. Sent' \in Nat /\ Sent <= Sent'
    <3>1. CASE call'["main"].active
      BY <1>1, <1>11, <2>1, <3>1 DEF Sent
    <3>2. CASE ~call'["main"].active
      <4>1. Sent' = mailed
        BY <1>1, <3>2 DEF Sent
      <4> QED BY <2>1, <4>1
    <3> QED BY <3>1, <3>2
  <2>3. Told(Lane, Sent, accepted)
    BY DEF Quiet
  <2>4. Told(Lane, Sent', accepted)
    BY <2>1, <2>2, <2>3, MoreIsTold
  <2> QED BY <1>1, <1>8, <2>4
<1> QED BY <1>1, <1>9, <1>10, <1>11, <1>12 DEF Quiet

(* The words that wait to leave follow those that were read.                *)
LEMMA LaneGrows ==
  ASSUME NEW in \in Seq(Word), NEW w \in Cursor, NEW out \in [Cursor -> Word],
         NEW v \in Cursor, w <= v
  PROVE  /\ Len(LaneOf(in, v, out)) = Len(LaneOf(in, w, out)) + (v - w)
         /\ \A i \in 1 .. Len(LaneOf(in, w, out)) :
              LaneOf(in, v, out)[i] = LaneOf(in, w, out)[i]
         /\ \A i \in 1 .. v - w :
              LaneOf(in, v, out)[Len(LaneOf(in, w, out)) + i] = out[w + i - 1]
<1> DEFINE m == Len(in)
           s == LaneOf(in, w, out)
           r == LaneOf(in, v, out)
<1>1. m \in Nat /\ w \in Nat /\ v \in Nat
  BY Sizes DEF Cursor
<1>2. /\ Len(s) = m + w /\ Len(r) = m + v
      /\ \A i \in 1 .. m : s[i] = in[i] /\ r[i] = in[i]
      /\ \A i \in 1 .. w : s[m + i] = out[i - 1]
      /\ \A i \in 1 .. v : r[m + i] = out[i - 1]
  BY LaneOfIs
<1> HIDE DEF s, r, m
<1>3. ASSUME NEW i \in 1 .. m + w PROVE r[i] = s[i]
  <2>1. CASE i <= m
    <3>1. i \in 1 .. m
      BY <1>1, <2>1
    <3> QED BY <1>2, <3>1
  <2>2. CASE ~(i <= m)
    <3>1. PICK l \in 1 .. w : i = m + l
      <4>1. i - m \in 1 .. w /\ i = m + (i - m)
        BY <1>1, <2>2
      <4> QED BY <4>1
    <3>2. l \in 1 .. v
      BY <1>1
    <3> QED BY <1>2, <3>1, <3>2
  <2> QED BY <2>1, <2>2
<1>4. ASSUME NEW i \in 1 .. v - w PROVE r[m + w + i] = out[w + i - 1]
  <2>1. PICK l \in 1 .. v : l = w + i
    <3>1. w + i \in 1 .. v
      BY <1>1
    <3> QED BY <3>1
  <2>2. m + w + i = m + l /\ l - 1 = w + i - 1
    BY <1>1, <2>1
  <2>3. r[m + l] = out[l - 1]
    BY <1>2
  <2> QED BY <2>2, <2>3
<1>5. m + v = m + w + (v - w)
  BY <1>1
<1> QED BY <1>2, <1>3, <1>4, <1>5 DEF s, r, m

(* A call with nothing in hand has written the whole packet.                *)
LEMMA AllWritten ==
  ASSUME NEW x \in Call, NEW w \in Nat, NEW out, NEW body \in Body,
         x.active, x.todo = << >>, InProgress(x, w, out, body)
  PROVE  /\ x.cur \in Cursor /\ w <= x.cur /\ x.cur - w = Len(body) + 4
         /\ \A j \in 1 .. Len(body) + 4 : out[w + j - 1] = PacketOf(body)[j]
<1>1. x.cur \in Cursor /\ x.cur \in Nat /\ Len(body) \in Nat
  BY Sizes, BodyIs DEF Call, Cursor
<1>2. Len(x.todo) = 0
  OBVIOUS
<1>3. w <= x.cur /\ x.cur - w + 0 = Len(body) + 4
  BY <1>2 DEF InProgress
<1>4. x.cur - w = Len(body) + 4
  BY <1>1, <1>3
<1>5. \A j \in 1 .. x.cur - w : out[w + j - 1] = PacketOf(body)[j]
  BY DEF InProgress
<1> QED BY <1>1, <1>3, <1>4, <1>5

(* A SioSend stores the cursor: its packet is on the lane.                  *)
LEMMA CalmCommit ==
  ASSUME TypeOK, TypeOK', Quiet, NEW c \in {"main", "vblank"}, Commit(c)
  PROVE  Quiet'
<1>1. /\ call[c].active /\ call[c].todo = << >> /\ write' = call[c].cur
      /\ call' = [call EXCEPT ![c] = NotCalled]
      /\ UNCHANGED <<outgoing, clearing, playing, mailed, incoming, late, accepted>>
  BY DEF Commit
<1>2. /\ call \in [{"main", "vblank"} -> Call] /\ call[c] \in Call
      /\ outgoing \in [Cursor -> Word] /\ write \in Nat /\ write \in Cursor
      /\ incoming \in Seq(Word)
  BY RingIs DEF TypeOK
<1>3. \A d \in {"main", "vblank"} : ~call'[d].active
  <2>1. \A d \in {"main", "vblank"} : d # c => ~call[d].active
    BY <1>1 DEF Quiet
  <2>2. ~NotCalled.active
    BY DEF NotCalled
  <2>3. call'[c] = NotCalled /\ \A d \in {"main", "vblank"} : d # c => call'[d] = call[d]
    BY <1>1, <1>2
  <2> QED BY <2>1, <2>2, <2>3
<1>4. /\ mailed \in Nat /\ mailed <= Len(Mail) /\ Len(Mail) \in Nat
      /\ Sent \in 0 .. Len(Mail) /\ Sent \in Nat /\ Sent <= mailed
  BY RingIs, Sizes, SentIs
<1>5. Sent' = mailed
  BY <1>1, <1>3 DEF Sent
<1>6. \E t \in 0 .. mailed :
        (t # 0 => t > Sent) /\ InProgress(call[c], write, outgoing, BodyOf(t))
  <2>1. CASE c = "main"
    <3>1. mailed \in 1 .. Len(Mail) /\ Sent = mailed - 1
          /\ InProgress(call[c], write, outgoing, Mail[mailed])
      BY <1>1, <2>1 DEF Quiet, Sent
    <3>2. BodyOf(mailed) = Mail[mailed] /\ mailed > Sent /\ mailed \in 0 .. mailed
      BY <1>4, <3>1 DEF BodyOf
    <3> QED BY <3>1, <3>2
  <2>2. CASE c = "vblank"
    <3>1. InProgress(call[c], write, outgoing, Again)
      BY <2>2 DEF Quiet
    <3>2. BodyOf(0) = Again /\ 0 \in 0 .. mailed
      BY <1>4 DEF BodyOf
    <3> QED BY <3>1, <3>2
  <2> QED BY <2>1, <2>2
<1>7. PICK t \in 0 .. mailed :
        (t # 0 => t > Sent) /\ InProgress(call[c], write, outgoing, BodyOf(t))
  BY <1>6
<1> DEFINE b == BodyOf(t)
           s == LaneOf(incoming, write, outgoing)
           v == call[c].cur
           r == LaneOf(incoming, v, outgoing)
<1>8. t \in 0 .. Len(Mail) /\ b \in Body /\ Len(b) \in Nat
  <2>1. t \in 0 .. Len(Mail)
    BY <1>4
  <2> QED BY <2>1, BodyOfIs, BodyIs
<1>9. /\ v \in Cursor /\ write <= v /\ v - write = Len(b) + 4
      /\ \A j \in 1 .. Len(b) + 4 : outgoing[write + j - 1] = PacketOf(b)[j]
  <2> HIDE DEF b
  <2> QED BY <1>1, <1>2, <1>7, <1>8, AllWritten DEF b
<1>10. s \in Seq(Word) /\ r \in Seq(Word)
  <2> HIDE DEF v
  <2> QED BY <1>2, <1>9, LaneOfIs
<1>11. /\ Len(r) = Len(s) + (v - write)
       /\ \A i \in 1 .. Len(s) : r[i] = s[i]
       /\ \A i \in 1 .. v - write : r[Len(s) + i] = outgoing[write + i - 1]
  <2> HIDE DEF v
  <2> QED BY <1>2, <1>9, LaneGrows
<1>12. Told(s, Sent, accepted)
  BY DEF Quiet, Lane
<1>13. Told(r, mailed, accepted)
  <2> HIDE DEF r, s, v
  <2>1. Len(s) \in Nat
    BY <1>10
  <2>2. Len(r) = Len(s) + Len(b) + 4
    BY <1>8, <1>9, <1>11, <2>1
  <2>3. \A i \in 1 .. Len(b) + 4 : r[Len(s) + i] = PacketOf(b)[i]
    BY <1>9, <1>11
  <2>4. mailed \in Sent .. Len(Mail)
    BY <1>4
  <2> QED BY <1>4, <1>7, <1>10, <1>11, <1>12, <2>2, <2>3, <2>4, PacketIsTold
<1>14. Lane' = r
  BY <1>1 DEF Lane
<1>15. Told(Lane', Sent', accepted')
  BY <1>1, <1>5, <1>13, <1>14
<1>16. /\ InProgress(call'["main"], write', outgoing', Mail[mailed'])
       /\ InProgress(call'["vblank"], write', outgoing', Again)
  BY <1>3, NotInProgress
<1> QED BY <1>1, <1>3, <1>15, <1>16 DEF Quiet

(* A word that leaves one ring and enters the other stays on the lane.      *)
LEMMA LaneMoves ==
  ASSUME NEW in \in Seq(Word), NEW w \in Cursor, NEW out \in [Cursor -> Word], w # 0
  PROVE  LaneOf(Append(in, out[0]), Before(w), [i \in Cursor |-> out[After(i)]])
           = LaneOf(in, w, out)
<1> DEFINE m == Len(in)
           a == Append(in, out[0])
           v == Before(w)
           o == [i \in Cursor |-> out[After(i)]]
           s == LaneOf(in, w, out)
           r == LaneOf(a, v, o)
<1>1. m \in Nat /\ w \in Nat /\ w < RingSize /\ RingSize \in Nat /\ 0 \in Cursor
  BY Sizes DEF Cursor
<1>2. v \in Cursor /\ v = w - 1
  BY CursorSteps
<1>3. o \in [Cursor -> Word]
  BY CursorSteps
<1>4. /\ out[0] \in Word /\ a \in Seq(Word) /\ Len(a) = m + 1
      /\ \A i \in 1 .. m : a[i] = in[i]
      /\ a[m + 1] = out[0]
  BY <1>1, AppendProperties
<1>5. ASSUME NEW i \in 1 .. v PROVE o[i - 1] = out[i]
  <2>1. i - 1 \in Cursor /\ i - 1 # RingSize - 1 /\ i - 1 + 1 = i
    BY <1>1, <1>2 DEF Cursor
  <2>2. After(i - 1) = i
    BY <2>1, CursorSteps
  <2> QED BY <2>1, <2>2
<1> HIDE DEF a, v, o, s, r, m
<1>6. /\ s \in Seq(Word) /\ Len(s) = m + w
      /\ \A i \in 1 .. m : s[i] = in[i]
      /\ \A i \in 1 .. w : s[m + i] = out[i - 1]
  BY LaneOfIs DEF s, m
<1>7. /\ r \in Seq(Word) /\ Len(r) = m + 1 + v
      /\ \A i \in 1 .. m + 1 : r[i] = a[i]
      /\ \A i \in 1 .. v : r[m + 1 + i] = o[i - 1]
  <2>1. /\ r \in Seq(Word) /\ Len(r) = Len(a) + v
        /\ \A i \in 1 .. Len(a) : r[i] = a[i]
        /\ \A i \in 1 .. v : r[Len(a) + i] = o[i - 1]
    BY <1>2, <1>3, <1>4, LaneOfIs DEF r
  <2> QED BY <1>4, <2>1
<1>8. Len(r) = Len(s)
  BY <1>1, <1>2, <1>6, <1>7
<1>9. ASSUME NEW i \in 1 .. Len(s) PROVE r[i] = s[i]
  <2>1. CASE i <= m
    <3>1. i \in 1 .. m /\ i \in 1 .. m + 1
      BY <1>1, <1>6, <2>1
    <3> QED BY <1>4, <1>6, <1>7, <3>1
  <2>2. CASE i = m + 1
    <3>1. PICK k \in 1 .. w : k = 1
      BY <1>1
    <3>2. s[m + k] = out[k - 1] /\ m + k = m + 1 /\ k - 1 = 0 /\ m + 1 \in 1 .. m + 1
      BY <1>1, <1>6, <3>1
    <3>3. s[m + 1] = out[0] /\ r[m + 1] = a[m + 1]
      BY <1>7, <3>2
    <3> QED BY <1>4, <2>2, <3>3
  <2>3. CASE i > m + 1
    <3>1. PICK l \in 1 .. v : i = m + 1 + l
      <4>1. i - m - 1 \in 1 .. v /\ i = m + 1 + (i - m - 1)
        BY <1>1, <1>2, <1>6, <2>3
      <4> QED BY <4>1
    <3>2. PICK k \in 1 .. w : k = l + 1
      <4>1. l + 1 \in 1 .. w
        BY <1>1, <1>2
      <4> QED BY <4>1
    <3>3. i = m + k /\ k - 1 = l
      BY <1>1, <3>1, <3>2
    <3>4. s[m + k] = out[k - 1]
      BY <1>6
    <3>5. r[m + 1 + l] = o[l - 1] /\ o[l - 1] = out[l]
      BY <1>5, <1>7
    <3> QED BY <3>1, <3>3, <3>4, <3>5
  <2>4. i <= m \/ i = m + 1 \/ i > m + 1
    BY <1>1, <1>6
  <2> QED BY <2>1, <2>2, <2>3, <2>4
<1>10. r = s
  BY <1>6, <1>7, <1>8, <1>9, SeqEqual
<1> QED BY <1>10 DEF r, s, a, v, o

(* A SioSend in progress moves with the words it has written.               *)
LEMMA ProgressMoves ==
  ASSUME NEW x \in Call, NEW w \in Cursor, w # 0, NEW out \in [Cursor -> Word],
         NEW body \in Body, x.active, InProgress(x, w, out, body)
  PROVE  InProgress([x EXCEPT !.cur = Before(@)], Before(w),
                    [i \in Cursor |-> out[After(i)]], body)
<1> DEFINE y == [x EXCEPT !.cur = Before(@)]
           v == Before(w)
           o == [i \in Cursor |-> out[After(i)]]
           p == PacketOf(body)
<1>1. /\ w \in Nat /\ x.cur \in Cursor /\ x.cur \in Nat /\ x.cur < RingSize
      /\ RingSize \in Nat /\ w <= x.cur
  BY Sizes DEF Call, Cursor, InProgress
<1>2. /\ x.cur - w + Len(x.todo) = Len(body) + 4
      /\ \A j \in 1 .. x.cur - w : out[w + j - 1] = p[j]
      /\ \A j \in 1 .. Len(x.todo) : x.todo[j] = p[x.cur - w + j]
  BY DEF InProgress
<1>3. Before(x.cur) = x.cur - 1 /\ v = w - 1
  BY <1>1, CursorSteps
<1>4. y.cur = x.cur - 1 /\ y.todo = x.todo
  BY <1>3 DEF Call
<1>5. v <= y.cur /\ y.cur - v = x.cur - w
  BY <1>1, <1>3, <1>4
<1>6. ASSUME NEW j \in 1 .. x.cur - w PROVE o[v + j - 1] = p[j]
  <2>1. v + j - 1 \in Cursor /\ v + j - 1 # RingSize - 1 /\ v + j - 1 + 1 = w + j - 1
    BY <1>1, <1>3 DEF Cursor
  <2>2. After(v + j - 1) = w + j - 1
    BY <2>1, CursorSteps
  <2> QED BY <1>2, <2>1, <2>2
<1> HIDE DEF o, p, y, v
<1>7. InProgress(y, v, o, body)
  BY <1>2, <1>4, <1>5, <1>6 DEF InProgress, p
<1> QED BY <1>7 DEF y, v, o

(* A word is transferred, and the other console reads in time.              *)
LEMMA CalmSerial ==
  ASSUME TypeOK, TypeOK', Quiet, Serial
  PROVE  Quiet'
<1>1. ~late /\ ~CanRead
  BY DEF Serial, Quiet
<1>2. ~RingIsFull
  BY <1>1, CalmIsNotFull
<1>3. /\ Transfer(Append(incoming, WordOut)) /\ late' = FALSE
      /\ UNCHANGED <<clearing, playing, mailed, accepted>>
  BY <1>1, <1>2 DEF Serial, Arrives, Transfer
<1>4. /\ incoming \in Seq(Word) /\ write \in Cursor /\ outgoing \in [Cursor -> Word]
      /\ call \in [{"main", "vblank"} -> Call] /\ playing
      /\ incoming' = Append(incoming, WordOut)
  BY <1>3 DEF TypeOK, Transfer, Quiet
<1>5. /\ InProgress(call["main"], write, outgoing, Mail[mailed])
      /\ InProgress(call["vblank"], write, outgoing, Again)
      /\ call["vblank"].active => ~call["main"].active
      /\ call["main"].active => mailed \in 1 .. Len(Mail)
      /\ Told(Lane, Sent, accepted)
  BY DEF Quiet
<1>6. call["main"].active => Mail[mailed] \in Body
  BY <1>5, Sizes
<1>7. CASE write # 0
  <2>1. HasWord /\ WordOut = outgoing[0]
    BY <1>4, <1>7 DEF HasWord, WordOut
  <2>2. /\ outgoing' = [i \in Cursor |-> outgoing[After(i)]]
        /\ write' = Before(write)
        /\ call' = [c \in DOMAIN call |->
             IF call[c].active THEN [call[c] EXCEPT !.cur = Before(@)] ELSE call[c]]
    BY <1>3, <2>1 DEF Transfer, SendCursorMoves
  <2>3. ASSUME NEW c \in {"main", "vblank"}
        PROVE  /\ call'[c] = IF call[c].active
                             THEN [call[c] EXCEPT !.cur = Before(@)] ELSE call[c]
               /\ call'[c].active = call[c].active
    <3>1. DOMAIN call = {"main", "vblank"} /\ call[c] \in Call
      BY <1>4
    <3>2. call'[c] = IF call[c].active
                     THEN [call[c] EXCEPT !.cur = Before(@)] ELSE call[c]
      BY <2>2, <3>1
    <3>3. [call[c] EXCEPT !.cur = Before(@)].active = call[c].active
      BY <3>1 DEF Call
    <3> QED BY <3>2, <3>3
  <2>4. ASSUME NEW c \in {"main", "vblank"}, NEW body,
               call[c].active => body \in Body,
               InProgress(call[c], write, outgoing, body)
        PROVE  InProgress(call'[c], write', outgoing', body)
    <3>1. CASE call[c].active
      <4>1. call[c] \in Call /\ body \in Body
        BY <1>4, <2>4, <3>1
      <4>2. call'[c] = [call[c] EXCEPT !.cur = Before(@)]
        BY <2>3, <3>1
      <4> QED BY <1>4, <1>7, <2>2, <2>4, <3>1, <4>1, <4>2, ProgressMoves
    <3>2. CASE ~call[c].active
      <4>1. ~call'[c].active
        BY <2>3, <3>2
      <4> QED BY <4>1, NotInProgress
    <3> QED BY <3>1, <3>2
  <2>5. InProgress(call'["main"], write', outgoing', Mail[mailed])
    BY <1>5, <1>6, <2>4
  <2>6. InProgress(call'["vblank"], write', outgoing', Again)
    BY <1>5, <2>4, Sizes
  <2>7. Lane' = Lane
    <3>1. Lane' = LaneOf(incoming', write', outgoing')
      BY DEF Lane
    <3>2. Lane' = LaneOf(Append(incoming, outgoing[0]), Before(write),
                         [i \in Cursor |-> outgoing[After(i)]])
      BY <1>4, <2>1, <2>2, <3>1
    <3> QED BY <1>4, <1>7, <3>2, LaneMoves DEF Lane
  <2>8. Sent' = Sent
    BY <1>3, <2>3 DEF Sent
  <2>9. Told(Lane', Sent', accepted')
    BY <1>3, <1>5, <2>7, <2>8
  <2>10. /\ call'["vblank"].active => ~call'["main"].active
         /\ call'["main"].active => mailed' \in 1 .. Len(Mail)
    BY <1>3, <1>5, <2>3
  <2> QED BY <1>1, <1>3, <2>5, <2>6, <2>9, <2>10 DEF Quiet
<1>8. CASE write = 0
  <2>1. ~HasWord /\ WordOut = Idle
    BY <1>8 DEF HasWord, WordOut
  <2>2. UNCHANGED <<outgoing, write, call>>
    BY <1>3, <2>1 DEF Transfer
  <2>3. Lane' = LaneOf(incoming', write, outgoing)
    BY <2>2 DEF Lane
  <2>4. Idle \in Word
    BY Sizes
  <2>5. /\ incoming' \in Seq(Word) /\ Len(incoming') = Len(incoming) + 1
        /\ \A i \in 1 .. Len(incoming) : incoming'[i] = incoming[i]
        /\ incoming'[Len(incoming) + 1] = Idle
    BY <1>4, <2>1, <2>4, AppendProperties
  <2>6. /\ Lane' \in Seq(Word) /\ Len(Lane') = Len(incoming) + 1
        /\ \A i \in 1 .. Len(incoming') : Lane'[i] = incoming'[i]
    <3>1. /\ Lane' \in Seq(Word) /\ Len(Lane') = Len(incoming') + write
          /\ \A i \in 1 .. Len(incoming') : Lane'[i] = incoming'[i]
      BY <1>4, <2>3, <2>5, LaneOfIs
    <3>2. Len(incoming) \in Nat
      BY <1>4
    <3> QED BY <1>8, <2>5, <3>1, <3>2
  <2>7. /\ Lane \in Seq(Word) /\ Len(Lane) = Len(incoming)
        /\ \A i \in 1 .. Len(incoming) : Lane[i] = incoming[i]
    <3>1. Count + write = Len(incoming) /\ Count = Len(incoming)
      BY <1>4, <1>8 DEF Count
    <3> QED BY <3>1, LaneIs
  <2>8. /\ Len(Lane') = Len(Lane) + 1
        /\ \A i \in 1 .. Len(Lane) : Lane'[i] = Lane[i]
        /\ Lane'[Len(Lane) + 1] = Idle
    <3>1. /\ Len(incoming) \in Nat
          /\ \A i \in 1 .. Len(incoming) : i \in 1 .. Len(incoming')
          /\ Len(incoming) + 1 \in 1 .. Len(incoming')
      BY <1>4, <2>5
    <3> QED BY <2>5, <2>6, <2>7, <3>1
  <2>9. Told(Lane', Sent, accepted)
    <3> DEFINE s == Lane
               r == Lane'
    <3>1. Sent \in 0 .. Len(Mail) /\ Told(s, Sent, accepted)
      BY <1>5, SentIs
    <3>2. s \in Seq(Word) /\ r \in Seq(Word)
      BY <2>6, <2>7
    <3>3. /\ Len(r) = Len(s) + 1 /\ \A i \in 1 .. Len(s) : r[i] = s[i]
          /\ r[Len(s) + 1] = Idle
      BY <2>8
    <3> HIDE DEF s, r
    <3>4. Told(r, Sent, accepted)
      BY <3>1, <3>2, <3>3, IdleIsTold
    <3> QED BY <3>4 DEF r
  <2>10. Sent' = Sent
    BY <1>3, <2>2 DEF Sent
  <2> QED BY <1>1, <1>3, <1>5, <2>2, <2>9, <2>10 DEF Quiet
<1> QED BY <1>7, <1>8

(* Sio_ReadPacket takes words from the front of the lane.                   *)
LEMMA LaneShrinks ==
  ASSUME TypeOK, NEW n \in 0 .. Count, Skip(n), UNCHANGED <<write, outgoing>>
  PROVE  /\ Lane \in Seq(Word) /\ Lane' \in Seq(Word) /\ n \in 0 .. Len(Lane)
         /\ Len(Lane') = Len(Lane) - n
         /\ \A i \in 1 .. Len(Lane') : Lane'[i] = Lane[n + i]
<1>1. /\ Count \in Nat /\ write \in Nat /\ incoming \in Seq(Word)
      /\ Len(incoming) = Count /\ n \in Nat
      /\ write \in Cursor /\ outgoing \in [Cursor -> Word]
  BY RingIs DEF TypeOK
<1> DEFINE in == incoming'
<1>2. /\ in \in Seq(Word) /\ Len(in) = Count - n
      /\ \A i \in 1 .. Count - n : in[i] = incoming[n + i]
  <2>1. in = SubSeq(incoming, n + 1, Count)
    BY DEF Skip
  <2>2. /\ in \in Seq(Word)
        /\ Len(in) = IF n + 1 <= Count THEN Count - (n + 1) + 1 ELSE 0
        /\ \A i \in 1 .. Count - (n + 1) + 1 : in[i] = incoming[n + 1 + i - 1]
    <3> HIDE DEF in
    <3>1. n + 1 \in 1 .. Count + 1
      BY <1>1
    <3> QED BY <1>1, <2>1, <3>1, SubSeqProperties
  <2>3. Count - (n + 1) + 1 = Count - n /\ \A i \in 1 .. Count - n : n + 1 + i - 1 = n + i
        /\ (~(n + 1 <= Count) => Count - n = 0)
    BY <1>1
  <2> HIDE DEF in
  <2> QED BY <1>1, <2>2, <2>3
<1>3. Lane' = LaneOf(in, write, outgoing)
  BY DEF Lane
<1> DEFINE s == Lane
           r == Lane'
<1>4. /\ s \in Seq(Word) /\ Len(s) = Count + write
      /\ \A i \in 1 .. Count : s[i] = incoming[i]
      /\ \A i \in 1 .. write : s[Count + i] = outgoing[i - 1]
  BY LaneIs
<1> HIDE DEF in, s, r
<1>5. /\ r \in Seq(Word) /\ Len(r) = Len(in) + write
      /\ \A i \in 1 .. Len(in) : r[i] = in[i]
      /\ \A i \in 1 .. write : r[Len(in) + i] = outgoing[i - 1]
  BY <1>1, <1>2, <1>3, LaneOfIs DEF r
<1>6. /\ Len(r) = Count - n + write
      /\ \A i \in 1 .. Count - n : r[i] = in[i]
      /\ \A i \in 1 .. write : r[Count - n + i] = outgoing[i - 1]
  BY <1>2, <1>5
<1>7. n \in 0 .. Len(s) /\ Len(r) = Len(s) - n
  BY <1>1, <1>4, <1>6
<1>8. ASSUME NEW i \in 1 .. Len(r) PROVE r[i] = s[n + i]
  <2>1. CASE i <= Count - n
    <3>1. i \in 1 .. Count - n /\ n + i \in 1 .. Count
      BY <1>1, <1>6, <2>1
    <3> QED BY <1>2, <1>4, <1>6, <3>1
  <2>2. CASE ~(i <= Count - n)
    <3>1. PICK l \in 1 .. write : i = Count - n + l
      <4>1. i - (Count - n) \in 1 .. write /\ i = Count - n + (i - (Count - n))
        BY <1>1, <1>6, <2>2
      <4> QED BY <4>1
    <3>2. n + i = Count + l
      BY <1>1, <3>1
    <3> QED BY <1>4, <1>6, <3>1, <3>2
  <2> QED BY <2>1, <2>2
<1> QED BY <1>4, <1>5, <1>7, <1>8 DEF s, r

(* Reading changes nothing but the front of the lane and what was accepted. *)
LEMMA CalmReads ==
  ASSUME Quiet, UNCHANGED <<sender, late>>, Told(Lane', Sent, accepted')
  PROVE  Quiet'
<1>1. UNCHANGED <<outgoing, write, call, clearing, playing, mailed, late>>
  BY DEF sender
<1>2. Sent' = Sent
  BY <1>1 DEF Sent
<1>3. /\ InProgress(call'["main"], write', outgoing', Mail[mailed'])
      /\ InProgress(call'["vblank"], write', outgoing', Again)
  BY <1>1 DEF Quiet
<1> QED BY <1>1, <1>2, <1>3 DEF Quiet

(* The words before the next magic are idle words.                          *)
LEMMA CalmResync ==
  ASSUME TypeOK, TypeOK', Quiet, Resync
  PROVE  Quiet'
<1>1. PICK n \in 1 .. Count : (\A i \in 1 .. n : incoming[i] # Magic) /\ Skip(n)
  BY DEF Resync
<1>2. UNCHANGED <<sender, late, accepted>> /\ UNCHANGED <<write, outgoing>>
  BY DEF Resync, sender
<1>3. PICK F, tag, got : Story(Lane, Sent, accepted, F, tag, got)
  BY DEF Quiet, Told
<1>4. /\ Count \in Nat /\ write \in Nat /\ Len(Lane) = Count + write /\ n \in Nat
      /\ \A i \in 1 .. Count : Lane[i] = incoming[i]
      /\ Sent \in 0 .. Len(Mail) /\ Len(Mail) \in Nat
  BY RingIs, LaneIs, SentIs, Sizes
<1>5. /\ 1 \in F /\ tag \in [Nat -> 0 .. Sent]
      /\ \A k \in F : k <= Len(Lane) => FrameAt(Lane, F, k, tag[k])
  BY <1>3 DEF Story, Cut
<1>6. n + 1 \in F
  <2> DEFINE C == {i \in 0 .. n : i + 1 \in F}
  <2>1. 0 \in C
    BY <1>4, <1>5
  <2>2. ASSUME NEW i \in 1 .. n, i - 1 \in C PROVE i \in C
    <3>1. i \in F /\ i \in Nat /\ i <= Len(Lane) /\ i \in 1 .. Count /\ i \in 0 .. n
      <4>1. i - 1 + 1 \in F /\ i - 1 + 1 = i
        BY <1>4, <2>2
      <4> HIDE DEF C
      <4> QED BY <1>4, <4>1
    <3> DEFINE t == tag[i]
               p == PacketOf(BodyOf(t))
    <3>2. FrameAt(Lane, F, i, t) /\ Lane[i] # Magic
      BY <1>1, <1>4, <1>5, <3>1
    <3>3. t \in 0 .. Len(Mail)
      <4>1. t \in 0 .. Sent
        BY <1>5, <3>1
      <4> HIDE DEF t
      <4> QED BY <1>4, <4>1
    <3>4. ~ Stands(Lane, i, p)
      <4>1. BodyOf(t) \in Body
        BY <3>3, BodyOfIs
      <4>2. p[1] = Magic /\ Len(p) \in Nat /\ Len(p) >= 1
        BY <4>1, PacketIs, BodyIs
      <4> SUFFICES ASSUME Stands(Lane, i, p) PROVE FALSE
        OBVIOUS
      <4> HIDE DEF p
      <4>3. PICK o \in 1 .. Len(p) : o = 1
        BY <4>2
      <4>4. Lane[i + o - 1] = p[o] /\ i + o - 1 = i
        BY <3>1, <4>3 DEF Stands
      <4> QED BY <3>2, <4>2, <4>3, <4>4
    <3>5. i + 1 \in F
      <4> HIDE DEF p, t, C
      <4> QED BY <3>2, <3>4 DEF FrameAt, p
    <3> QED BY <3>1, <3>5
  <2>3. 0 .. n \subseteq C
    <3> HIDE DEF C
    <3> QED BY <1>4, <2>1, <2>2, UpTo
  <2> QED BY <1>4, <2>3
<1>7. n \in 0 .. Count
  BY <1>4
<1> DEFINE s == Lane
           r == Lane'
<1>8. /\ s \in Seq(Word) /\ r \in Seq(Word) /\ n \in 0 .. Len(s)
      /\ Len(r) = Len(s) - n /\ \A i \in 1 .. Len(r) : r[i] = s[n + i]
  BY <1>1, <1>2, <1>7, LaneShrinks
<1>9. Story(s, Sent, accepted, F, tag, got)
  BY <1>3
<1>10. Told(r, Sent, accepted)
  <2> HIDE DEF s, r
  <2> QED BY <1>4, <1>6, <1>8, <1>9, ShorterIsTold
<1>11. Told(Lane', Sent, accepted')
  BY <1>2, <1>10
<1> QED BY <1>2, <1>11, CalmReads

(* A packet is taken from the ring: it is a packet that was sent.           *)
LEMMA CalmTake ==
  ASSUME TypeOK, TypeOK', Quiet, TakePacket, ~raced
  PROVE  Quiet'
<1>1. /\ Framed /\ Length <= MaxBody /\ Length + 6 <= Count /\ Skip(Length + 4)
      /\ UNCHANGED <<sender, late>> /\ UNCHANGED <<write, outgoing>>
  BY DEF TakePacket, sender
<1>2. PICK t \in 0 .. Len(Mail) :
        \E F, tag, got : Begins(F, tag, got, t) /\ Length = Len(BodyOf(t))
                         /\ Returned = BodyOf(t) /\ SumsMatch
  BY <1>1, CalmFrames
<1>3. PICK F, tag, got : Begins(F, tag, got, t) /\ Length = Len(BodyOf(t))
                        /\ Returned = BodyOf(t) /\ SumsMatch
  BY <1>2
<1>4. /\ Story(Lane, Sent, accepted, F, tag, got) /\ tag[1] = t
      /\ Len(BodyOf(t)) + 4 + 1 \in F
  BY <1>3 DEF Begins
<1>5. PICK n \in Nat : n = Length + 4
  BY <1>2, <1>3, PacketOfTag
<1>6. n \in 0 .. Count /\ n + 1 \in F /\ n >= 1 /\ Skip(n)
  <2>1. Length \in Nat /\ Count \in Nat
    BY <1>2, <1>3, PacketOfTag, RingIs
  <2> QED BY <1>1, <1>3, <1>4, <1>5, <2>1
<1> DEFINE s == Lane
           r == Lane'
<1>7. /\ s \in Seq(Word) /\ r \in Seq(Word) /\ n \in 0 .. Len(s)
      /\ Len(r) = Len(s) - n /\ \A i \in 1 .. Len(r) : r[i] = s[n + i]
  BY <1>1, <1>6, LaneShrinks
<1>8. Story(s, Sent, accepted, F, tag, got) /\ Sent \in 0 .. Len(Mail)
      /\ accepted \in Seq(Body)
  BY <1>4, SentIs DEF TypeOK
<1>9. Return(Returned)
  BY <1>3 DEF TakePacket
<1>10. Told(r, Sent, accepted')
  <2>1. CASE UNCHANGED accepted
    <3> HIDE DEF s, r
    <3>1. Told(r, Sent, accepted)
      BY <1>6, <1>7, <1>8, ShorterIsTold
    <3> QED BY <2>1, <3>1
  <2>2. CASE Returned # Again /\ accepted' = Append(accepted, Returned)
    <3>1. t # 0 /\ Returned = Mail[tag[1]] /\ tag[1] # 0
      BY <1>3, <1>4, <2>2 DEF BodyOf
    <3> HIDE DEF s, r
    <3>2. Told(r, Sent, Append(accepted, Mail[tag[1]]))
      BY <1>6, <1>7, <1>8, <3>1, TakenIsTold
    <3> QED BY <2>2, <3>1, <3>2
  <2> QED BY <1>9, <2>1, <2>2 DEF Return
<1> QED BY <1>1, <1>10, CalmReads

----------------------------------------------------------------------------
(* Until something goes wrong, the lane is cut into packets that were sent. *)
KeptInFrames == Calm => Quiet

(* Before the first call nothing is on the lane.                            *)
LEMMA CalmInit ==
  ASSUME Init
  PROVE  Quiet
<1>1. /\ incoming = << >> /\ write = 0 /\ clearing = "no" /\ playing /\ ~late
      /\ mailed = 0 /\ accepted = << >>
      /\ \A c \in {"main", "vblank"} : ~call[c].active
  BY DEF Init, NotCalled
<1>2. TypeOK
  BY InitTyped
<1> DEFINE s == Lane
           F == {1}
           tag == [k \in Nat |-> 0]
           got == [i \in 1 .. 0 |-> 1]
<1>3. Len(s) = 0
  <2>1. Len(Lane) = Count + write /\ Count = 0
    BY <1>1, <1>2, LaneIs DEF Count
  <2> QED BY <1>1, <2>1
<1> HIDE DEF s
<1>4. Cut(s, 0, F, tag)
  <2>1. 1 \in 1 .. Len(s) + 1 /\ Len(s) + 1 = 1
    BY <1>3
  <2>2. tag \in [Nat -> 0 .. 0] /\ \A k \in Nat : tag[k] = 0
    BY Z3
  <2>3. ~(1 <= Len(s))
    BY <1>3
  <2> HIDE DEF tag
  <2> QED BY <2>1, <2>2, <2>3 DEF Cut
<1>5. Rising(tag)
  <2>1. \A k \in Nat : tag[k] = 0
    OBVIOUS
  <2> HIDE DEF tag
  <2> QED BY <2>1 DEF Rising
<1>6. Got(0, << >>, tag, got)
  <2>1. Len(<< >>) = 0 /\ 1 .. 0 = {}
    OBVIOUS
  <2> QED BY <2>1 DEF Got
<1>7. Told(Lane, Sent, accepted)
  <2>1. Sent = 0
    BY <1>1 DEF Sent
  <2> HIDE DEF F, tag, got
  <2>2. Story(s, 0, << >>, F, tag, got)
    BY <1>4, <1>5, <1>6 DEF Story
  <2>3. Told(s, 0, << >>)
    BY <2>2 DEF Told
  <2> QED BY <1>1, <2>1, <2>3 DEF s
<1>8. /\ InProgress(call["main"], write, outgoing, Mail[mailed])
      /\ InProgress(call["vblank"], write, outgoing, Again)
  BY <1>1, NotInProgress
<1> QED BY <1>1, <1>7, <1>8 DEF Quiet

(* What goes wrong is counted.                                              *)
LEMMA TroubleIsCounted ==
  ASSUME TypeOK, Trouble
  PROVE  ~Calm'
<1>1. faults \in Nat /\ faults' = faults + 1
  BY DEF TypeOK, Trouble
<1>2. faults' # 0
  BY <1>1
<1> QED BY <1>2 DEF Calm

(* No step makes undone what went wrong.                                    *)
LEMMA CalmBefore ==
  ASSUME TypeOK, [Next]_vars, Calm'
  PROVE  Calm
<1>1. CASE Trouble
  BY <1>1, TroubleIsCounted
<1>2. CASE faults' = faults /\ (raced => raced')
  BY <1>2 DEF Calm
<1>3. CASE SendAgain
  BY <1>2, <1>3 DEF SendAgain
<1>4. CASE ClearStores
  BY <1>2, <1>4 DEF ClearStores
<1>5. CASE SendMail \/ \E c \in {"main", "vblank"} : Write(c) \/ Commit(c)
  BY <1>2, <1>5 DEF SendMail, Write, Commit
<1>6. CASE ClearLoads \/ HaltLoads \/ Garble \/ FallBehind \/ ReaderRestarts
  BY <1>1, <1>6 DEF ClearLoads, HaltLoads, Garble, FallBehind, ReaderRestarts
<1>7. CASE StartSession \/ Serial
  BY <1>2, <1>7 DEF StartSession, Serial, Transfer
<1>8. CASE ReadPacket
  BY <1>2, <1>8 DEF ReadPacket, Resync, TooLong, TakePacket
<1>9. CASE UNCHANGED vars
  BY <1>2, <1>9 DEF vars
<1> QED BY <1>3, <1>4, <1>5, <1>6, <1>7, <1>8, <1>9 DEF Next

(* Every step keeps the lane in frames until something goes wrong.          *)
LEMMA CalmStep ==
  ASSUME TypeOK, TypeOK', [Next]_vars, KeptInFrames
  PROVE  KeptInFrames'
<1> SUFFICES ASSUME Calm' PROVE Quiet'
  BY DEF KeptInFrames
<1>1. Calm /\ Quiet /\ ~raced /\ ~raced' /\ ~Trouble
  BY CalmBefore, TroubleIsCounted DEF KeptInFrames, Calm
<1>2. CASE SendMail
  BY <1>1, <1>2, CalmSendMail
<1>3. CASE SendAgain
  BY <1>1, <1>3, CalmSendAgain
<1>4. ASSUME NEW c \in {"main", "vblank"}, Write(c) PROVE Quiet'
  BY <1>1, <1>4, CalmWrite
<1>5. ASSUME NEW c \in {"main", "vblank"}, Commit(c) PROVE Quiet'
  BY <1>1, <1>5, CalmCommit
<1>6. ~ClearLoads /\ ~HaltLoads /\ ~Garble /\ ~FallBehind /\ ~ReaderRestarts
  BY <1>1 DEF ClearLoads, HaltLoads, Garble, FallBehind, ReaderRestarts
<1>7. ~ClearStores /\ ~StartSession
  BY <1>1 DEF Quiet, ClearStores, StartSession
<1>8. CASE Serial
  BY <1>1, <1>8, CalmSerial
<1>9. CASE Resync
  BY <1>1, <1>9, CalmResync
<1>10. ~TooLong
  <2> SUFFICES ASSUME TooLong PROVE FALSE
    OBVIOUS
  <2>1. Framed /\ Length > MaxBody
    BY DEF TooLong
  <2>2. Length <= MaxBody
    BY <1>1, <2>1, CalmFrames
  <2>3. Length \in Nat /\ MaxBody \in Nat
    <3>1. incoming[2] \in Word
      BY <2>1, RingIs DEF Framed
    <3> QED BY <3>1, Sizes DEF Word, Length
  <2> QED BY <2>1, <2>2, <2>3
<1>11. CASE TakePacket
  BY <1>1, <1>11, CalmTake
<1>12. CASE UNCHANGED vars
  <2>1. /\ UNCHANGED <<outgoing, write, call, clearing, playing, mailed>>
        /\ UNCHANGED <<incoming, late, accepted>>
    BY <1>12 DEF vars, sender
  <2>2. Lane' = Lane /\ Sent' = Sent
    BY <2>1 DEF Lane, Sent
  <2> QED BY <1>1, <2>1, <2>2 DEF Quiet
<1> QED BY <1>2, <1>3, <1>4, <1>5, <1>6, <1>7, <1>8, <1>9, <1>10, <1>11, <1>12
        DEF Next, ReadPacket

(* The lane is in frames in every state before something goes wrong.        *)
THEOREM Framing == Spec => []KeptInFrames
<1>1. Init => KeptInFrames
  BY CalmInit DEF KeptInFrames
<1>2. TypeOK /\ TypeOK' /\ KeptInFrames /\ [Next]_vars => KeptInFrames'
  BY CalmStep
<1> QED BY <1>1, <1>2, TypeCorrect, PTL DEF Spec

(* Until a word is damaged, a reader stalls for a whole ring or a queue is  *)
(* cleared, packets arrive in the order they were sent in and each at most  *)
(* once, whatever the packets and the rings are.                            *)
THEOREM InOrderUntilTrouble == Spec => [](faults = 0 => InOrder)
<1>1. TypeOK /\ KeptInFrames => (faults = 0 => InOrder)
  <2> SUFFICES ASSUME TypeOK, Quiet,
                      NEW i \in DOMAIN accepted, NEW j \in DOMAIN accepted, i < j
               PROVE  \E k, l \in DOMAIN Mail :
                        k < l /\ accepted[i] = Mail[k] /\ accepted[j] = Mail[l]
    BY DEF InOrder, KeptInFrames, Calm
  <2>1. PICK F, tag, got : Story(Lane, Sent, accepted, F, tag, got)
    BY DEF Quiet, Told
  <2>2. Got(Sent, accepted, tag, got)
    BY <2>1 DEF Story
  <2>3. i \in 1 .. Len(accepted) /\ j \in 1 .. Len(accepted)
    BY DEF TypeOK
  <2>4. /\ got[i] \in 1 .. Sent /\ got[j] \in 1 .. Sent /\ got[i] < got[j]
        /\ accepted[i] = Mail[got[i]] /\ accepted[j] = Mail[got[j]]
    BY <2>2, <2>3 DEF Got
  <2>5. \A k \in 1 .. Sent : k \in DOMAIN Mail
    <3>1. Sent \in Nat /\ Sent <= Len(Mail) /\ Mail \in Seq(Body)
      BY SentIs, Sizes
    <3> QED BY <3>1
  <2> QED BY <2>4, <2>5
<1> QED BY <1>1, TypeCorrect, Framing, PTL

(* As long as, moreover, no interrupt comes between two steps of the main   *)
(* loop, every packet the reader takes was begun by the main loop.          *)
THEOREM GenuineWhileCalm == Spec => [](Calm => Genuine)
<1>1. TypeOK /\ KeptInFrames => (Calm => Genuine)
  <2> SUFFICES ASSUME TypeOK, Quiet, NEW i \in DOMAIN accepted
               PROVE  \E k \in 1 .. mailed : accepted[i] = Mail[k]
    BY DEF Genuine, KeptInFrames
  <2>1. PICK F, tag, got : Story(Lane, Sent, accepted, F, tag, got)
    BY DEF Quiet, Told
  <2>2. Got(Sent, accepted, tag, got)
    BY <2>1 DEF Story
  <2>3. i \in 1 .. Len(accepted)
    BY DEF TypeOK
  <2>4. got[i] \in 1 .. Sent /\ accepted[i] = Mail[got[i]]
    BY <2>2, <2>3 DEF Got
  <2>5. got[i] \in 1 .. mailed
    <3>1. Sent \in Nat /\ Sent <= mailed /\ mailed \in Nat
      BY SentIs, RingIs
    <3> QED BY <2>4, <3>1
  <2> QED BY <2>4, <2>5
<1> QED BY <1>1, TypeCorrect, Framing, PTL

(* And none of them is refused: what stands at the front of the ring is     *)
(* never too long, its sums match when it is whole, and a reader that keeps  *)
(* up never has its ring filled.                                            *)
THEOREM NothingIsLostWhileCalm ==
  Spec => [](Calm =>
    /\ Framed => Length <= MaxBody
    /\ Framed /\ Length + 6 <= Count => SumsMatch
    /\ ~CanRead => ~RingIsFull)
<1>1. TypeOK /\ KeptInFrames =>
        (Calm => /\ Framed => Length <= MaxBody
                 /\ Framed /\ Length + 6 <= Count => SumsMatch
                 /\ ~CanRead => ~RingIsFull)
  BY CalmFrames, CalmIsNotFull DEF KeptInFrames
<1> QED BY <1>1, TypeCorrect, Framing, PTL
====
