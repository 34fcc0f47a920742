------------------------------- MODULE SioRing -------------------------------
(***************************************************************************)
(* The rings under the link protocol, src/sio_core.c: SioSend writes a      *)
(* packet into gSioOutgoing word by word, the serial interrupt moves one    *)
(* word with each transfer, and Sio_ReadPacket finds packets again in       *)
(* gSioIncoming.  One console sends, another one reads the lane of it.      *)
(*                                                                         *)
(* The main loop sends each packet of Mail once.  SioVsync_Loop, in the     *)
(* vertical blank interrupt, sends Again over and over and may preempt a    *)
(* SioSend or a SioClearOutgoingQueue of the main loop; IrqMain allows      *)
(* nested interrupts, so the serial interrupt comes between any two words   *)
(* of either.  Sio_ReadPacket is one step: it takes less time than a        *)
(* transfer.  `faults' bounds what goes wrong: words damaged on the cable,  *)
(* main loops that stall for a whole ring, queues that are cleared; and the *)
(* interrupt gets in between two steps of the main loop at most once.       *)
(*                                                                         *)
(* Nothing depends on where in its array a ring begins.  Positions in       *)
(* gSioOutgoing are distances from sSendCursor, modulo its size; of         *)
(* gSioIncoming only the words between sReadCursor and sRecvCursor are ever *)
(* looked at, and they are a sequence.                                      *)
(***************************************************************************)
EXTENDS Integers, Sequences

CONSTANTS
  RingSize,    \* 512
  MaxBody,     \* SIO_MAX_PACKET / 2, 64
  WordMod,     \* words are u16: 65536
  Mail,        \* bodies of the packets the main loop sends, in this order
  Again,       \* body of the packet the interrupt sends again and again
  MaxFaults    \* bound on the faults

Magic == 20479     \* 0x4FFF
Idle  == 32767     \* 0x7FFF, what a console sends when it has nothing to send
Noise == 65535     \* 0xFFFF, what a failed transfer reads as

Word   == 0 .. WordMod - 1
Cursor == 0 .. RingSize - 1
Body   == {body \in Seq(Word) : Len(body) <= MaxBody}

ASSUME RingAssumption ==
  /\ MaxBody \in 1 .. WordMod - 1
  /\ RingSize \in Nat /\ RingSize >= MaxBody + 7
  /\ WordMod \in Nat /\ Noise < WordMod
  /\ Again \in Body
  /\ Mail \in Seq(Body)
  /\ MaxFaults \in Nat

VARIABLES
  outgoing,   \* gSioOutgoing, the word at sSendCursor first
  write,      \* sWriteCursor
  incoming,   \* the words of gSioIncoming the main loop has not read
  late,       \* does the main loop of the reader stall until its ring is full?
  call,       \* the SioSend calls of "main" and "vblank": where, what is left
  clearing,   \* is the main loop in SioClearOutgoingQueue or Sio_Halt?
  loaded,     \* sSendCursor as it has read it
  playing,    \* unk_001 = 1: the session runs
  mailed,     \* how many packets of Mail the main loop has begun
  faults,     \* how many faults there were
  raced,      \* history: did the interrupt get in between the main loop's steps?
  accepted,   \* history: the bodies Sio_ReadPacket returned, other than Again
  through     \* history: has it returned Again since the last trouble?

sender == <<outgoing, write, call, clearing, loaded, playing, mailed>>
vars   == <<sender, incoming, late, faults, raced, accepted, through>>

NotCalled == [cur |-> 0, todo |-> << >>, active |-> FALSE]
Call == [cur : Cursor, todo : Seq(Word), active : BOOLEAN]

(* Cursors stay in their rings, words in 16 bits. *)
TypeOK ==
  /\ outgoing \in [Cursor -> Word] /\ write \in Cursor
  /\ incoming \in Seq(Word) /\ Len(incoming) < RingSize
  /\ late \in BOOLEAN
  /\ call \in [{"main", "vblank"} -> Call]
  /\ clearing \in {"no", "queue", "halt"} /\ loaded \in Cursor
  /\ playing \in BOOLEAN
  /\ mailed \in 0 .. Len(Mail) /\ faults \in 0 .. MaxFaults
  /\ raced \in BOOLEAN /\ through \in BOOLEAN
  /\ accepted \in Seq(Body)

After(cursor)  == (cursor + 1) % RingSize
Before(cursor) == (cursor - 1) % RingSize

Init ==      \* Sio_ResetSession, Sio_StartLinkSession
  /\ outgoing = [i \in Cursor |-> 0] /\ write = 0
  /\ incoming = << >> /\ late = FALSE
  /\ call = [c \in {"main", "vblank"} |-> NotCalled]
  /\ clearing = "no" /\ loaded = 0
  /\ playing = TRUE
  /\ mailed = 0 /\ faults = 0 /\ raced = FALSE
  /\ accepted = << >> /\ through = FALSE
-----------------------------------------------------------------------------
(* A packet: magic, length, two sums, body. *)

Weighted(body) ==
  LET sum[i \in 0 .. Len(body)] ==
        IF i = 0 THEN 0 ELSE sum[i - 1] + body[i] * i
  IN sum[Len(body)]

SumA(body) == (Magic + Len(body) + Weighted(body)) % WordMod
SumB(body) == (-(Len(body) + Weighted(body))) % WordMod    \* the sum of ~frag

PacketOf(body) == <<Magic, Len(body), SumA(body), SumB(body)>> \o body

(* Is the processor free for c?  The interrupt comes before the main loop. *)
Runs(c) == c = "main" => ~call["vblank"].active

Begin(c, body) ==       \* SioSend reads sWriteCursor
  /\ playing /\ Runs(c) /\ ~call[c].active
  /\ call' = [call EXCEPT ![c] =
       [cur |-> write, todo |-> PacketOf(body), active |-> TRUE]]

SendMail ==             \* SioMain_Loop and its likes answer, one call at a time
  /\ mailed < Len(Mail) /\ clearing = "no"
  /\ Begin("main", Mail[mailed + 1])
  /\ mailed' = mailed + 1
  /\ UNCHANGED <<outgoing, write, clearing, loaded, playing, incoming, late,
                 faults, raced, accepted, through>>

Between == call["main"].active \/ clearing = "queue"

(* SioVsync_Loop sends every 38 frames.  The ring has drained by then, or   *)
(* the interrupt gets in between two steps of the main loop.                *)
SendAgain ==
  /\ Begin("vblank", Again)
  /\ IF Between THEN ~raced ELSE write = 0
  /\ raced' = (raced \/ Between)
  /\ through' = (through /\ raced' = raced)
  /\ UNCHANGED <<outgoing, write, clearing, loaded, playing, mailed,
                 incoming, late, faults, accepted>>

(* SioSend writes a word; it returns -1 when it meets sSendCursor. *)
Write(c) ==
  /\ Runs(c) /\ call[c].active /\ call[c].todo # << >>
  /\ outgoing' = [outgoing EXCEPT ![call[c].cur] = Head(call[c].todo)]
  /\ LET next == After(call[c].cur)
     IN  call' = [call EXCEPT ![c] =
           IF next = 0 THEN NotCalled
           ELSE [cur |-> next, todo |-> Tail(@.todo), active |-> TRUE]]
  /\ UNCHANGED <<write, clearing, loaded, playing, mailed, incoming, late,
                 faults, raced, accepted, through>>

Commit(c) ==            \* SioSend stores sWriteCursor and returns
  /\ Runs(c) /\ call[c].active /\ call[c].todo = << >>
  /\ write' = call[c].cur
  /\ call' = [call EXCEPT ![c] = NotCalled]
  /\ UNCHANGED <<outgoing, clearing, loaded, playing, mailed, incoming, late,
                 faults, raced, accepted, through>>
-----------------------------------------------------------------------------
(* Emptying the outgoing ring: `sWriteCursor = sSendCursor' is a load and a *)
(* store.                                                                   *)

Trouble == faults < MaxFaults /\ faults' = faults + 1 /\ through' = FALSE

MainIsFree == Runs("main") /\ ~call["main"].active /\ clearing = "no"

ClearLoads ==           \* SioClearOutgoingQueue, while the session runs
  /\ Trouble
  /\ playing /\ MainIsFree
  /\ clearing' = "queue" /\ loaded' = 0
  /\ UNCHANGED <<outgoing, write, call, playing, mailed, incoming, late,
                 raced, accepted>>

HaltLoadsWhilePlaying ==    \* mutant: Sio_Halt does not stop the session first
  /\ Trouble
  /\ playing /\ MainIsFree
  /\ clearing' = "halt" /\ loaded' = 0
  /\ UNCHANGED <<outgoing, write, call, playing, mailed, incoming, late,
                 raced, accepted>>

HaltLoads ==            \* Sio_Halt stops the session first
  /\ Trouble
  /\ playing /\ MainIsFree
  /\ playing' = FALSE
  /\ clearing' = "halt" /\ loaded' = 0
  /\ UNCHANGED <<outgoing, write, call, mailed, incoming, late, raced,
                 accepted>>

ClearStores ==
  /\ Runs("main") /\ clearing # "no"
  /\ write' = loaded
  /\ clearing' = "no" /\ loaded' = 0
  /\ raced' = (raced \/ (clearing = "queue" /\ loaded # 0))
  /\ UNCHANGED <<outgoing, call, playing, mailed, incoming, late, faults, accepted,
                 through>>

(* Sio_StartLinkSession: unk_001 is 0 until the cursors are set.            *)
StartSession ==
  /\ ~playing /\ MainIsFree
  /\ write' = 0
  /\ playing' = TRUE
  /\ UNCHANGED <<outgoing, call, clearing, loaded, mailed, incoming, late, faults, raced,
                 accepted, through>>
-----------------------------------------------------------------------------
(* The serial interrupt, on both consoles. *)

Count  == Len(incoming)
Length == incoming[2]
Framed == Count > 4 /\ incoming[1] = Magic

(* Can Sio_ReadPacket move its cursor?  What it makes of the words does not *)
(* depend on when it reads them: a main loop reads them at once, or is so   *)
(* late that they are lost.                                                 *)
CanRead ==
  \/ Count > 0 /\ incoming[1] # Magic
  \/ Framed /\ (Length > MaxBody \/ Length + 6 <= Count)

HasWord == playing /\ write # 0
WordOut == IF HasWord THEN outgoing[0] ELSE Idle

SendCursorMoves ==      \* every position is one word nearer
  /\ outgoing' = [i \in Cursor |-> outgoing[After(i)]]
  /\ write' = Before(write)
  /\ loaded' = IF clearing = "no" THEN 0 ELSE Before(loaded)
  /\ call' = [c \in DOMAIN call |->
       IF call[c].active THEN [call[c] EXCEPT !.cur = Before(@)] ELSE call[c]]

Transfer(words) ==      \* a word leaves, what has not been read is `words'
  /\ IF HasWord THEN SendCursorMoves ELSE UNCHANGED <<outgoing, write, loaded, call>>
  /\ incoming' = words
  /\ UNCHANGED <<clearing, playing, mailed, raced, accepted>>

RingIsFull == Len(incoming) = RingSize - 1

ArrivesUnwrapped(word) == Append(incoming, word)   \* mutant: no & 0x1FF

(* The interrupt does not look at sReadCursor: a ring too full is empty.    *)
Arrives(word) == IF RingIsFull THEN << >> ELSE Append(incoming, word)

Serial ==
  /\ late \/ ~CanRead
  /\ Transfer(Arrives(WordOut))
  /\ late' = (late /\ ~RingIsFull)
  /\ UNCHANGED <<faults, through>>

Garble ==
  /\ Trouble
  /\ late \/ ~CanRead
  /\ Transfer(Arrives(Noise))
  /\ late' = (late /\ ~RingIsFull)

FallBehind ==
  /\ Trouble
  /\ ~late /\ late' = TRUE
  /\ UNCHANGED <<sender, incoming, raced, accepted>>

(* Sio_Halt and Sio_StartLinkSession of the console that reads.             *)
ReaderRestarts ==
  /\ Trouble
  /\ incoming # << >> /\ incoming' = << >>
  /\ UNCHANGED <<sender, late, raced, accepted>>

-----------------------------------------------------------------------------
(* Sio_ReadPacket. *)

Skip(n) == incoming' = SubSeq(incoming, n + 1, Count)

Returned == SubSeq(incoming, 5, 4 + Length)

SumsMatch == incoming[3] = SumA(Returned) /\ incoming[4] = SumB(Returned)

(* What the caller makes of a packet. *)
Return(body) ==
  \/ /\ body = Again
     /\ through' = TRUE
     /\ UNCHANGED accepted
  \/ /\ body # Again
     /\ accepted' = IF raced THEN <<body>> ELSE Append(accepted, body)
     /\ UNCHANGED through

Resync ==               \* on to the next magic, or to the end
  /\ ~late
  /\ Count > 0 /\ incoming[1] # Magic
  /\ \E n \in 1 .. Count :
       /\ n < Count => incoming[n + 1] = Magic
       /\ \A i \in 1 .. n : incoming[i] # Magic
       /\ Skip(n)
  /\ UNCHANGED <<sender, late, faults, raced, accepted, through>>

TooLongStays ==         \* mutant: the reader does not get past it
  /\ ~late
  /\ Framed /\ Length > MaxBody
  /\ Skip(0)
  /\ UNCHANGED <<sender, late, faults, raced, accepted, through>>

TooLong ==
  /\ ~late
  /\ Framed /\ Length > MaxBody
  /\ Skip(1)
  /\ UNCHANGED <<sender, late, faults, raced, accepted, through>>

TakePacketUnsummed ==   \* mutant: the sums are not compared
  /\ ~late
  /\ Framed /\ Length <= MaxBody /\ Length + 6 <= Count
  /\ Skip(Length + 4)
  /\ Return(Returned)
  /\ UNCHANGED <<sender, late, faults, raced>>

TakePacket ==
  /\ ~late
  /\ Framed /\ Length <= MaxBody /\ Length + 6 <= Count
  /\ Skip(Length + 4)
  /\ \/ SumsMatch /\ Return(Returned)
     \/ ~SumsMatch /\ UNCHANGED <<accepted, through>>
  /\ UNCHANGED <<sender, late, faults, raced>>

ReadPacket == Resync \/ TooLong \/ TakePacket
-----------------------------------------------------------------------------
Next ==
  \/ SendMail \/ SendAgain
  \/ \E c \in {"main", "vblank"} : Write(c) \/ Commit(c)
  \/ ClearLoads \/ HaltLoads \/ ClearStores \/ StartSession
  \/ Serial \/ Garble \/ FallBehind \/ ReaderRestarts
  \/ ReadPacket

(* Transfers and the main loops go on, an interrupt handler returns, and    *)
(* SioVsync_Loop runs every frame.                                          *)
Fairness ==
  /\ WF_vars(Serial) /\ WF_vars(ReadPacket)
  /\ \A c \in {"main", "vblank"} : WF_vars(Write(c) \/ Commit(c))
  /\ WF_vars(ClearStores) /\ WF_vars(StartSession)
  /\ WF_vars(SendAgain)

Spec     == Init /\ [][Next]_vars
FairSpec == Spec /\ Fairness
-----------------------------------------------------------------------------
(* Whatever is damaged, lost or overwritten, half a packet or two halves    *)
(* included: no packet is returned that no SioSend was given.               *)
Genuine ==
  \A i \in DOMAIN accepted : \E k \in 1 .. mailed : accepted[i] = Mail[k]

(* Unless an interrupt gets in between two steps of a SioSend or of a       *)
(* SioClearOutgoingQueue of the main loop, packets arrive in the order they *)
(* were sent in and once: what SioLink takes for granted of its lanes.      *)
InOrder ==
  ~raced => \A i, j \in DOMAIN accepted : i < j =>
    \E k, l \in DOMAIN Mail : k < l /\ accepted[i] = Mail[k] /\ accepted[j] = Mail[l]

(* A packet that is sent again and again gets through after the last        *)
(* trouble, whatever the rings held when it was over.                       *)
Recovers == []<>through
=============================================================================
