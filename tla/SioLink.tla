------------------------------ MODULE SioLink -------------------------------
(***************************************************************************)
(* The acknowledged messages of src/sio_core.c: SioEmitData, the            *)
(* retransmission of SioVsync_Loop, the packets SioMain_Loop handles, and   *)
(* SioReceiveData.                                                          *)
(*                                                                         *)
(* A packet is what SioSend put in the outgoing ring and Sio_ReadPacket     *)
(* takes out of the lane of its sender; packets whose checksum fails, that  *)
(* find a ring full or that a console overwrites are lost.  Every console   *)
(* runs alone, and its vertical blank interrupt (SioVsync_Loop) runs between *)
(* any two iterations of its loops: one iteration of SioMain_Loop or of     *)
(* SioReceiveData is one step.  Connected consoles stay connected: the game *)
(* changes unk_009 only while it sets a session up.                         *)
(*                                                                         *)
(* A packet leaves the outgoing ring one word per serial interrupt.  Where  *)
(* those interrupts have stopped the ring fills up, SioSend takes nothing   *)
(* any more, and the resends it refuses are not counted.                    *)
(***************************************************************************)
EXTENDS Integers, Sequences, FiniteSets

CONSTANTS
  Console,    \* the connected consoles, the bits of unk_009
  SeqMod,     \* sequence numbers are u16: 65536
  SendSlots,  \* SIO_MAX_PENDING_SEND
  RecvSlots,  \* SIO_MAX_PENDING_RECV
  Readers,    \* consoles whose games go on calling SioReceiveData
  MaxResend,  \* sends of one message before the console gives up, 60
  MayRefuse,  \* may a receiver be handed a message it does not want?
  MayStop,    \* bound: consoles whose serial interrupts may stop
  MaxData,    \* bound: messages each console emits
  NetCap      \* bound on the packets on their way between two consoles

(* Three sequence numbers tell the message a console waits for from the one *)
(* before it and the one after it.                                          *)
ASSUME LinkAssumption ==
  /\ IsFiniteSet(Console)
  /\ SeqMod \in Nat /\ SeqMod >= 3
  /\ SendSlots \in Nat \ {0}
  /\ RecvSlots \in Nat \ {0}
  /\ Readers \subseteq Console
  /\ MaxResend \in Nat
  /\ MayRefuse \in BOOLEAN
  /\ MayStop \subseteq Console
  /\ MaxData \in [Console -> Nat]
  /\ NetCap \in Nat \ {0}

VARIABLES
  emitted,      \* messages emitted; unk_022 is this modulo SeqMod
  pendingSend,  \* pendingSend from nextPendingSend up to nextPendingWrite
  selfSeq,      \* selfSeq
  awaiting,     \* unk_02E: the head of pendingSend was sent, acks count
  acked,        \* unk_00F: who acknowledged it
  tries,        \* unk_011: how often it was sent
  pendingRecv,  \* pendingRecv from nextPendingRead up to nextPendingRecv
  seq,          \* seq[m][n]: number m expects of n
  wire,         \* wire[n][m]: packets on their way from n to m
  failed,       \* the error screen has replaced the game
  stopped,      \* consoles that get no serial interrupts any more
  got           \* history: what SioReceiveData returned

vars == <<emitted, pendingSend, selfSeq, awaiting, acked, tries,
          pendingRecv, seq, wire, failed, stopped, got>>

SeqNo  == 0 .. SeqMod - 1
Data   == [kind : {"data"}, param : SeqNo, data : Nat]
Ack    == [kind : {"ack"}, param : SeqNo]
Held   == [sender : Console, param : SeqNo, data : Nat]

(* Rings and counters stay within what sio_core.h declares. *)
TypeOK ==
  /\ emitted \in [Console -> Nat]
  /\ pendingSend \in [Console -> Seq(Data)]
  /\ selfSeq \in [Console -> SeqNo]
  /\ awaiting \in [Console -> BOOLEAN]
  /\ acked \in [Console -> SUBSET Console]
  /\ tries \in [Console -> 0 .. MaxResend + 1]
  /\ pendingRecv \in [Console -> Seq(Held)]
  /\ seq \in [Console -> [Console -> SeqNo]]
  /\ wire \in [Console -> [Console -> Seq(Data \cup Ack)]]
  /\ failed \in [Console -> BOOLEAN]
  /\ stopped \subseteq Console
  /\ got \in [Console -> [Console -> Seq(Nat)]]

SuccUnbounded(s) == s + 1    \* mutant: numbers wider than u16

Succ(s) == (s + 1) % SeqMod

Init ==      \* Sio_ResetState, Sio_ResetSession
  /\ emitted = [n \in Console |-> 0]
  /\ pendingSend = [n \in Console |-> << >>]
  /\ selfSeq = [n \in Console |-> 0]
  /\ awaiting = [n \in Console |-> FALSE]
  /\ acked = [n \in Console |-> {}]
  /\ tries = [n \in Console |-> 0]
  /\ pendingRecv = [n \in Console |-> << >>]
  /\ seq = [m \in Console |-> [n \in Console |-> 0]]
  /\ wire = [n \in Console |-> [m \in Console |-> << >>]]
  /\ failed = [n \in Console |-> FALSE]
  /\ stopped = {}
  /\ got = [m \in Console |-> [n \in Console |-> << >>]]
-----------------------------------------------------------------------------
(* SioSend and Sio_ReadPacket.  What finds the lane full is lost. *)

Sent(w, from, to, packet) ==
  IF Len(w[from][to]) < NetCap
    THEN [w EXCEPT ![from][to] = Append(@, packet)]
    ELSE w

Taken(from, to) == [wire EXCEPT ![from][to] = Tail(@)]

(* The acknowledgement console m sends to n: the number it expects next.    *)
(* It is broadcast too, the others ignore it.                               *)
Acks(w, m, n, s) == Sent(w, m, n, [kind |-> "ack", param |-> s])

Lose(n, m) ==
  /\ wire[n][m] # << >>
  /\ wire' = Taken(n, m)
  /\ UNCHANGED <<emitted, pendingSend, selfSeq, awaiting, acked, tries,
                 pendingRecv, seq, failed, stopped, got>>
(* The cable is pulled out of console n, or the console that clocks the     *)
(* transfers stops: SioHandleIrq_Serial no longer runs on n.                *)
Unplug(n) ==
  /\ n \in MayStop \ stopped
  /\ stopped' = stopped \cup {n}
  /\ UNCHANGED <<emitted, pendingSend, selfSeq, awaiting, acked, tries,
                 pendingRecv, seq, wire, failed, got>>
-----------------------------------------------------------------------------
(* The sender. *)

Emit(n) ==      \* SioEmitData
  /\ ~failed[n]
  /\ emitted[n] < MaxData[n]
  /\ Len(pendingSend[n]) < SendSlots
  /\ emitted' = [emitted EXCEPT ![n] = @ + 1]
  /\ pendingSend' = [pendingSend EXCEPT ![n] =
       Append(@, [kind |-> "data", param |-> emitted[n] % SeqMod, data |-> emitted[n]])]
  /\ UNCHANGED <<selfSeq, awaiting, acked, tries, pendingRecv, seq, wire, failed, stopped, got>>

(* Mutant: resends are not counted. *)
ResendUncounted(n) ==
  /\ ~failed[n] /\ pendingSend[n] # << >> /\ tries[n] <= MaxResend
  /\ wire' = [wire EXCEPT ![n] = [m \in Console |->
       IF m # n /\ Len(@[m]) < NetCap THEN Append(@[m], Head(pendingSend[n])) ELSE @[m]]]
  /\ awaiting' = [awaiting EXCEPT ![n] = TRUE]
  /\ UNCHANGED <<emitted, pendingSend, selfSeq, acked, tries, pendingRecv, seq, failed, stopped, got>>

(* SioVsync_Loop every 38 frames: the head of pendingSend goes to everybody. *)
(* This is the try SioSend takes, and it is counted.  SioSend refuses one    *)
(* when the outgoing ring has no room: that changes nothing, the counter     *)
(* included, and is a stuttering step.                                       *)
Resend(n) ==
  /\ ~failed[n]
  /\ tries[n] <= MaxResend
  /\ pendingSend[n] # << >>
  /\ wire' = [wire EXCEPT ![n] = [m \in Console |->
       IF m # n /\ Len(@[m]) < NetCap THEN Append(@[m], Head(pendingSend[n])) ELSE @[m]]]
  /\ tries' = [tries EXCEPT ![n] = @ + 1]
  /\ awaiting' = [awaiting EXCEPT ![n] = TRUE]
  /\ UNCHANGED <<emitted, pendingSend, selfSeq, acked, pendingRecv, seq, failed, stopped, got>>

GiveUp(n) ==    \* SioVsync_Loop, the error screen
  /\ ~failed[n]
  /\ tries[n] > MaxResend
  /\ failed' = [failed EXCEPT ![n] = TRUE]
  /\ UNCHANGED <<emitted, pendingSend, selfSeq, awaiting, acked, tries,
                 pendingRecv, seq, wire, stopped, got>>

AckCountsAnyNumber(n, s) == awaiting[n]      \* mutant: the number is not compared

(* An acknowledgement with number s means something to console n. *)
AckCounts(n, s) == awaiting[n] /\ s = Succ(selfSeq[n])

EverybodyOnce(consoles) == consoles # {}   \* mutant: one acknowledgement is enough

Everybody(consoles) == consoles = Console

(* SIO_MSG_DATA_ACK: once everybody has acknowledged, the next message.     *)
(* SioMain_Loop adds the console's own bit each time it runs.               *)
TakeAck(n, m) ==
  /\ ~failed[n]
  /\ wire[m][n] # << >> /\ Head(wire[m][n]).kind = "ack"
  /\ wire' = Taken(m, n)
  /\ LET counts == AckCounts(n, Head(wire[m][n]).param)
         all    == acked[n] \cup {n, m}
     IN  \/ /\ ~counts
            /\ UNCHANGED <<selfSeq, pendingSend, awaiting, tries, acked>>
         \/ /\ counts /\ ~Everybody(all)
            /\ acked' = [acked EXCEPT ![n] = all]
            /\ UNCHANGED <<selfSeq, pendingSend, awaiting, tries>>
         \/ /\ counts /\ Everybody(all)
            /\ selfSeq' = [selfSeq EXCEPT ![n] = Succ(@)]
            /\ pendingSend' = [pendingSend EXCEPT ![n] = Tail(@)]
            /\ awaiting' = [awaiting EXCEPT ![n] = FALSE]
            /\ tries' = [tries EXCEPT ![n] = 0]
            /\ acked' = [acked EXCEPT ![n] = {}]
  /\ UNCHANGED <<emitted, pendingRecv, seq, failed, stopped, got>>
-----------------------------------------------------------------------------
(* The receiver. *)

(* SIO_MSG_DATA: a message with the expected number is queued and           *)
(* acknowledged before the game has looked at it, unless the queue is full. *)
TakeData(m, n) ==
  /\ ~failed[m]
  /\ wire[n][m] # << >> /\ Head(wire[n][m]).kind = "data"
  /\ LET d == Head(wire[n][m])
     IN  \/ /\ d.param # seq[m][n]
            /\ wire' = Acks(Taken(n, m), m, n, seq[m][n])
            /\ UNCHANGED pendingRecv
         \/ /\ d.param = seq[m][n] /\ Len(pendingRecv[m]) = RecvSlots
            /\ wire' = Taken(n, m)
            /\ UNCHANGED pendingRecv
         \/ /\ d.param = seq[m][n] /\ Len(pendingRecv[m]) < RecvSlots
            /\ pendingRecv' = [pendingRecv EXCEPT ![m] =
                 Append(@, [sender |-> n, param |-> d.param, data |-> d.data])]
            /\ wire' = Acks(Taken(n, m), m, n, Succ(seq[m][n]))
  /\ UNCHANGED <<emitted, pendingSend, selfSeq, awaiting, acked, tries, seq, failed, stopped, got>>

FirstHeld(m)  == Head(pendingRecv[m])
IsFresh(m) == FirstHeld(m).param = seq[m][FirstHeld(m).sender]

(* SioReceiveData skips an entry that was received before, or that `verify' *)
(* refuses, and says so to its sender.                                      *)
Skip(m) ==
  /\ ~failed[m]
  /\ pendingRecv[m] # << >>
  /\ ~IsFresh(m) \/ MayRefuse
  /\ pendingRecv' = [pendingRecv EXCEPT ![m] = Tail(@)]
  /\ wire' = Acks(wire, m, FirstHeld(m).sender, seq[m][FirstHeld(m).sender])
  /\ UNCHANGED <<emitted, pendingSend, selfSeq, awaiting, acked, tries, seq, failed, stopped, got>>

(* SioReceiveData returns -1 for a message of another length than expected, *)
(* and its callers put up the error screen.                                 *)
Unexpected(m) ==
  /\ ~failed[m]
  /\ MayRefuse
  /\ pendingRecv[m] # << >>
  /\ pendingRecv' = [pendingRecv EXCEPT ![m] = Tail(@)]
  /\ failed' = [failed EXCEPT ![m] = TRUE]
  /\ UNCHANGED <<emitted, pendingSend, selfSeq, awaiting, acked, tries, seq, wire, stopped, got>>

(* Mutant: the number is not compared again. *)
AcceptUnchecked(m) ==
  /\ ~failed[m] /\ pendingRecv[m] # << >>
  /\ LET d == Head(pendingRecv[m])
     IN  /\ seq' = [seq EXCEPT ![m][d.sender] = Succ(@)]
         /\ got' = [got EXCEPT ![m][d.sender] = Append(@, d.data)]
         /\ wire' = Acks(wire, m, d.sender, Succ(seq[m][d.sender]))
  /\ pendingRecv' = [pendingRecv EXCEPT ![m] = Tail(@)]
  /\ UNCHANGED <<emitted, pendingSend, selfSeq, awaiting, acked, tries, failed, stopped>>

Accept(m) ==    \* SioReceiveData returns a message
  /\ ~failed[m]
  /\ pendingRecv[m] # << >> /\ IsFresh(m)
  /\ LET d == FirstHeld(m)
     IN  /\ seq' = [seq EXCEPT ![m][d.sender] = Succ(@)]
         /\ got' = [got EXCEPT ![m][d.sender] = Append(@, d.data)]
         /\ wire' = Acks(wire, m, d.sender, Succ(seq[m][d.sender]))
  /\ pendingRecv' = [pendingRecv EXCEPT ![m] = Tail(@)]
  /\ UNCHANGED <<emitted, pendingSend, selfSeq, awaiting, acked, tries, failed, stopped>>
-----------------------------------------------------------------------------
Next ==
  \E n \in Console :
    \/ Emit(n) \/ Resend(n) \/ GiveUp(n) \/ Unplug(n)
    \/ Skip(n) \/ Unexpected(n) \/ Accept(n)
    \/ \E m \in Console \ {n} : Lose(n, m) \/ TakeAck(n, m) \/ TakeData(n, m)

(* The vertical blank interrupt runs every frame.  While serial interrupts   *)
(* arrive the outgoing ring drains faster than a console fills it, so that   *)
(* sooner or later SioSend takes a resend.  The games in Readers poll        *)
(* SioReceiveData every frame.  Nothing is assumed of what goes into the     *)
(* cable: it need never come out.                                            *)
Fairness ==
  /\ \A n \in Console : WF_vars(n \notin stopped /\ Resend(n)) /\ WF_vars(GiveUp(n))
  /\ \A m \in Readers : WF_vars(Skip(m) \/ Unexpected(m) \/ Accept(m))

Spec     == Init /\ [][Next]_vars
FairSpec == Spec /\ Fairness
-----------------------------------------------------------------------------
(* Whatever is lost, refused or sent again, the game on each console sees   *)
(* what the others emitted, in order and once.                              *)
Channel == INSTANCE SioChannel WITH emitted <- emitted, got <- got
InOrderOnce == Channel!Spec

(* The number of the message console n is trying to get through. *)
Base(n) == emitted[n] - Len(pendingSend[n])

(* A message everybody has acknowledged is not lost: each receiver has      *)
(* given it to the game or holds it.                                        *)
AckedIsKept ==
  \A n \in Console : \A m \in Console \ {n} : \A k \in 0 .. Base(n) - 1 :
    \/ k < Len(got[m][n])
    \/ \E i \in DOMAIN pendingRecv[m] :
         pendingRecv[m][i].sender = n /\ pendingRecv[m][i].data = k

(* The window is one message: a console moves on to its next message when   *)
(* everybody holds the last one, and to the one after when the games have   *)
(* read it.  Sequence numbers modulo 3 would be enough.                     *)
OneAhead ==
  \A n \in Console : \A m \in Console \ {n} :
    Len(got[m][n]) <= Base(n) + 1 /\ Base(n) <= Len(got[m][n]) + 1

HeldBy(m, n, k) ==
  \E i \in DOMAIN pendingRecv[m] :
    pendingRecv[m][i].sender = n /\ pendingRecv[m][i].data = k

(* An emitted message reaches every game, or the error screen tells the     *)
(* players on one side that it did not.  A game that does not read its      *)
(* queue may leave the message there; it stops the sender when the queue is *)
(* full.  A sender whose outgoing ring no longer drains waits for ever.     *)
Settles ==
  \A n \in Console : \A m \in Console \ {n} : \A k \in 1 .. MaxData[n] :
    emitted[n] >= k ~>
      \/ Len(got[m][n]) >= k
      \/ m \notin Readers /\ HeldBy(m, n, k - 1)
      \/ failed[n] \/ failed[m]
      \/ n \in stopped
=============================================================================
