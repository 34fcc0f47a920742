-------------------------- MODULE MapPhasesProofs ---------------------------
(***************************************************************************)
(* Proofs about MapPhases, for armies of any size and whatever extensions   *)
(* ask for.                                                                 *)
(***************************************************************************)
EXTENDS MapPhases, TLAPS

(* What the controller's functions leave in its three variables. *)
LEMMA ResetTyped ==
  ASSUME Reset
  PROVE  control' = "player" /\ state' = "reset" /\ failure' = FALSE
BY DEF Reset

(* What SetBlueControl and SetFailure leave is of the right types.          *)
LEMMA ControlTyped ==
  ASSUME TypeOK, NEW c \in {"player", "computer"}, SetBlueControl(c)
  PROVE  /\ control' \in {"player", "computer"} /\ failure' \in BOOLEAN
         /\ state' \in {"reset", "player", "computer", "complete", "failure"}
<1>1. CASE control' = c /\ failure' = FALSE
            /\ state' = IF state = "failure" THEN "reset" ELSE state
  BY <1>1 DEF TypeOK
<1>2. CASE SetFailure
  BY <1>2 DEF TypeOK, SetFailure
<1>3. CASE UNCHANGED autoplay
  BY <1>3 DEF TypeOK, autoplay
<1> QED
  BY <1>1, <1>2, <1>3 DEF SetBlueControl

(* So is what the end of a blue computer phase leaves.                      *)
LEMMA CompleteTyped ==
  ASSUME TypeOK, OnBlueComputerPhaseComplete
  PROVE  /\ control' = control /\ failure' \in BOOLEAN
         /\ state' \in {"failure", "complete"}
BY DEF TypeOK, OnBlueComputerPhaseComplete, SetFailure, autoplay

(* So is what entering a computer phase leaves.                             *)
LEMMA EnterTyped ==
  ASSUME NEW phase, Enter(phase)
  PROVE  at' = phase /\ left' \in 0 .. MaxUnits
BY PhaseAssumption DEF Enter

(* A cartridge that is switched on is well typed.                           *)
LEMMA TypeInit == Init => TypeOK
<1>1. 0 \in 0 .. MaxUnits
  BY PhaseAssumption
<1>2. Init => saved \in {NoSuspend}
  BY DEF Init
<1> QED
  BY <1>1, <1>2 DEF Init, TypeOK, Army

(* Steps of the map's procs keep the types. *)
LEMMA TypeMap ==
  ASSUME TypeOK,
         \/ ChangePhase \/ StartPhase \/ PlayerActs \/ PlayerEnds \/ Hotkey
         \/ UnitSpringsTrap \/ UnitMoved \/ ActionUnsupported
         \/ ComputerEnds \/ BerserkEnds
  PROVE  TypeOK'
<1> USE DEF TypeOK, MapRuns, Phase, Army
<1>1. CASE ChangePhase
  BY <1>1 DEF ChangePhase, FactionAfter, Point, autoplay
<1>2. CASE StartPhase
  BY <1>2, EnterTyped DEF StartPhase
<1>3. CASE PlayerActs
  BY <1>3 DEF PlayerActs, Suspended, Point, autoplay
<1>4. CASE PlayerEnds
  BY <1>4, EnterTyped DEF PlayerEnds, autoplay
<1>5. CASE Hotkey
  BY <1>5, EnterTyped, ControlTyped DEF Hotkey
<1>6. CASE UnitSpringsTrap
  BY <1>6 DEF UnitSpringsTrap, ComputerTurn, Suspended, Point, autoplay
<1>7. CASE UnitMoved
  <2>1. left' \in 0 .. MaxUnits
    BY <1>7, PhaseAssumption DEF UnitMoved, ComputerTurn
  <2>2. at \in Phase
    BY <1>7 DEF UnitMoved, ComputerTurn
  <2> QED
    BY <1>7, <2>1, <2>2 DEF UnitMoved, ComputerTurn, Suspended, Point, autoplay
<1>8. CASE ActionUnsupported
  BY <1>8, PhaseAssumption DEF ActionUnsupported, ComputerTurn, SetFailure
<1>9. CASE ComputerEnds
  <2>1. CASE OnBlueComputerPhaseComplete
    BY <1>9, <2>1, EnterTyped, CompleteTyped DEF ComputerEnds
  <2>2. CASE UNCHANGED autoplay
    BY <1>9, <2>2, EnterTyped DEF ComputerEnds, autoplay
  <2> QED
    BY <1>9, <2>1, <2>2 DEF ComputerEnds
<1>10. CASE BerserkEnds
  BY <1>10 DEF BerserkEnds, autoplay
<1> QED
  BY <1>1, <1>2, <1>3, <1>4, <1>5, <1>6, <1>7, <1>8, <1>9, <1>10

(* So do the steps of the others. *)
LEMMA TypeOthers ==
  ASSUME TypeOK,
         \/ Charge \/ Monitor \/ EndMap \/ StartMap \/ ResumeMap \/ PowerOff
         \/ \E c \in Request : Ask(c)
  PROVE  TypeOK'
<1> USE DEF TypeOK, Phase, Army
<1>1. CASE Charge
  BY <1>1, ControlTyped DEF Charge
<1>2. CASE Monitor
  <2>1. control' \in {"player", "computer"} /\ marker' \in BOOLEAN
    <3>1. \/ control' = "player" /\ marker' = FALSE
          \/ control' = control /\ marker' = marker
      BY <1>2 DEF Monitor
    <3>2. control \in {"player", "computer"} /\ marker \in BOOLEAN
      OBVIOUS
    <3> QED BY <3>1, <3>2
  <2>2. /\ due' \in BOOLEAN
        /\ UNCHANGED <<asked, at, faction, left, state, failure, saved>>
    BY <1>2 DEF Monitor
  <2> QED
    BY <2>1, <2>2
<1>3. CASE EndMap
  BY <1>3, ResetTyped, PhaseAssumption DEF EndMap
<1>4. CASE StartMap
  BY <1>4, ResetTyped DEF StartMap
<1>5. CASE ResumeMap
  <2>1. saved.faction \in Army /\ saved' = saved
    BY <1>5 DEF ResumeMap
  <2>2. at' \in {"route"} \cup Phase /\ left' \in 0 .. MaxUnits
    BY <1>5, EnterTyped, PhaseAssumption DEF ResumeMap
  <2>3. /\ control' = "player" /\ state' = "reset" /\ failure' = FALSE
        /\ faction' = saved.faction /\ UNCHANGED <<marker, due, asked>>
    BY <1>5, ResetTyped DEF ResumeMap
  <2> QED
    BY <2>1, <2>2, <2>3
<1>6. CASE PowerOff
  <2>1. 0 \in 0 .. MaxUnits
    BY PhaseAssumption
  <2> QED
    BY <1>6, <2>1, ResetTyped DEF PowerOff
<1>7. CASE \E c \in Request : Ask(c)
  BY <1>7, ControlTyped, PhaseAssumption DEF Ask
<1> QED
  BY <1>1, <1>2, <1>3, <1>4, <1>5, <1>6, <1>7

(* The controller, the phase, the marker and the suspended chapter keep     *)
(* their types (src/bm.c, src/expansion_autoplay.c).                        *)
THEOREM TypeCorrect == Spec => []TypeOK
<1>1. TypeOK /\ [Next]_vars => TypeOK'
  <2> SUFFICES ASSUME TypeOK, [Next]_vars PROVE TypeOK'
    OBVIOUS
  <2>1. CASE UNCHANGED vars
    BY <2>1 DEF vars, TypeOK
  <2> QED
    BY <2>1, TypeMap, TypeOthers DEF Next
<1> QED
  BY <1>1, TypeInit, PTL DEF Spec
-----------------------------------------------------------------------------
(* A blue computer phase that runs is one the controller knows of: it has   *)
(* the army and reports the phase as running or as failed.                  *)
Known == at = "computer" /\ faction = "blue" => IsBlueComputerPhase

(* No phase runs when the cartridge is switched on.                         *)
LEMMA KnownInit == Init => Known
BY DEF Init, Known

(* The steps of the map's procs keep the controller informed of its phase.  *)
LEMMA KnownMap ==
  ASSUME TypeOK, Known,
         \/ ChangePhase \/ StartPhase \/ PlayerActs \/ PlayerEnds \/ Hotkey
         \/ UnitSpringsTrap \/ UnitMoved \/ ActionUnsupported
         \/ ComputerEnds \/ BerserkEnds
  PROVE  Known'
<1> USE DEF Known, IsBlueComputerPhase
<1>1. CASE ChangePhase \/ PlayerEnds \/ Hotkey \/ ComputerEnds \/ BerserkEnds
  BY <1>1 DEF ChangePhase, PlayerEnds, Hotkey, ComputerEnds, BerserkEnds, Enter
<1>2. CASE StartPhase
  BY <1>2 DEF StartPhase, Enter
<1>3. CASE PlayerActs
  BY <1>3 DEF PlayerActs, autoplay
<1>4. CASE UnitSpringsTrap
  BY <1>4 DEF UnitSpringsTrap, autoplay
<1>5. CASE UnitMoved
  BY <1>5 DEF UnitMoved, autoplay
<1>6. CASE ActionUnsupported
  BY <1>6 DEF ActionUnsupported, SetFailure
<1> QED
  BY <1>1, <1>2, <1>3, <1>4, <1>5, <1>6

(* So do Charge, its marker, requests, resets and power failures.           *)
LEMMA KnownOthers ==
  ASSUME TypeOK, Known,
         \/ Charge \/ Monitor \/ EndMap \/ StartMap \/ ResumeMap \/ PowerOff
         \/ \E c \in Request : Ask(c)
  PROVE  Known'
<1> USE DEF Known, IsBlueComputerPhase
<1>1. CASE Charge \/ EndMap \/ StartMap \/ ResumeMap \/ PowerOff
  BY <1>1 DEF Charge, EndMap, StartMap, ResumeMap, PowerOff, Enter
<1>2. CASE Monitor
  BY <1>2 DEF Monitor
<1>3. CASE \E c \in Request : Ask(c)
  BY <1>3 DEF Ask, SetBlueControl, SetFailure, autoplay
<1> QED
  BY <1>1, <1>2, <1>3

(* The controller always knows of a blue computer phase.                    *)
LEMMA KnownAlways == Spec => [](TypeOK /\ Known)
<1>1. Known /\ TypeOK /\ [Next]_vars => Known'
  <2> SUFFICES ASSUME Known, TypeOK, [Next]_vars PROVE Known'
    OBVIOUS
  <2>1. CASE UNCHANGED vars
    BY <2>1 DEF vars, Known, IsBlueComputerPhase
  <2> QED
    BY <2>1, KnownMap, KnownOthers DEF Next
<1> QED
  BY <1>1, KnownInit, TypeCorrect, PTL DEF Spec

(* A running blue computer phase keeps the army whoever asks for it: the    *)
(* marker waits (TryRestorePlayerControlAfterPhase) and a request is        *)
(* rejected (SetBlueControl).                                               *)
THEOREM ControlIsKept == Spec => RunningKeepsControl
<1>1. TypeOK /\ Known /\ [Next]_vars =>
        [at = "computer" /\ at' = "computer" /\ faction = "blue" => control' = control]_vars
  <2> SUFFICES ASSUME Known, Next, at = "computer", at' = "computer", faction = "blue"
               PROVE  control' = control
    BY DEF vars
  <2>1. IsBlueComputerPhase
    BY DEF Known
  <2>2. CASE UnitSpringsTrap \/ UnitMoved \/ ActionUnsupported
    BY <2>2 DEF UnitSpringsTrap, UnitMoved, ActionUnsupported, SetFailure, autoplay
  <2>3. CASE Monitor
    BY <2>1, <2>3 DEF Monitor, IsBlueComputerPhase
  <2>4. CASE \E c \in Request : Ask(c)
    BY <2>1, <2>4 DEF Ask, SetBlueControl, SetFailure, autoplay
  <2>5. CASE \/ ChangePhase \/ StartPhase \/ PlayerActs \/ PlayerEnds \/ Hotkey
             \/ ComputerEnds \/ BerserkEnds
    BY <2>5 DEF ChangePhase, StartPhase, PlayerActs, PlayerEnds, Hotkey, ComputerEnds,
                BerserkEnds, Enter
  <2>6. CASE Charge \/ EndMap \/ StartMap \/ ResumeMap \/ PowerOff
    BY <2>6 DEF Charge, EndMap, StartMap, ResumeMap, PowerOff, Enter
  <2> QED
    BY <2>2, <2>3, <2>4, <2>5, <2>6 DEF Next
<1> QED
  BY <1>1, KnownAlways, PTL DEF RunningKeepsControl, Spec

(* No chapter is suspended after a move of a blue computer phase, because   *)
(* CpDecide_Suspend sees the phase while it runs, failed or not.            *)
THEOREM BlueIsNotSuspended == Spec => []NoSuspendInBluePhase
<1>1. Init => NoSuspendInBluePhase
  BY DEF Init, NoSuspendInBluePhase
<1>2. TypeOK /\ Known /\ NoSuspendInBluePhase /\ [Next]_vars => NoSuspendInBluePhase'
  <2> SUFFICES ASSUME Known, NoSuspendInBluePhase, [Next]_vars
               PROVE  NoSuspendInBluePhase'
    OBVIOUS
  <2>1. CASE ChangePhase
    BY <2>1 DEF ChangePhase, NoSuspendInBluePhase
  <2>2. CASE PlayerActs
    BY <2>2 DEF PlayerActs, Suspended, NoSuspendInBluePhase
  <2>3. CASE UnitSpringsTrap
    BY <2>3 DEF UnitSpringsTrap, Suspended, NoSuspendInBluePhase
  <2>4. CASE UnitMoved
    BY <2>4 DEF UnitMoved, Suspended, Known, NoSuspendInBluePhase, IsBlueComputerPhase
  <2>5. CASE UNCHANGED saved
    BY <2>5 DEF NoSuspendInBluePhase
  <2> QED
    BY <2>1, <2>2, <2>3, <2>4, <2>5
       DEF Next, vars, StartPhase, PlayerEnds, Hotkey, ActionUnsupported, ComputerEnds,
           BerserkEnds, Charge, Monitor, EndMap, StartMap, ResumeMap, PowerOff, Ask
<1> QED
  BY <1>1, <1>2, KnownAlways, PTL DEF Spec
-----------------------------------------------------------------------------
(* Where the army is while it is lent and nothing else asked: on its way to *)
(* the computer phase, in it, or over it with the marker about to run in    *)
(* this frame.                                                              *)
Lent ==
  ~asked /\ control = "computer" =>
    /\ marker /\ faction = "blue"
    /\ \/ at = "route"
       \/ at = "computer" /\ state \in {"computer", "failure"}
       \/ at = "berserk" /\ due /\ state \in {"complete", "failure"}

(* Nothing is lent when the cartridge is switched on.                       *)
LEMMA LentInit == Init => Lent
BY DEF Init, Lent

(* The steps of the map's procs keep a lent army where Lent says it is.     *)
LEMMA LentMap ==
  ASSUME TypeOK, Lent,
         \/ ChangePhase \/ StartPhase \/ PlayerActs \/ PlayerEnds \/ Hotkey
         \/ UnitSpringsTrap \/ UnitMoved \/ ActionUnsupported
         \/ ComputerEnds \/ BerserkEnds
  PROVE  Lent'
<1> USE DEF Lent, MapRuns
<1>1. CASE ChangePhase \/ PlayerActs \/ PlayerEnds \/ BerserkEnds
  BY <1>1 DEF ChangePhase, PlayerActs, PlayerEnds, BerserkEnds, Enter, autoplay
<1>2. CASE StartPhase
  BY <1>2 DEF StartPhase, Enter
<1>3. CASE UnitSpringsTrap \/ UnitMoved
  BY <1>3 DEF UnitSpringsTrap, UnitMoved, ComputerTurn, autoplay
<1>4. CASE ActionUnsupported
  BY <1>4 DEF ActionUnsupported, ComputerTurn, SetFailure
<1>5. CASE ComputerEnds
  <2>1. at' = "berserk" /\ due' = marker /\ faction' = faction /\ marker' = marker
    BY <1>5 DEF ComputerEnds, Enter
  <2>2. CASE faction = "blue"
    BY <1>5, <2>1, <2>2, CompleteTyped DEF ComputerEnds
  <2>3. CASE faction # "blue"
    BY <1>5, <2>1, <2>3 DEF ComputerEnds, autoplay
  <2> QED
    BY <2>2, <2>3
<1>6. CASE Hotkey
  BY <1>6 DEF Hotkey
<1> QED
  BY <1>1, <1>2, <1>3, <1>4, <1>5, <1>6

(* So do Charge, its marker, requests, resets and power failures.           *)
LEMMA LentOthers ==
  ASSUME TypeOK, Lent,
         \/ Charge \/ Monitor \/ EndMap \/ StartMap \/ ResumeMap \/ PowerOff
         \/ \E c \in Request : Ask(c)
  PROVE  Lent'
<1> USE DEF Lent
<1>1. CASE Charge
  BY <1>1 DEF Charge, Available
<1>2. CASE Monitor
  BY <1>2 DEF Monitor, TypeOK
<1>3. CASE EndMap \/ StartMap \/ ResumeMap \/ PowerOff
  BY <1>3, ResetTyped DEF EndMap, StartMap, ResumeMap, PowerOff
<1>4. CASE \E c \in Request : Ask(c)
  BY <1>4 DEF Ask
<1> QED
  BY <1>1, <1>2, <1>3, <1>4

(* As long as nothing else asks, Charge lends the army for the rest of one  *)
(* phase and the marker takes it back before the map's procs run again      *)
(* (ExpansionBluePhaseDelegate_Monitor).                                    *)
THEOREM LoanEnds == Spec => []LentForOnePhase
<1>1. TypeOK /\ Lent /\ [Next]_vars => Lent'
  <2> SUFFICES ASSUME TypeOK, Lent, [Next]_vars PROVE Lent'
    OBVIOUS
  <2>1. CASE UNCHANGED vars
    BY <2>1 DEF vars, Lent
  <2> QED
    BY <2>1, LentMap, LentOthers DEF Next
<1>2. Lent => LentForOnePhase
  BY DEF Lent, LentForOnePhase
<1> QED
  BY <1>1, <1>2, LentInit, TypeCorrect, PTL DEF Spec
=============================================================================
