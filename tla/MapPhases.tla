------------------------------ MODULE MapPhases ------------------------------
(***************************************************************************)
(* The phases of a battle map and who controls the blue army: the script of *)
(* gProc_BMapMain and BmMain_StartPhase in src/bm.c, the transient          *)
(* controller of src/expansion_autoplay.c, the Charge command of            *)
(* src/expansion_blue_phase_delegate.c, and the suspend points a resumed    *)
(* map starts from (src/bmio.c).                                            *)
(*                                                                         *)
(* A frame runs the map's procs (tree 2) and then the others (tree 3), the  *)
(* marker of a Charge, the menus and the events among them: `due' says that *)
(* the marker has still to run in this frame, and the map's procs wait for  *)
(* it.  The event engine ends a map in any phase.                           *)
(***************************************************************************)
EXTENDS Integers

CONSTANTS
  MaxUnits,   \* bound on the units an army lets the computer move
  Request,    \* controllers an extension may ask for, at any time
  Debug       \* is the hotkey of a debug build present?

ASSUME PhaseAssumption ==
  /\ MaxUnits \in Nat
  /\ Request \subseteq {"player", "computer"}
  /\ Debug \in BOOLEAN

VARIABLES
  at,       \* what the map is doing: the child gProc_BMapMain waits for
  faction,  \* gPlaySt.faction
  left,     \* units the computer phase has still to move
  control,  \* sExpansionBlueControl
  state,    \* gExpansionAutoplayTelemetry.state
  failure,  \* gExpansionAutoplayTelemetry.failure # NONE
  marker,   \* does sProcScr_ExpansionBluePhaseDelegate run?
  due,      \* must it still run in this frame?
  saved,    \* the newest suspended chapter, and history: where it was written
  asked     \* history: since power on, did an extension or the hotkey ask?

vars == <<at, faction, left, control, state, failure, marker, due, saved, asked>>

autoplay == <<control, state, failure>>

Army  == {"blue", "red", "green"}
Phase == {"player", "computer", "berserk"}
Point == {"idle", "action", "cp", "bsk", "change"}     \* SUSPEND_POINT_*
NoSuspend == [point |-> "none"]

(* Every variable keeps the type its declaration gives it. *)
TypeOK ==
  /\ at \in {"none", "change", "route"} \cup Phase
  /\ faction \in Army
  /\ left \in 0 .. MaxUnits
  /\ control \in {"player", "computer"}
  /\ state \in {"reset", "player", "computer", "complete", "failure"}
  /\ failure \in BOOLEAN
  /\ marker \in BOOLEAN /\ due \in BOOLEAN
  /\ saved \in {NoSuspend} \cup
       [point : Point, faction : Army, in : {"change"} \cup Phase]
  /\ asked \in BOOLEAN

Init ==
  /\ at = "none" /\ faction = "green" /\ left = 0
  /\ control = "player" /\ state = "reset" /\ failure = FALSE
  /\ marker = FALSE /\ due = FALSE
  /\ saved = NoSuspend /\ asked = FALSE
-----------------------------------------------------------------------------
(* The controller. *)

Reset ==                \* ResetAutoplayState
  /\ control' = "player" /\ state' = "reset" /\ failure' = FALSE

SetFailure ==
  /\ state' = "failure" /\ failure' = TRUE
  /\ UNCHANGED control

IsBlueComputerPhaseForgetsFailure ==    \* mutant: a failure ends the phase
  faction = "blue" /\ control = "computer" /\ state = "computer"

IsBlueComputerPhase ==
  faction = "blue" /\ control = "computer" /\ state \in {"computer", "failure"}

SetBlueControl(c) ==    \* accepted, or rejected while the computer moves
  \/ /\ ~IsBlueComputerPhase
     /\ control' = c
     /\ failure' = FALSE
     /\ state' = IF state = "failure" THEN "reset" ELSE state
  \/ /\ IsBlueComputerPhase /\ c # control
     /\ SetFailure
  \/ /\ IsBlueComputerPhase /\ c = control
     /\ UNCHANGED autoplay

(* Mutant: the phase that is over is still reported as running. *)
OnBlueComputerPhaseCompleteUnreported ==
  IF state # "failure" /\ ~IsBlueComputerPhase THEN SetFailure ELSE UNCHANGED autoplay

OnBlueComputerPhaseComplete ==
  \/ /\ state = "failure"
     /\ UNCHANGED autoplay
  \/ /\ state # "failure" /\ ~IsBlueComputerPhase
     /\ SetFailure
  \/ /\ state # "failure" /\ IsBlueComputerPhase
     /\ state' = "complete"
     /\ UNCHANGED <<control, failure>>
-----------------------------------------------------------------------------
(* Steps of the map's procs, once in a frame. *)

MapRuns == at # "none" /\ ~due /\ due' = marker

Suspended(point, where) ==
  saved' = [point |-> point, faction |-> faction, in |-> where]

FactionAfter == [blue |-> "red", red |-> "green", green |-> "blue"]   \* SwitchPhases

ChangePhase ==          \* BmMain_ChangePhase, BmMain_SuspendBeforePhase
  /\ MapRuns /\ at = "change"
  /\ faction' = FactionAfter[faction]
  /\ saved' = [point |-> "change", faction |-> faction', in |-> "change"]
  /\ at' = "route"
  /\ UNCHANGED <<asked, left, marker>> /\ UNCHANGED autoplay

Enter(phase) ==         \* the computer lists the units it will move
  /\ at' = phase
  /\ left' \in IF phase = "player" THEN {0} ELSE 0 .. MaxUnits

StartPhase ==           \* BmMain_StartPhase
  /\ MapRuns /\ at = "route"
  /\ \/ /\ faction = "blue" /\ control = "computer"
        /\ Enter("computer")
        /\ state' = IF state = "failure" THEN state ELSE "computer"
     \/ /\ faction = "blue" /\ control = "player"
        /\ Enter("player")
        /\ state' = IF state = "failure" THEN state ELSE "player"
     \/ /\ faction # "blue"
        /\ Enter("computer")
        /\ UNCHANGED state
  /\ UNCHANGED <<asked, faction, control, failure, marker, saved>>

PlayerActs ==           \* gProcScr_PlayerPhase saves before and during actions
  /\ MapRuns /\ at = "player"
  /\ \E point \in {"idle", "action"} : Suspended(point, "player")
  /\ UNCHANGED <<asked, at, faction, left, marker>> /\ UNCHANGED autoplay

PlayerEnds ==
  /\ MapRuns /\ at = "player"
  /\ Enter("berserk")
  /\ UNCHANGED <<asked, faction, marker, saved>> /\ UNCHANGED autoplay

Hotkey ==               \* ExpansionAutoplay_TryActivateScenario
  /\ Debug
  /\ MapRuns /\ at = "player"
  /\ SetBlueControl("computer")
  /\ Enter("berserk")
  /\ asked' = TRUE
  /\ UNCHANGED <<faction, marker, saved>>

(* The computer moves a unit: HandlePostActionTraps saves in mid-action if  *)
(* the unit sprang a trap, CpDecide_Suspend after the action.  An action    *)
(* blue units do not support is dropped.                                    *)
ComputerTurnUnbounded ==    \* mutant: the end of the list goes unnoticed
  MapRuns /\ at \in {"computer", "berserk"}

ComputerTurn == MapRuns /\ at \in {"computer", "berserk"} /\ left > 0

UnitSpringsTrap ==
  /\ ComputerTurn
  /\ Suspended("action", at)
  /\ UNCHANGED <<asked, at, faction, left, marker>> /\ UNCHANGED autoplay

UnitMoved ==            \* CpDecide_Suspend
  /\ ComputerTurn
  /\ left' = left - 1
  /\ IF IsBlueComputerPhase THEN UNCHANGED saved
     ELSE Suspended(IF faction = "blue" THEN "bsk" ELSE "cp", at)
  /\ UNCHANGED <<asked, at, faction, marker>> /\ UNCHANGED autoplay

ActionUnsupported ==    \* CpDecide_CompleteDecision
  /\ ComputerTurn
  /\ IsBlueComputerPhase
  /\ left' = left - 1
  /\ SetFailure
  /\ UNCHANGED <<asked, at, faction, marker, saved>>

ComputerEnds ==         \* AiPhaseCleanup
  /\ MapRuns /\ at = "computer" /\ left = 0
  /\ IF faction = "blue" THEN OnBlueComputerPhaseComplete ELSE UNCHANGED autoplay
  /\ Enter("berserk")
  /\ UNCHANGED <<asked, faction, marker, saved>>

BerserkEnds ==          \* gProcScr_BerserkCpPhase ends, BmMain_UpdateTraps
  /\ MapRuns /\ at = "berserk" /\ left = 0
  /\ at' = "change"
  /\ UNCHANGED <<asked, faction, left, marker, saved>> /\ UNCHANGED autoplay
-----------------------------------------------------------------------------
(* Steps of the others. *)

Available ==            \* ExpansionBluePhaseDelegate_GetAvailability
  /\ faction = "blue"
  /\ control = "player" /\ state = "player" /\ ~failure
  /\ at = "player"
  /\ ~marker

Charge ==               \* ExpansionBluePhaseDelegate_Start
  /\ Available
  /\ MaxUnits > 0       \* some unit is eligible
  /\ marker' = TRUE
  /\ SetBlueControl("computer")
  /\ at' = "route"      \* the player phase ends, the phase starts again
  /\ UNCHANGED <<asked, faction, left, due, saved>>

(* Mutant: the computer phase may still run. *)
MonitorRestoresEarly ==
  /\ due /\ due' = FALSE
  /\ IF state \in {"complete", "failure"}
       THEN control' = "player" /\ marker' = FALSE
       ELSE UNCHANGED <<control, marker>>
  /\ UNCHANGED <<asked, at, faction, left, state, failure, saved>>

Monitor ==              \* ExpansionBluePhaseDelegate_Monitor
  /\ due /\ due' = FALSE
  /\ IF /\ state \in {"complete", "failure"}
        /\ control = "player" \/ ~(faction = "blue" /\ at = "computer")
       THEN control' = "player" /\ marker' = FALSE
       ELSE UNCHANGED <<control, marker>>
  /\ UNCHANGED <<asked, at, faction, left, state, failure, saved>>

Ask(c) ==               \* an extension calls ExpansionAutoplay_SetBlueControl
  /\ at # "none"
  /\ SetBlueControl(c)
  /\ asked' = TRUE
  /\ UNCHANGED <<at, faction, left, marker, due, saved>>

EndMap ==               \* EndBMapMain, by an event or when the game is over
  /\ at # "none"
  /\ at' = "none" /\ left' = 0
  /\ Reset
  /\ UNCHANGED <<asked, faction, marker, due, saved>>

StartMap ==             \* StartBattleMap: the first phase change makes it blue
  /\ at = "none" /\ ~due
  /\ at' = "change" /\ faction' = "green"
  /\ Reset
  /\ UNCHANGED <<asked, left, marker, due, saved>>

(* GameCtrl_StartResumedGame: the MapMain_ResumeFrom... functions send      *)
(* gProc_BMapMain to the label for the suspend point.                       *)
ResumeMap ==
  /\ at = "none" /\ ~due
  /\ saved # NoSuspend
  /\ faction' = saved.faction
  /\ \/ saved.point \in {"idle", "cp", "change"} /\ at' = "route" /\ left' = 0
     \/ saved.point = "action" /\ Enter("player")
     \/ saved.point = "bsk" /\ Enter("berserk")
  /\ Reset
  /\ UNCHANGED <<asked, marker, due, saved>>

PowerOff ==             \* or a soft reset; main calls Proc_Init
  /\ at' = "none" /\ left' = 0
  /\ Reset
  /\ marker' = FALSE /\ due' = FALSE
  /\ asked' = FALSE
  /\ UNCHANGED <<faction, saved>>

Next ==
  \/ ChangePhase \/ StartPhase \/ PlayerActs \/ PlayerEnds \/ Hotkey
  \/ UnitSpringsTrap \/ UnitMoved \/ ActionUnsupported
  \/ ComputerEnds \/ BerserkEnds
  \/ Charge \/ Monitor \/ EndMap \/ StartMap \/ ResumeMap \/ PowerOff
  \/ \E c \in Request : Ask(c)

(* OnMain runs every frame, so the map and the marker move on; a unit       *)
(* springs a trap at most once, then its move is over.                      *)
Fairness ==
  /\ WF_vars(StartPhase) /\ WF_vars(ComputerEnds) /\ WF_vars(Monitor)
  /\ SF_vars(UnitMoved \/ ActionUnsupported)

Spec     == Init /\ [][Next]_vars
FairSpec == Spec /\ Fairness
-----------------------------------------------------------------------------
(* As long as nothing else asks for a controller, Charge lends the blue army *)
(* to the computer for the rest of one phase: whatever fails in it, control *)
(* is back before the next frame of the map, and a later phase never finds  *)
(* the computer in control.                                                 *)
LentForOnePhase ==
  ~asked /\ control = "computer" =>
    /\ marker /\ faction = "blue"
    /\ at \in {"route", "computer"} \/ (at = "berserk" /\ due)

(* Neither the marker nor an extension takes the army from a computer phase *)
(* that is running.                                                         *)
RunningKeepsControl ==
  [][at = "computer" /\ at' = "computer" /\ faction = "blue" => control' = control]_vars

(* A suspended chapter cannot represent a computer-controlled blue phase:   *)
(* none is written after a unit moved in one, after a failure either.       *)
NoSuspendInBluePhase ==
  saved # NoSuspend /\ saved.in = "computer" /\ saved.faction = "blue" =>
    saved.point = "action"

(* Control lent to the computer comes back, unless a request of another     *)
(* kept it.                                                                 *)
ControlReturns == control = "computer" ~> (control = "player" \/ asked)

(* The marker lives while it has control to give back: a player phase never *)
(* finds a marker that has none, and that keeps Charge unavailable.         *)
MarkerOwnsControl == at = "player" /\ marker => control = "computer"

(* Only the blue army has a player phase. *)
PlayerIsBlue == at = "player" => faction = "blue"
=============================================================================
