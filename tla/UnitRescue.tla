---- MODULE UnitRescue ----
(***************************************************************************)
(* Units on the battle map and the units they carry: selecting, moving and *)
(* taking back a move (playerphase.c), rescue, drop, take and give         *)
(* (bmmenu.c, bmtarget.c, bmmind.c, bmunit.c), the deaths that make a      *)
(* carrier let go (bmmind.c, bmusailment.c), and a unit that changes sides *)
(* while it carries (bmunit.c).  The unit map is a variable of its own: the *)
(* code refreshes it at some points only and reads it at others.           *)
(*                                                                         *)
(* The unit of an action is named twice: by the pointer gActiveUnit and by  *)
(* the slot number gActionData.subjectIndex.  A unit that changes sides in  *)
(* its own action moves to another slot; the pointer follows it, the number *)
(* does not, and the code goes back to the number in ApplyUnitAction and    *)
(* AiRefreshMap.                                                            *)
(*                                                                         *)
(* A movement's length is left out (UnitPath has it): a unit goes to any   *)
(* free tile it can stand on, and how much movement a canto has left is a  *)
(* choice.  Fog, ballistae, phantoms and units loaded in mid-chapter are   *)
(* not here.                                                               *)
(***************************************************************************)
EXTENDS MapGrid, FiniteSets

CONSTANTS BlueSlots, GreenSlots, RedSlots, None,
          Person, NoOne,   \* who: pCharacterData, NoOne for NULL
          CanCarry,        \* pairs of persons: CanUnitRescue
          CanStand,        \* person -> tiles: CanUnitCrossTerrain
          CantoPersons,    \* classes with CA_CANTO
          TurnCoats,       \* persons some event changes the side of
          MaxStrays,       \* bound: slots lost track of, before sides are final
          Deployments      \* the [slot -> person] and [slot -> tile] to start from

Slot == BlueSlots \cup GreenSlots \cup RedSlots
Side == {"blue", "green", "red"}

ASSUME SlotAssumption ==
  /\ None \notin Slot /\ NoOne \notin Person
  /\ BlueSlots \cap GreenSlots = {} /\ GreenSlots \cap RedSlots = {}
  /\ BlueSlots \cap RedSlots = {}

ASSUME PersonAssumption ==
  /\ CanCarry \subseteq Person \X Person
  /\ CanStand \in [Person -> SUBSET Tiles]
  /\ CantoPersons \subseteq Person /\ TurnCoats \subseteq Person
  /\ MaxStrays \in Nat

ASSUME DeploymentAssumption ==
  \A d \in Deployments :
    /\ d.who \in [Slot -> Person \cup {NoOne}]
    /\ d.pos \in [Slot -> Tiles]
    /\ \A u, v \in Slot : d.who[u] # NoOne /\ d.who[v] # NoOne /\ u # v
                            => d.pos[u] # d.pos[v]

Factions == [u \in Slot |-> IF u \in BlueSlots THEN "blue"
                            ELSE IF u \in GreenSlots THEN "green" ELSE "red"]
Allied(u, v) == (u \in RedSlots) = (v \in RedSlots)
SlotsOf == [s \in Side |-> {u \in Slot : Factions[u] = s}]

(* US_HIDDEN, US_UNSELECTABLE, US_HAS_MOVED, US_DEAD, US_RESCUING, US_RESCUED *)
Flag == {"hidden", "unselectable", "moved", "dead", "rescuing", "rescued"}

VARIABLES who, pos, state, rescue,   \* the fields of struct Unit
          unitMap,                   \* gBmMapUnit
          active, origin, taken,     \* gActiveUnit, gActiveUnitMoveOrigin,
                                     \* gBmSt.taken_action & BM_TAKEN_ACTION_TAKE
          subject, goal, last,       \* of gActionData: subjectIndex; xMove and
                                     \* yMove; unitActionType, once chosen
          strays,                    \* history: slots an action lost track of
          orders,                    \* gAiState.units still to act
          side, stage                \* gPlaySt.faction, where the phase is

units == <<who, pos, state, rescue>>
acting == <<active, origin, taken, subject, goal, last>>
vars == <<units, unitMap, acting, strays, orders, side, stage>>

Nowhere == <<0, 0>>   \* the position of a cleared unit

Valid(u) == who[u] # NoOne
Alive(u) == Valid(u) /\ "dead" \notin state[u]
Shown(u) == Valid(u) /\ "hidden" \notin state[u]

RefreshedMapOfAll(w, p, s) ==   \* mutant: shows the hidden ones too
  [t \in Tiles |->
     LET here == {u \in Slot : w[u] # NoOne /\ p[u] = t}
     IN IF here = {} THEN None ELSE CHOOSE u \in here : TRUE]

(* RefreshUnitsOnBmMap over the fields as they will be: of two units that    *)
(* share a tile one is seen.                                                 *)
RefreshedMap(w, p, s) ==
  [t \in Tiles |->
     LET here == {u \in Slot : w[u] # NoOne /\ "hidden" \notin s[u] /\ p[u] = t}
     IN IF here = {} THEN None ELSE CHOOSE u \in here : TRUE]

RefreshEntityBmMaps == unitMap' = RefreshedMap(who', pos', state')

PlacedAlone(u, t) == [pos EXCEPT ![u] = t]   \* mutant: leaves the carried behind

(* UnitFinalizeMovement with the unit at t.                                  *)
Placed(u, t) ==
  IF "rescuing" \in state[u] THEN [pos EXCEPT ![u] = t, ![rescue[u]] = t]
                             ELSE [pos EXCEPT ![u] = t]

Lifted(s, u, c) == [s EXCEPT ![u] = @ \cup {"rescuing"},
                             ![c] = @ \cup {"rescued", "hidden"}]

(* UnitDrop's flags: the dropped one has had its turn if it is its side's.   *)
Dropped(s, u, c) ==
  [s EXCEPT ![u] = @ \ {"rescuing", "rescued"},
            ![c] = (@ \ {"rescuing", "rescued", "hidden"})
                   \cup (IF Factions[c] = side THEN {"unselectable"} ELSE {})]

Linked(u, c) == [rescue EXCEPT ![u] = c, ![c] = u]
Unlinked(u, c) == [rescue EXCEPT ![u] = None, ![c] = None]

Abs(n) == IF n < 0 THEN -n ELSE n
RectDistance(s, t) == Abs(s[1] - t[1]) + Abs(s[2] - t[2])
ScansAfter(s, t) == s[2] < t[2] \/ (s[2] = t[2] /\ s[1] < t[1])

DeathDropTilesUnmarked(u) ==   \* mutant: forgets where the active unit is
  LET map == [unitMap EXCEPT ![pos[u]] = None]
  IN {t \in CanStand[who[rescue[u]]] : map[t] = None}

(* UnitGetDeathDropLocation: the active unit's tile is taken even though the *)
(* unit map has it free, the dying unit's is free; among the nearest the one *)
(* scanned last.  With no tile at all the code leaves the location unset.    *)
DeathDropTiles(u) ==
  LET map == [unitMap EXCEPT ![pos[active]] = active, ![pos[u]] = None]
  IN {t \in CanStand[who[rescue[u]]] : map[t] = None}

IsDeathDropLocation(t, u) ==
  /\ t \in DeathDropTiles(u)
  /\ \A s \in DeathDropTiles(u) \ {t} :
       \/ RectDistance(t, pos[u]) < RectDistance(s, pos[u])
       \/ RectDistance(t, pos[u]) = RectDistance(s, pos[u]) /\ ScansAfter(t, s)

(* UnitKill: a slot that is not blue is free again, and its flags are those  *)
(* of nobody.                                                                *)
Killed(s, u) ==
  [s EXCEPT ![u] = IF u \in BlueSlots THEN @ \cup {"dead", "hidden"} ELSE {}]
Vacated(u) == IF u \in BlueSlots THEN who ELSE [who EXCEPT ![u] = NoOne]

DiesHolding(u) ==    \* mutant: nobody lets the carried unit down
  /\ who' = Vacated(u)
  /\ state' = Killed(state, u)
  /\ UNCHANGED <<rescue, pos, unitMap>>

(* DropRescueOnDeath and UnitKill, in whichever order: the drop ends with a  *)
(* refresh, the death alone does not.                                        *)
Dies(u) ==
  /\ who' = Vacated(u)
  /\ IF "rescuing" \in state[u]
     THEN LET c == rescue[u]
          IN /\ \E t \in Tiles : IsDeathDropLocation(t, u) /\ pos' = [pos EXCEPT ![c] = t]
             /\ state' = Killed(Dropped(state, u, c), u)
             /\ rescue' = Unlinked(u, c)
             /\ RefreshEntityBmMaps
     ELSE /\ state' = Killed(state, u)
          /\ UNCHANGED <<rescue, pos, unitMap>>

Init ==
  /\ \E d \in Deployments : who = d.who /\ pos = d.pos
  /\ state = [u \in Slot |-> {}]
  /\ rescue = [u \in Slot |-> None]
  /\ unitMap = RefreshedMap(who, pos, state)
  /\ active \in {u \in BlueSlots : Valid(u)}
  /\ origin = Nowhere
  /\ taken = FALSE
  /\ subject = None
  /\ goal = Nowhere
  /\ last = "none"
  /\ strays = {}
  /\ orders = {}
  /\ side = "blue"
  /\ stage = "idle"

(* UnitBeginCantoAction: off the unit map, hidden.  The next thing chosen is *)
(* where to go.                                                              *)
BeginCanto(u, s, p, map) ==
  /\ active' = u
  /\ origin' = p[u]
  /\ taken' = FALSE
  /\ last' = "none"
  /\ state' = [s EXCEPT ![u] = @ \cup {"hidden"}]
  /\ unitMap' = [map EXCEPT ![p[u]] = None]

(* UnitBeginAction: the one place that sets subjectIndex for the unit of an  *)
(* action.                                                                   *)
BeginAction(u, s, p, map) == BeginCanto(u, s, p, map) /\ subject' = u

(* PlayerPhase_MainIdle: A over a unit that PLAYER_SELECT_CONTROL allows.    *)
SelectUnit(t) ==
  /\ stage = "idle" /\ side = "blue"
  /\ unitMap[t] \in BlueSlots
  /\ "unselectable" \notin state[unitMap[t]]
  /\ BeginAction(unitMap[t], state, pos, unitMap)
  /\ stage' = "select"
  /\ UNCHANGED <<who, pos, rescue, goal, strays, orders, side>>

(* Nothing reads the action's own data between two actions.                  *)
ForgetAction ==
  /\ origin' = Nowhere /\ taken' = FALSE
  /\ subject' = None /\ goal' = Nowhere /\ last' = "none"

(* PlayerPhase_RangeDisplayIdle, B: not for a unit in its second move.       *)
CancelSelect ==
  /\ stage = "select"
  /\ "moved" \notin state[active]
  /\ state' = [state EXCEPT ![active] = @ \ {"hidden"}]
  /\ stage' = "idle"
  /\ ForgetAction
  /\ UNCHANGED <<who, pos, rescue, active, strays, orders, side>>
  /\ RefreshEntityBmMaps

(* ACT_MOVE and PlayerPhase_ApplyUnitMovement.                               *)
MoveTo(t) ==
  /\ stage = "select"
  /\ unitMap[t] = None
  /\ t \in CanStand[who[active]]
  /\ pos' = Placed(active, t)
  /\ goal' = t
  /\ stage' = "menu"
  /\ UNCHANGED <<who, state, rescue, unitMap, active, origin, taken, subject, last,
                 strays, orders, side>>

CanTakeBackAlways == TRUE      \* mutant

CanTakeBack == ~taken          \* PlayerPhase_PrepareAction, case 0

(* B in the menu: back to where the move began, a second selection of the    *)
(* same unit.                                                                *)
BackToMove ==
  /\ stage = "menu"
  /\ CanTakeBack
  /\ LET s == [state EXCEPT ![active] = @ \ {"hidden"}]
         p == Placed(active, origin)
     IN /\ pos' = p
        /\ BeginCanto(active, s, p, RefreshedMap(who, p, s))
  /\ subject' = IF "moved" \in state[active] THEN subject ELSE active
  /\ goal' = Nowhere
  /\ stage' = "select"
  /\ UNCHANGED <<who, rescue, strays, orders, side>>

(* Wait, or B once something was taken or given (UNIT_ACTION_FORCE_WAIT).    *)
(* ApplyUnitAction goes back to subjectIndex: a unit in its second move that *)
(* changed sides in its first action is left where it is.  In the other      *)
(* actions of the menu, which a second move does not offer, subjectIndex is  *)
(* the active unit.                                                          *)
Wait(kind) ==
  /\ stage = "menu"
  /\ kind = "forceWait" => taken
  /\ active' = subject
  /\ strays' = strays \cup ({active} \ {subject})
  /\ state' = IF kind = "wait" THEN [state EXCEPT ![subject] = @ \cup {"moved"}]
                               ELSE state
  /\ last' = kind
  /\ stage' = "act"
  /\ UNCHANGED <<who, pos, rescue, unitMap, origin, taken, subject, goal, orders, side>>

InMenu == stage = "menu" /\ "moved" \notin state[active]
Beside(u) == {unitMap[t] : t \in Neighbours(pos[u])} \ {None}

(* RescueUsability, TryAddUnitToRescueTargetList.                            *)
RescueTargets ==
  {v \in Beside(active) :
     /\ Allied(active, v)
     /\ state[v] \cap {"rescuing", "rescued"} = {}
     /\ <<who[active], who[v]>> \in CanCarry}

(* ActionRescue.                                                             *)
Rescue(v) ==
  /\ InMenu
  /\ "rescuing" \notin state[active]
  /\ v \in RescueTargets
  /\ state' = Lifted(state, active, v)
  /\ rescue' = Linked(active, v)
  /\ pos' = [pos EXCEPT ![v] = pos[active]]
  /\ last' = "rescue"
  /\ stage' = "act"
  /\ UNCHANGED <<who, unitMap, active, origin, taken, subject, goal, strays, orders, side>>

(* MakeDropTargetList.                                                       *)
DropTargets ==
  {t \in Neighbours(pos[active]) :
     unitMap[t] = None /\ t \in CanStand[who[rescue[active]]]}

(* ActionDrop, with the refresh of sProcScr_AfterDropAction.                 *)
Drop(t) ==
  /\ InMenu
  /\ "rescuing" \in state[active]
  /\ t \in DropTargets
  /\ LET c == rescue[active]
     IN /\ state' = Dropped(state, active, c)
        /\ rescue' = Unlinked(active, c)
        /\ pos' = [pos EXCEPT ![c] = t]
  /\ last' = "drop"
  /\ stage' = "act"
  /\ UNCHANGED <<who, active, origin, taken, subject, goal, strays, orders, side>>
  /\ RefreshEntityBmMaps

(* UnitGive: the menu stays open (UNIT_ACTION_TAKE, UNIT_ACTION_GIVE).       *)
HandOver(from, to) ==
  LET c == rescue[from]
  IN /\ state' = Lifted(Dropped(state, from, c), to, c)
     /\ rescue' = [rescue EXCEPT ![from] = None, ![to] = c, ![c] = to]
     /\ pos' = [pos EXCEPT ![c] = pos[to]]

Transfer(from, to) ==
  /\ InMenu
  /\ ~taken
  /\ Factions[from] = Factions[to]
  /\ "rescuing" \in state[from] /\ "rescuing" \notin state[to]
  /\ <<who[to], who[rescue[from]]>> \in CanCarry
  /\ HandOver(from, to)
  /\ taken' = TRUE
  /\ UNCHANGED <<who, unitMap, active, origin, subject, goal, last, strays,
                 orders, side, stage>>

Take(v) == v \in Beside(active) /\ Transfer(v, active)
Give(v) == v \in Beside(active) /\ Transfer(active, v)

(* ActionCombat and BATTLE_HandleCombatDeaths: any enemy on the map, and at  *)
(* most one of the two dies.                                                 *)
Combat(v, dead) ==
  /\ InMenu \/ stage = "computer"
  /\ \E t \in Tiles : unitMap[t] = v
  /\ ~Allied(active, v)
  /\ dead \in {None, active, v}
  /\ IF dead = None THEN UNCHANGED <<units, unitMap>> ELSE Dies(dead)
  /\ last' = "combat"
  /\ stage' = "act"
  /\ UNCHANGED <<active, origin, taken, subject, goal, strays, orders, side>>

(* HandlePostActionTraps: the tile the unit has ended on kills it.           *)
Trap ==
  /\ stage = "act"
  /\ Alive(active)
  /\ ~(who[active] \in CantoPersons /\ "moved" \notin state[active]
       /\ last \notin {"wait", "combat"})
  /\ Dies(active)
  /\ last' = "wait"
  /\ UNCHANGED <<active, origin, taken, subject, goal, strays, orders, side, stage>>

RelinkedOneWay(u, v) ==   \* mutant: the carried one still names the old slot
  [rescue EXCEPT ![u] = None, ![v] = rescue[u]]

Relinked(u, v) == IF rescue[u] = None THEN [rescue EXCEPT ![v] = None]
                  ELSE [rescue EXCEPT ![u] = None, ![v] = rescue[u], ![rescue[u]] = v]

(* UnitChangeFaction into a free slot of the other side, by an event after   *)
(* an action or between two phases.  A unit being carried is left out.  The  *)
(* slot of a unit that has died in this action, or has left it, is free as   *)
(* well, although the action still points to it.                             *)
ChangeFaction(u, v) ==
  /\ stage \in {"act", "turn"}
  /\ Cardinality(strays) < MaxStrays
  /\ Alive(u) /\ who[u] \in TurnCoats /\ "rescued" \notin state[u]
  /\ ~Valid(v) /\ Factions[u] # Factions[v]
  /\ active' = IF active = u THEN v ELSE active
  /\ who' = [who EXCEPT ![v] = who[u], ![u] = NoOne]
  /\ pos' = [pos EXCEPT ![v] = pos[u], ![u] = Nowhere]
  /\ state' = [state EXCEPT ![v] = state[u], ![u] = {}]
  /\ rescue' = Relinked(u, v)
  /\ strays' = IF u \in strays \/ (stage = "act" /\ v \in {active, subject})
                 THEN strays \cup {v} ELSE strays
  /\ UNCHANGED <<unitMap, origin, taken, subject, goal, last, orders, side, stage>>

(* MoveActiveUnit at the end of an action; the flags of a unit that has died *)
(* in it are not looked at again.                                            *)
Ended(u) ==
  IF Alive(u) THEN [state EXCEPT ![u] = (@ \ {"hidden"}) \cup {"unselectable"}]
              ELSE state

(* PlayerPhase_FinishAction without a canto.                                 *)
FinishAction ==
  /\ stage = "act" /\ side = "blue"
  /\ state' = Ended(active)
  /\ pos' = Placed(active, goal)
  /\ stage' = "idle"
  /\ ForgetAction
  /\ UNCHANGED <<who, rescue, active, strays, orders, side>>
  /\ RefreshEntityBmMaps

(* CpPerform_Cleanup, AiRefreshMap: the action ends for the unit in the slot *)
(* it began with.  A unit that has left that slot in between stays hidden,   *)
(* and its carried unit stays where it was.                                  *)
ComputerFinishes ==
  /\ stage = "act" /\ side # "blue"
  /\ active' = subject
  /\ strays' = strays \cup ({active} \ {subject})
  /\ state' = Ended(subject)
  /\ pos' = Placed(subject, goal)
  /\ stage' = "idle"
  /\ ForgetAction
  /\ UNCHANGED <<who, rescue, orders, side>>
  /\ RefreshEntityBmMaps

(* TryMakeCantoUnit: the unit goes on with what is left of its movement.     *)
FinishWithCanto ==
  /\ stage = "act" /\ side = "blue"
  /\ Alive(active)
  /\ who[active] \in CantoPersons
  /\ "moved" \notin state[active]
  /\ last \notin {"wait", "combat"}
  /\ LET s == [Ended(active) EXCEPT ![active] = (@ \ {"unselectable"}) \cup {"moved"}]
         p == Placed(active, goal)
     IN /\ pos' = p
        /\ BeginCanto(active, s, p, RefreshedMap(who, p, s))
  /\ goal' = Nowhere
  /\ stage' = "select"
  /\ UNCHANGED <<who, rescue, subject, strays, orders, side>>

(* CpDecide_Main and CpPerform_BeginUnitMovement: the list was made when the *)
(* phase began.  The carried unit of a computer unit follows at the end of   *)
(* the action only.                                                          *)
ComputerMoves(u, t) ==
  /\ stage = "idle" /\ side # "blue"
  /\ u \in orders
  /\ Alive(u) /\ "unselectable" \notin state[u]
  /\ unitMap[t] = None \/ t = pos[u]
  /\ t \in CanStand[who[u]]
  /\ BeginAction(u, state, pos, unitMap)
  /\ pos' = [pos EXCEPT ![u] = t]
  /\ goal' = t
  /\ orders' = orders \ {u}
  /\ stage' = "computer"
  /\ UNCHANGED <<who, rescue, strays, side>>

(* An action that changes nothing here; CpPerform_WaitAction puts the unit   *)
(* where it has gone.                                                        *)
ComputerWaits ==
  /\ stage = "computer"
  /\ stage' = "act"
  /\ UNCHANGED <<units, unitMap, acting, strays, orders, side>>

NextSide == [s \in Side |-> CASE s = "blue" -> "red" [] s = "red" -> "green"
                              [] s = "green" -> "blue"]

(* BmMain_ChangePhase: ClearActiveFactionGrayedStates, SwitchPhases.         *)
ChangePhase ==
  /\ stage = "idle"
  /\ side = "blue" \/ \A u \in orders : ~Alive(u) \/ "unselectable" \in state[u]
  /\ state' = [u \in Slot |-> IF Valid(u) /\ Factions[u] = side
                              THEN state[u] \ {"unselectable", "moved"} ELSE state[u]]
  /\ side' = NextSide[side]
  /\ orders' = {}
  /\ stage' = "turn"
  /\ UNCHANGED <<who, pos, rescue, unitMap, acting, strays>>

(* MakePoisonDamageTargetList and ApplyHazardHealing, a death; gActiveUnit   *)
(* is still the unit that acted last.                                        *)
Poison(u) ==
  /\ stage = "turn"
  /\ Alive(u) /\ Factions[u] = side /\ "rescued" \notin state[u]
  /\ Dies(u)
  /\ UNCHANGED <<acting, strays, orders, side, stage>>

(* The phase's proc begins with RefreshEntityBmMaps; a computer's list is    *)
(* BuildAiUnitList.                                                          *)
Listed == {u \in SlotsOf[side] :
             Valid(u) /\ state[u] \cap {"hidden", "unselectable", "dead", "rescued"} = {}}
BeginPhase ==
  /\ stage = "turn"
  /\ stage' = "idle"
  /\ orders' = IF side = "blue" THEN {} ELSE Listed
  /\ UNCHANGED <<units, acting, strays, side>>
  /\ RefreshEntityBmMaps

Next ==
  \/ \E t \in Tiles : SelectUnit(t) \/ MoveTo(t) \/ Drop(t)
  \/ CancelSelect \/ BackToMove \/ Wait("wait") \/ Wait("forceWait")
  \/ \E v \in Slot : Rescue(v) \/ Take(v) \/ Give(v)
  \/ \E v \in Slot, dead \in Slot \cup {None} : Combat(v, dead)
  \/ Trap
  \/ \E u, v \in Slot : ChangeFaction(u, v)
  \/ FinishAction \/ FinishWithCanto \/ ComputerFinishes
  \/ \E u \in Slot, t \in Tiles : ComputerMoves(u, t)
  \/ ComputerWaits \/ ChangePhase \/ BeginPhase
  \/ \E u \in Slot : Poison(u)

Spec == Init /\ [][Next]_vars

(* Types of the fields and of what a phase keeps between two steps.          *)
TypeOK ==
  /\ who \in [Slot -> Person \cup {NoOne}]
  /\ pos \in [Slot -> Tiles]
  /\ state \in [Slot -> SUBSET Flag]
  /\ rescue \in [Slot -> Slot \cup {None}]
  /\ unitMap \in [Tiles -> Slot \cup {None}]
  /\ active \in Slot /\ origin \in Tiles /\ taken \in BOOLEAN
  /\ subject \in Slot \cup {None} /\ goal \in Tiles
  /\ strays \subseteq Slot
  /\ last \in {"none", "wait", "forceWait", "rescue", "drop", "combat"}
  /\ orders \subseteq Slot
  /\ side \in Side
  /\ stage \in {"idle", "select", "menu", "computer", "act", "turn"}

(* A carrier and the unit it carries name each other, whatever was handed    *)
(* over, dropped, killed or turned on the way (bmunit.c:901-939, 1029).      *)
Carries(u, c) == /\ rescue[u] = c /\ rescue[c] = u
                 /\ "rescuing" \in state[u] /\ "rescued" \notin state[u]
                 /\ "rescued" \in state[c] /\ "rescuing" \notin state[c]
                 /\ "hidden" \in state[c]
                 /\ Alive(u) /\ Alive(c)
LinksAgree ==
  \A u \in Slot :
    \/ rescue[u] = None /\ state[u] \cap {"rescuing", "rescued"} = {}
    \/ rescue[u] \in Slot /\ (Carries(u, rescue[u]) \/ Carries(rescue[u], u))

(* The carried unit is where its carrier is; the carrier the computer is     *)
(* acting with catches up in MoveActiveUnit (bmunit.c:1035), unless it has   *)
(* changed sides in its action: AiRefreshMap moves the slot it has left      *)
(* (cp_perform.c:187).                                                       *)
CarriedWithCarrier ==
  \A u \in Slot :
    "rescuing" \in state[u]
      => \/ pos[rescue[u]] = pos[u]
         \/ u = active /\ side # "blue" /\ stage \in {"computer", "act"}
         \/ u \in strays

(* Two units that are not being carried never share a tile, the one that is  *)
(* acting off the unit map included (bmunit.c:1051-1092, playerphase.c:1157),*)
(* as long as no action has lost track of its unit: the tile of a unit left  *)
(* behind counts as free.                                                    *)
Placeable(u) == Alive(u) /\ "rescued" \notin state[u]
OneUnitPerTile ==
  strays = {} =>
    \A u, v \in Slot : Placeable(u) /\ Placeable(v) /\ u # v => pos[u] # pos[v]

(* A living unit off the map is with a living carrier, or is the one acting: *)
(* no sequence of rescues, deaths and cancelled moves loses one.  What does  *)
(* is a change of sides in the unit's own action: in the new slot it keeps   *)
(* the US_HIDDEN that UnitBeginAction set, and is left with it when the      *)
(* computer's action ends (cp_perform.c:187, bmunit.c:1011), or when it      *)
(* waits after a second move (bmmind.c:111).                                 *)
NobodyVanishes ==
  \A u \in Slot :
    Alive(u) /\ "hidden" \in state[u]
      => \/ \E c \in Slot : Alive(c) /\ rescue[c] = u /\ rescue[u] = c
         \/ u = active /\ stage \in {"select", "menu", "computer", "act"}
         \/ u \in strays

(* Wherever the player or the computer reads the unit map to choose, what it *)
(* shows is there and in view (RefreshEntityBmMaps against UnitKill,         *)
(* UnitRescue and UnitBeginAction, which leave the map as it is); it shows   *)
(* every unit in view as long as no action has lost track of its unit, after *)
(* which two can share a tile.                                               *)
UnitMapIsCurrent ==
  stage \in {"idle", "select", "menu", "computer"}
    => \A t \in Tiles, u \in Slot :
         /\ unitMap[t] = u => Shown(u) /\ pos[u] = t
         /\ Shown(u) /\ pos[u] = t /\ strays = {} => unitMap[t] = u

(* Once a unit has taken or given it stays where it is until its action ends *)
(* (PlayerPhase_PrepareAction, playerphase.c:836-842).                       *)
StaysAfterTransfer ==
  [][taken /\ stage = "menu" => pos'[active] = pos[active] /\ stage' # "select"]_vars
====
