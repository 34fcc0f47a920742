---- MODULE UnitRescueProofs ----
(***************************************************************************)
(* LinksAgree for any board, army and set of persons.  It is not inductive *)
(* by itself: a rescue looks its target up on the unit map, so the map must *)
(* show units in view only while a choice is made, and a listed or acting  *)
(* unit, or the slot the action will be ended for, must not be a carried   *)
(* one.  What a change of sides in a unit's own action breaks is said with *)
(* the history variable strays, the slots that an action lost track of.    *)
(***************************************************************************)
EXTENDS UnitRescue, TLAPS

Choosing == {"idle", "select", "menu", "computer"}

DeadAreHidden == \A u \in Slot : "dead" \in state[u] => "hidden" \in state[u]
MapInView ==
  stage \in Choosing
    => \A t \in Tiles : unitMap[t] # None
                           => Shown(unitMap[t]) /\ pos[unitMap[t]] = t
ActorIsFree ==
  /\ stage \in {"select", "menu", "computer", "act"} => "rescued" \notin state[active]
  /\ stage \in {"select", "menu", "computer"}
       => Alive(active) /\ "hidden" \in state[active]
SubjectIsFree ==
  /\ stage \in {"select", "menu", "computer", "act"}
       => subject \in Slot /\ "rescued" \notin state[subject]
  /\ stage = "computer" => subject = active
  /\ stage \in {"select", "menu"} /\ "moved" \notin state[active] => subject = active
ListedAreFree == \A u \in orders : "rescued" \notin state[u]
PlayerHasNoList == /\ side = "blue" => orders = {}
                   /\ stage \in {"select", "menu"} => side = "blue"

IInv == /\ TypeOK /\ LinksAgree /\ DeadAreHidden /\ MapInView
        /\ ActorIsFree /\ ListedAreFree /\ PlayerHasNoList

(* The slots an action lost track of are never forgotten.                    *)
LEMMA StraysGrow == ASSUME [Next]_vars PROVE strays \subseteq strays'
BY DEF Next, vars, SelectUnit, MoveTo, Drop, CancelSelect, BackToMove, Wait, Rescue,
       Take, Give, Transfer, Combat, Trap, ChangeFaction, FinishAction, FinishWithCanto,
       ComputerFinishes, ComputerMoves, ComputerWaits, ChangePhase, BeginPhase, Poison

(* Every unit keeps its partner and its part in it, as when a unit only      *)
(* moves, hides or has its turn.                                             *)
SameLinks ==
  /\ UNCHANGED rescue
  /\ \A u \in Slot :
       /\ who'[u] = who[u]
       /\ state'[u] \cap {"rescuing", "rescued", "dead"}
            = state[u] \cap {"rescuing", "rescued", "dead"}
       /\ "rescued" \in state[u] => "hidden" \in state'[u]

(* A step that leaves every link as it is keeps LinksAgree.                  *)
LEMMA LinksStay == ASSUME TypeOK, LinksAgree, SameLinks PROVE LinksAgree'
<1> SUFFICES ASSUME NEW u \in Slot
             PROVE \/ rescue'[u] = None /\ state'[u] \cap {"rescuing", "rescued"} = {}
                   \/ rescue'[u] \in Slot /\ (Carries(u, rescue[u])' \/ Carries(rescue[u], u)')
  BY DEF LinksAgree, SameLinks
<1>1. \A v \in Slot : /\ "rescuing" \in state'[v] <=> "rescuing" \in state[v]
                      /\ "rescued" \in state'[v] <=> "rescued" \in state[v]
                      /\ "dead" \in state'[v] <=> "dead" \in state[v]
  BY DEF SameLinks
<1>2. \A v, c \in Slot : Carries(v, c) => Carries(v, c)'
  BY <1>1 DEF SameLinks, Carries, Alive, Valid
<1> QED BY <1>1, <1>2 DEF LinksAgree, SameLinks

(* What the unit map shows after a refresh is in view.                       *)
LEMMA RefreshShows ==
  ASSUME NEW w, NEW p, NEW s, NEW t \in Tiles
  PROVE  LET u == RefreshedMap(w, p, s)[t]
         IN u # None => u \in Slot /\ w[u] # NoOne /\ "hidden" \notin s[u] /\ p[u] = t
<1> DEFINE Here == {u \in Slot : w[u] # NoOne /\ "hidden" \notin s[u] /\ p[u] = t}
<1>1. RefreshedMap(w, p, s)[t] = IF Here = {} THEN None ELSE CHOOSE u \in Here : TRUE
  BY DEF RefreshedMap
<1>2. CASE Here = {} BY <1>1, <1>2
<1>3. CASE Here # {}
  <2>1. (CHOOSE u \in Here : TRUE) \in Here BY <1>3
  <2> QED BY <1>1, <1>3, <2>1
<1> QED BY <1>2, <1>3

(* A refreshed map shows slots or nothing.                                  *)
LEMMA RefreshTypes ==
  ASSUME NEW w, NEW p, NEW s
  PROVE  RefreshedMap(w, p, s) \in [Tiles -> Slot \cup {None}]
<1>1. \A t \in Tiles : RefreshedMap(w, p, s)[t] \in Slot \cup {None}
  BY RefreshShows
<1> QED BY <1>1 DEF RefreshedMap

(* A death breaks the dying unit's link on both sides, and no other.         *)
LEMMA DeathUnlinks ==
  ASSUME TypeOK, LinksAgree, DeadAreHidden,
         NEW u \in Slot, Alive(u), "rescued" \notin state[u], Dies(u)
  PROVE  /\ LinksAgree' /\ DeadAreHidden'
         /\ who' \in [Slot -> Person \cup {NoOne}]
         /\ pos' \in [Slot -> Tiles]
         /\ state' \in [Slot -> SUBSET Flag]
         /\ rescue' \in [Slot -> Slot \cup {None}]
         /\ unitMap' \in [Tiles -> Slot \cup {None}]
         /\ \A v \in Slot : "rescued" \notin state[v] => "rescued" \notin state'[v]
<1>0. None \notin Slot BY SlotAssumption
<1>1. /\ who' \in [Slot -> Person \cup {NoOne}]
      /\ \A v \in Slot \ {u} : who'[v] = who[v]
  BY DEF Dies, Vacated, TypeOK
<1>2. CASE "rescuing" \in state[u]
  <2> DEFINE c == rescue[u]
  <2>1. c \in Slot /\ Carries(u, c) /\ c # u
    BY <1>0, <1>2 DEF LinksAgree, Carries
  <2>2. /\ state' = Killed(Dropped(state, u, c), u)
        /\ rescue' = [rescue EXCEPT ![u] = None, ![c] = None]
        /\ \E t \in Tiles : pos' = [pos EXCEPT ![c] = t]
        /\ unitMap' = RefreshedMap(who', pos', state')
    BY <1>2 DEF Dies, Unlinked, RefreshEntityBmMaps
  <2>3. Dropped(state, u, c) \in [Slot -> SUBSET Flag]
    BY <2>1 DEF Dropped, TypeOK, Flag
  <2>4. /\ state' \in [Slot -> SUBSET Flag]
        /\ \A v \in Slot \ {u, c} : state'[v] = state[v]
        /\ {"rescuing", "rescued"} \cap state'[u] = {}
        /\ {"rescuing", "rescued"} \cap state'[c] = {}
        /\ "dead" \in state'[u] => "hidden" \in state'[u]
        /\ "dead" \notin state'[c]
    <3>1. "dead" \notin state[c] BY <2>1 DEF Carries, Alive
    <3> QED BY <2>1, <2>2, <2>3, <3>1 DEF Killed, Dropped, TypeOK, Flag
  <2>5. LinksAgree'
    <3> SUFFICES ASSUME NEW v \in Slot
                 PROVE \/ rescue'[v] = None /\ state'[v] \cap {"rescuing", "rescued"} = {}
                       \/ /\ rescue'[v] \in Slot
                          /\ Carries(v, rescue[v])' \/ Carries(rescue[v], v)'
      BY DEF LinksAgree
    <3>1. CASE v \in {u, c} BY <3>1, <2>1, <2>2, <2>4 DEF TypeOK
    <3>2. CASE v \notin {u, c} /\ rescue[v] = None
      BY <3>2, <1>0, <2>2, <2>4 DEF TypeOK, LinksAgree
    <3>3. CASE v \notin {u, c} /\ rescue[v] # None
      <4>1. /\ rescue[v] \in Slot /\ rescue[rescue[v]] = v
            /\ Carries(v, rescue[v]) \/ Carries(rescue[v], v)
        BY <3>3 DEF LinksAgree, Carries
      <4>2. rescue[v] \notin {u, c} BY <3>3, <4>1, <2>1 DEF Carries
      <4>3. rescue'[v] = rescue[v] /\ rescue'[rescue[v]] = v
        BY <3>3, <4>1, <4>2, <2>2 DEF TypeOK
      <4>4. /\ state'[v] = state[v] /\ state'[rescue[v]] = state[rescue[v]]
            /\ who'[v] = who[v] /\ who'[rescue[v]] = who[rescue[v]]
        BY <3>3, <4>1, <4>2, <2>4, <1>1
      <4> QED BY <4>1, <4>3, <4>4 DEF Carries, Alive, Valid
    <3> QED BY <3>1, <3>2, <3>3
  <2>6. DeadAreHidden' BY <2>4, <2>1 DEF DeadAreHidden
  <2>7. unitMap' \in [Tiles -> Slot \cup {None}] BY <2>2, RefreshTypes
  <2>8. pos' \in [Slot -> Tiles] /\ rescue' \in [Slot -> Slot \cup {None}]
    BY <2>2 DEF TypeOK
  <2> QED BY <1>1, <2>4, <2>5, <2>6, <2>7, <2>8
<1>3. CASE "rescuing" \notin state[u]
  <2>1. /\ state' = Killed(state, u)
        /\ UNCHANGED <<rescue, pos, unitMap>>
    BY <1>3 DEF Dies
  <2>2. rescue[u] = None BY <1>3 DEF LinksAgree, Carries
  <2>3. /\ state' \in [Slot -> SUBSET Flag]
        /\ \A v \in Slot \ {u} : state'[v] = state[v]
        /\ {"rescuing", "rescued"} \cap state'[u] = {}
        /\ "dead" \in state'[u] => "hidden" \in state'[u]
    BY <2>1, <1>3 DEF Killed, TypeOK, Flag
  <2>4. LinksAgree'
    <3> SUFFICES ASSUME NEW v \in Slot
                 PROVE \/ rescue'[v] = None /\ state'[v] \cap {"rescuing", "rescued"} = {}
                       \/ /\ rescue'[v] \in Slot
                          /\ Carries(v, rescue[v])' \/ Carries(rescue[v], v)'
      BY DEF LinksAgree
    <3>1. CASE rescue[v] = None
      BY <3>1, <1>0, <2>1, <2>3 DEF LinksAgree
    <3>2. CASE rescue[v] # None
      <4>1. /\ rescue[v] \in Slot /\ rescue[rescue[v]] = v
            /\ Carries(v, rescue[v]) \/ Carries(rescue[v], v)
        BY <3>2 DEF LinksAgree, Carries
      <4>2. v # u /\ rescue[v] # u BY <3>2, <4>1, <2>2, <1>0
      <4>3. /\ state'[v] = state[v] /\ state'[rescue[v]] = state[rescue[v]]
            /\ who'[v] = who[v] /\ who'[rescue[v]] = who[rescue[v]]
        BY <4>1, <4>2, <2>3, <1>1
      <4> QED BY <4>1, <4>3, <2>1 DEF Carries, Alive, Valid
    <3> QED BY <3>1, <3>2
  <2> QED BY <1>1, <2>1, <2>3, <2>4 DEF DeadAreHidden, TypeOK
<1> QED BY <1>2, <1>3

(* UnitFinalizeMovement moves the unit and the one it carries.               *)
LEMMA PlacedMoves ==
  ASSUME TypeOK, LinksAgree, NEW u \in Slot, "rescued" \notin state[u], NEW t \in Tiles
  PROVE  /\ Placed(u, t) \in [Slot -> Tiles]
         /\ Placed(u, t)[u] = t
         /\ \A v \in Slot : v # u /\ "rescued" \notin state[v] => Placed(u, t)[v] = pos[v]
<1>1. "rescuing" \in state[u] => rescue[u] \in Slot /\ "rescued" \in state[rescue[u]]
  BY DEF LinksAgree, Carries
<1>2. "rescuing" \in state[u] => rescue[u] # u
  BY <1>1
<1> QED BY <1>1, <1>2 DEF Placed, TypeOK

(* After RefreshEntityBmMaps the map is in view, whatever the stage.         *)
LEMMA RefreshInView ==
  ASSUME unitMap' = RefreshedMap(who', pos', state') PROVE MapInView'
<1> SUFFICES ASSUME NEW t \in Tiles, unitMap'[t] # None
             PROVE Shown(unitMap[t])' /\ pos'[unitMap'[t]] = t
  BY DEF MapInView
<1>1. LET u == RefreshedMap(who', pos', state')[t]
      IN u # None => u \in Slot /\ who'[u] # NoOne /\ "hidden" \notin state'[u] /\ pos'[u] = t
  BY RefreshShows
<1> QED BY <1>1 DEF Shown, Valid

(* A cleared unit lies on a tile, the corner of the map.                    *)
LEMMA NowhereIsATile == Nowhere \in Tiles
<1>1. 0 \in 0 .. Width - 1 /\ 0 \in 0 .. Height - 1 BY SizeAssumption
<1> QED BY <1>1 DEF Nowhere, Tiles

(* One lemma for each action, in the order of Next.                          *)
LEMMA SelectKeeps ==
  ASSUME IInv, NEW t \in Tiles, SelectUnit(t) PROVE IInv'
<1> DEFINE u == unitMap[t]
<1>0. None \notin Slot BY SlotAssumption
<1>1. u \in Slot /\ Shown(u) /\ pos[u] = t
  BY <1>0 DEF SelectUnit, IInv, MapInView, Choosing, Slot
<1>2. /\ state' = [state EXCEPT ![u] = @ \cup {"hidden"}]
      /\ unitMap' = [unitMap EXCEPT ![t] = None]
      /\ UNCHANGED <<who, pos, rescue, goal, strays, orders, side>>
      /\ active' = u /\ subject' = u /\ origin' = t /\ taken' = FALSE /\ last' = "none"
      /\ stage' = "select" /\ side = "blue"
  BY <1>1 DEF SelectUnit, BeginAction, BeginCanto
<1>3. TypeOK' BY <1>1, <1>2 DEF IInv, TypeOK, Flag
<1>4. SameLinks
  <2> SUFFICES ASSUME NEW v \in Slot
               PROVE /\ state'[v] \cap {"rescuing", "rescued", "dead"}
                           = state[v] \cap {"rescuing", "rescued", "dead"}
                     /\ "rescued" \in state[v] => "hidden" \in state'[v]
    BY <1>2 DEF SameLinks
  <2> QED BY <1>1, <1>2 DEF IInv, TypeOK, LinksAgree, Carries
<1>5. LinksAgree' BY <1>4, LinksStay DEF IInv
<1>6. DeadAreHidden' BY <1>1, <1>2 DEF IInv, DeadAreHidden, TypeOK
<1>7. MapInView'
  BY <1>0, <1>1, <1>2 DEF IInv, MapInView, Shown, Valid, Choosing, SelectUnit, TypeOK
<1>8. ActorIsFree'
  BY <1>1, <1>2 DEF IInv, ActorIsFree, Shown, Alive, Valid, DeadAreHidden, LinksAgree, Carries, TypeOK
<1>9. ListedAreFree' /\ PlayerHasNoList'
  BY <1>1, <1>2 DEF IInv, ListedAreFree, PlayerHasNoList, TypeOK
<1> QED BY <1>3, <1>5, <1>6, <1>7, <1>8, <1>9 DEF IInv

(* B before the unit has moved: it comes back into view.                    *)
LEMMA CancelKeeps == ASSUME IInv, CancelSelect PROVE IInv'
<1>0. None \notin Slot BY SlotAssumption
<1>1. active \in Slot /\ Alive(active) /\ "rescued" \notin state[active]
  BY DEF CancelSelect, IInv, ActorIsFree, TypeOK
<1>2. /\ state' = [state EXCEPT ![active] = @ \ {"hidden"}]
      /\ unitMap' = RefreshedMap(who', pos', state')
      /\ UNCHANGED <<who, pos, rescue, active, strays, orders, side>>
      /\ origin' = Nowhere /\ taken' = FALSE /\ last' = "none"
      /\ subject' = None /\ goal' = Nowhere /\ stage' = "idle"
  BY DEF CancelSelect, ForgetAction, RefreshEntityBmMaps
<1>3. TypeOK'
  <2>1. unitMap' \in [Tiles -> Slot \cup {None}] BY <1>2, RefreshTypes
  <2> QED BY <1>1, <1>2, <2>1, NowhereIsATile DEF IInv, TypeOK, Flag
<1>4. SameLinks
  <2> SUFFICES ASSUME NEW v \in Slot
               PROVE /\ state'[v] \cap {"rescuing", "rescued", "dead"}
                           = state[v] \cap {"rescuing", "rescued", "dead"}
                     /\ "rescued" \in state[v] => "hidden" \in state'[v]
    BY <1>2 DEF SameLinks
  <2> QED BY <1>1, <1>2 DEF IInv, TypeOK, LinksAgree, Carries
<1>5. LinksAgree' BY <1>4, LinksStay DEF IInv
<1>6. DeadAreHidden' BY <1>1, <1>2 DEF IInv, DeadAreHidden, TypeOK, Alive
<1>7. MapInView' BY <1>2, RefreshInView
<1>8. ActorIsFree' BY <1>2 DEF ActorIsFree
<1>9. ListedAreFree' /\ PlayerHasNoList'
  BY <1>1, <1>2 DEF IInv, ListedAreFree, PlayerHasNoList, TypeOK
<1> QED BY <1>3, <1>5, <1>6, <1>7, <1>8, <1>9 DEF IInv

(* The unit walks and takes along whom it carries.                          *)
LEMMA MoveKeeps == ASSUME IInv, NEW t \in Tiles, MoveTo(t) PROVE IInv'
<1>1. active \in Slot /\ Alive(active) /\ "rescued" \notin state[active]
      /\ "hidden" \in state[active]
  BY DEF MoveTo, IInv, ActorIsFree, TypeOK
<1>2. /\ pos' = Placed(active, t) /\ goal' = t /\ stage' = "menu" /\ stage = "select"
      /\ UNCHANGED <<who, state, rescue, unitMap, active, origin, taken, subject, last,
                     strays, orders, side>>
  BY DEF MoveTo
<1>3. TypeOK' BY <1>1, <1>2, PlacedMoves DEF IInv, TypeOK
<1>4. SameLinks BY <1>2 DEF SameLinks, IInv, LinksAgree, Carries
<1>5. LinksAgree' BY <1>4, LinksStay DEF IInv
<1>6. MapInView'
  <2> SUFFICES ASSUME NEW s \in Tiles, unitMap[s] # None
               PROVE Shown(unitMap[s])' /\ pos'[unitMap[s]] = s
    BY <1>2 DEF MapInView
  <2>1. unitMap[s] \in Slot /\ Shown(unitMap[s]) /\ pos[unitMap[s]] = s
    BY <1>2 DEF IInv, MapInView, Choosing, TypeOK
  <2>2. unitMap[s] # active /\ "rescued" \notin state[unitMap[s]]
    BY <1>1, <2>1 DEF Shown, IInv, LinksAgree, Carries
  <2> QED BY <1>1, <1>2, <2>1, <2>2, PlacedMoves DEF IInv, Shown, Valid
<1>7. DeadAreHidden' /\ ActorIsFree' /\ ListedAreFree' /\ PlayerHasNoList'
  BY <1>1, <1>2 DEF IInv, DeadAreHidden, ActorIsFree, ListedAreFree, PlayerHasNoList,
                    Alive, Valid
<1> QED BY <1>3, <1>5, <1>6, <1>7 DEF IInv

(* The map refreshed and then cleared at the tile of the unit that begins.   *)
LEMMA BegunInView ==
  ASSUME NEW u \in Slot, NEW s \in [Slot -> SUBSET Flag], NEW p \in [Slot -> Tiles],
         pos' = p, who' = who, BeginCanto(u, s, p, RefreshedMap(who, p, s))
  PROVE  /\ MapInView'
         /\ unitMap' \in [Tiles -> Slot \cup {None}]
<1>1. /\ state' = [s EXCEPT ![u] = @ \cup {"hidden"}]
      /\ unitMap' = [RefreshedMap(who, p, s) EXCEPT ![p[u]] = None]
  BY DEF BeginCanto
<1>2. RefreshedMap(who, p, s) \in [Tiles -> Slot \cup {None}] BY RefreshTypes
<1>3. ASSUME NEW t \in Tiles, unitMap'[t] # None
      PROVE Shown(unitMap[t])' /\ pos'[unitMap'[t]] = t
  <2> DEFINE v == RefreshedMap(who, p, s)[t]
  <2>1. t # p[u] /\ unitMap'[t] = v /\ v # None BY <1>1, <1>2, <1>3
  <2>2. v \in Slot /\ who[v] # NoOne /\ "hidden" \notin s[v] /\ p[v] = t
    BY <2>1, RefreshShows
  <2>3. v # u BY <2>1, <2>2
  <2> HIDE DEF v
  <2>4. state'[v] = s[v] BY <2>2, <2>3, <1>1
  <2> QED BY <2>1, <2>2, <2>4 DEF Shown, Valid
<1> QED BY <1>1, <1>2, <1>3 DEF MapInView

(* B after the unit has moved: it is put back and begins again.             *)
LEMMA BackKeeps == ASSUME IInv, BackToMove PROVE IInv'
<1> DEFINE s == [state EXCEPT ![active] = @ \ {"hidden"}]
           p == Placed(active, origin)
<1>1. /\ active \in Slot /\ Alive(active) /\ "rescued" \notin state[active]
      /\ "hidden" \in state[active] /\ origin \in Tiles
  BY DEF BackToMove, IInv, ActorIsFree, TypeOK
<1>2. /\ pos' = p /\ stage' = "select" /\ stage = "menu"
      /\ UNCHANGED <<who, rescue, strays, orders, side>>
      /\ subject' \in {subject, active} /\ goal' = Nowhere
      /\ BeginCanto(active, s, p, RefreshedMap(who, p, s))
  BY DEF BackToMove
<1>3. p \in [Slot -> Tiles] /\ p[active] = origin BY <1>1, PlacedMoves DEF IInv
<1>4. s \in [Slot -> SUBSET Flag] /\ [s EXCEPT ![active] = @ \cup {"hidden"}] = state
  <2>1. state \in [Slot -> SUBSET Flag] BY DEF IInv, TypeOK
  <2>2. (state[active] \ {"hidden"}) \cup {"hidden"} = state[active] BY <1>1
  <2>3. s \in [Slot -> SUBSET Flag] /\ s[active] = state[active] \ {"hidden"}
    BY <1>1, <2>1
  <2> DEFINE back == [s EXCEPT ![active] = s[active] \cup {"hidden"}]
  <2>4. back \in [Slot -> SUBSET Flag]
    <3>1. s[active] \cup {"hidden"} \in SUBSET Flag BY <2>2, <2>3, <2>1, <1>1
    <3> QED BY <2>3, <3>1
  <2>5. \A v \in Slot : back[v] = state[v] BY <1>1, <2>1, <2>2, <2>3
  <2>6. back = state BY <2>1, <2>4, <2>5
  <2> QED BY <2>3, <2>6
<1>5. MapInView' /\ unitMap' \in [Tiles -> Slot \cup {None}]
  BY <1>1, <1>2, <1>3, <1>4, BegunInView
<1>6. /\ UNCHANGED <<state, active>>
      /\ origin' = origin /\ taken' = FALSE /\ last' = "none"
  BY <1>2, <1>3, <1>4 DEF BeginCanto
<1>7. TypeOK' BY <1>1, <1>2, <1>3, <1>5, <1>6, NowhereIsATile DEF IInv, TypeOK
<1>8. SameLinks BY <1>2, <1>6 DEF SameLinks, IInv, LinksAgree, Carries
<1>9. LinksAgree' BY <1>8, LinksStay DEF IInv
<1>10. DeadAreHidden' /\ ActorIsFree' /\ ListedAreFree' /\ PlayerHasNoList'
  BY <1>1, <1>2, <1>6 DEF IInv, DeadAreHidden, ActorIsFree, ListedAreFree,
                          PlayerHasNoList, Alive, Valid
<1> QED BY <1>5, <1>7, <1>9, <1>10 DEF IInv

(* Waiting marks a unit at most as moved; the action goes on for its slot.   *)
LEMMA WaitKeeps ==
  ASSUME IInv, SubjectIsFree, Wait("wait") \/ Wait("forceWait") PROVE IInv'
<1>1. /\ UNCHANGED <<who, pos, rescue, unitMap, origin, taken, subject, goal, orders, side>>
      /\ state' \in {state, [state EXCEPT ![subject] = @ \cup {"moved"}]}
      /\ last' \in {"wait", "forceWait"} /\ stage' = "act" /\ stage = "menu"
      /\ subject \in Slot /\ "rescued" \notin state[subject]
      /\ active' = subject /\ strays' = strays \cup ({active} \ {subject})
  BY DEF Wait, SubjectIsFree
<1>2. /\ state' \in [Slot -> SUBSET Flag]
      /\ \A v \in Slot : state'[v] \cap {"rescuing", "rescued", "dead", "hidden"}
                           = state[v] \cap {"rescuing", "rescued", "dead", "hidden"}
  BY <1>1 DEF IInv, TypeOK, Flag
<1>3. TypeOK' BY <1>1, <1>2 DEF IInv, TypeOK
<1>4. SameLinks BY <1>1, <1>2 DEF SameLinks, IInv, LinksAgree, Carries
<1>5. LinksAgree' BY <1>4, LinksStay DEF IInv
<1>6. MapInView' BY <1>1 DEF MapInView, Choosing
<1>7. DeadAreHidden' BY <1>2 DEF IInv, DeadAreHidden
<1>8. ActorIsFree' BY <1>1, <1>2 DEF ActorIsFree
<1>9. ListedAreFree' /\ PlayerHasNoList'
  BY <1>1, <1>2 DEF IInv, ListedAreFree, PlayerHasNoList, TypeOK
<1> QED BY <1>3, <1>5, <1>6, <1>7, <1>8, <1>9 DEF IInv

(* A computer's action that changes nothing.                                 *)
LEMMA ComputerWaitsKeeps == ASSUME IInv, ComputerWaits PROVE IInv'
<1>1. /\ UNCHANGED <<who, pos, state, rescue, unitMap, active, origin, taken, subject,
                     goal, last, strays, orders, side>>
      /\ stage' = "act" /\ stage = "computer"
  BY DEF ComputerWaits, units, acting
<1>2. TypeOK' BY <1>1 DEF IInv, TypeOK
<1>3. SameLinks BY <1>1 DEF SameLinks, IInv, LinksAgree, Carries
<1>4. LinksAgree' BY <1>3, LinksStay DEF IInv
<1>5. MapInView' BY <1>1 DEF MapInView, Choosing
<1>6. ActorIsFree' BY <1>1 DEF IInv, ActorIsFree
<1>7. DeadAreHidden' /\ ListedAreFree' /\ PlayerHasNoList'
  BY <1>1 DEF IInv, DeadAreHidden, ListedAreFree, PlayerHasNoList
<1> QED BY <1>2, <1>4, <1>5, <1>6, <1>7 DEF IInv

(* A rescue links two units neither of which was in a link.                 *)
LEMMA RescueKeeps == ASSUME IInv, NEW v \in Slot, Rescue(v) PROVE IInv'
<1>0. None \notin Slot BY SlotAssumption
<1>1. /\ active \in Slot /\ Alive(active) /\ "rescued" \notin state[active]
      /\ "hidden" \in state[active] /\ "rescuing" \notin state[active]
      /\ side = "blue" /\ stage = "menu"
  BY DEF Rescue, InMenu, IInv, ActorIsFree, PlayerHasNoList, TypeOK
<1>2. PICK t \in Tiles : unitMap[t] = v
  BY DEF Rescue, RescueTargets, Beside, Neighbours
<1>3. /\ Shown(v) /\ v # active /\ Alive(v)
      /\ state[v] \cap {"rescuing", "rescued"} = {}
  BY <1>0, <1>1, <1>2 DEF Rescue, RescueTargets, IInv, MapInView, Choosing, Shown,
                          Alive, DeadAreHidden
<1>4. /\ rescue' = [rescue EXCEPT ![active] = v, ![v] = active]
      /\ state' = [state EXCEPT ![active] = @ \cup {"rescuing"},
                                ![v] = @ \cup {"rescued", "hidden"}]
      /\ pos' = [pos EXCEPT ![v] = pos[active]]
      /\ last' = "rescue" /\ stage' = "act"
      /\ UNCHANGED <<who, unitMap, active, origin, taken, subject, goal, strays, orders, side>>
  BY DEF Rescue, Lifted, Linked
<1>5. TypeOK' BY <1>1, <1>4 DEF IInv, TypeOK, Flag
<1>6. rescue[active] = None /\ rescue[v] = None
  BY <1>1, <1>3 DEF IInv, LinksAgree, Carries
<1>7. LinksAgree'
  <2>1. Carries(active, v)'
    BY <1>1, <1>3, <1>4 DEF Carries, IInv, TypeOK, Alive, Valid
  <2>2. ASSUME NEW u \in Slot, u \notin {active, v}
        PROVE \/ rescue'[u] = None /\ state'[u] \cap {"rescuing", "rescued"} = {}
              \/ /\ rescue'[u] \in Slot
                 /\ Carries(u, rescue[u])' \/ Carries(rescue[u], u)'
    <3>1. rescue[u] \notin {active, v}
      BY <2>2, <1>6, <1>0, <1>1 DEF IInv, LinksAgree, Carries
    <3> QED BY <2>2, <3>1, <1>4 DEF IInv, TypeOK, LinksAgree, Carries, Alive, Valid
  <2>3. rescue'[active] = v /\ rescue'[v] = active
    BY <1>1, <1>3, <1>4 DEF IInv, TypeOK
  <2> QED BY <2>1, <2>2, <2>3, <1>1, <1>4 DEF LinksAgree
<1>8. /\ DeadAreHidden' /\ MapInView' /\ ActorIsFree' /\ ListedAreFree'
      /\ PlayerHasNoList'
  BY <1>1, <1>3, <1>4 DEF IInv, DeadAreHidden, MapInView, Choosing, ActorIsFree,
                          ListedAreFree, PlayerHasNoList, TypeOK
<1> QED BY <1>5, <1>7, <1>8 DEF IInv

(* Links other than those of the units in S are the same links afterwards.   *)
LEMMA OtherLinks ==
  ASSUME TypeOK, LinksAgree, NEW S, NEW u \in Slot, u \notin S,
         \A v \in S : v \in Slot /\ (rescue[v] = None \/ rescue[v] \in S),
         \A v \in Slot \ S : /\ rescue'[v] = rescue[v] /\ who'[v] = who[v]
                            /\ state'[v] = state[v]
  PROVE  \/ rescue'[u] = None /\ state'[u] \cap {"rescuing", "rescued"} = {}
         \/ rescue'[u] \in Slot /\ (Carries(u, rescue[u])' \/ Carries(rescue[u], u)')
<1>0. None \notin Slot BY SlotAssumption
<1>1. CASE rescue[u] = None BY <1>0, <1>1 DEF LinksAgree
<1>2. CASE rescue[u] # None
  <2>1. /\ rescue[u] \in Slot /\ rescue[rescue[u]] = u
        /\ Carries(u, rescue[u]) \/ Carries(rescue[u], u)
    BY <1>2 DEF LinksAgree, Carries
  <2>2. rescue[u] \notin S BY <2>1, <1>0
  <2>3. /\ state'[u] = state[u] /\ state'[rescue[u]] = state[rescue[u]]
        /\ who'[u] = who[u] /\ who'[rescue[u]] = who[rescue[u]]
        /\ rescue'[u] = rescue[u] /\ rescue'[rescue[u]] = u
    BY <2>1, <2>2
  <2> QED BY <2>1, <2>3 DEF Carries, Alive, Valid
<1> QED BY <1>1, <1>2

(* A drop takes a link apart on both sides.                                 *)
LEMMA DropKeeps == ASSUME IInv, NEW t \in Tiles, Drop(t) PROVE IInv'
<1> DEFINE c == rescue[active]
<1>0. None \notin Slot BY SlotAssumption
<1>1. /\ active \in Slot /\ Alive(active) /\ "rescuing" \in state[active]
      /\ side = "blue" /\ stage = "menu"
  BY DEF Drop, InMenu, IInv, ActorIsFree, PlayerHasNoList, TypeOK
<1>2. c \in Slot /\ Carries(active, c) /\ c # active /\ rescue[c] = active
  BY <1>0, <1>1 DEF IInv, LinksAgree, Carries
<1>3. /\ rescue' = [rescue EXCEPT ![active] = None, ![c] = None]
      /\ state' = Dropped(state, active, c)
      /\ pos' = [pos EXCEPT ![c] = t]
      /\ last' = "drop" /\ stage' = "act"
      /\ unitMap' = RefreshedMap(who', pos', state')
      /\ UNCHANGED <<who, active, origin, taken, subject, goal, strays, orders, side>>
  BY DEF Drop, Unlinked, RefreshEntityBmMaps
<1>4. /\ state' \in [Slot -> SUBSET Flag]
      /\ \A v \in Slot \ {active, c} : state'[v] = state[v]
      /\ {"rescuing", "rescued"} \cap state'[active] = {}
      /\ {"rescuing", "rescued"} \cap state'[c] = {}
      /\ "dead" \notin state'[active] /\ "dead" \notin state'[c]
  BY <1>1, <1>2, <1>3 DEF Dropped, IInv, TypeOK, Flag, Carries, Alive
<1>5. TypeOK'
  <2>1. unitMap' \in [Tiles -> Slot \cup {None}] BY <1>3, RefreshTypes
  <2> QED BY <1>1, <1>2, <1>3, <1>4, <2>1 DEF IInv, TypeOK
<1>6. LinksAgree'
  <2>1. \A v \in Slot \ {active, c} : /\ rescue'[v] = rescue[v] /\ who'[v] = who[v]
                                      /\ state'[v] = state[v]
    BY <1>3, <1>4 DEF IInv, TypeOK
  <2>2. \A v \in Slot \ {active, c} :
          \/ rescue'[v] = None /\ state'[v] \cap {"rescuing", "rescued"} = {}
          \/ rescue'[v] \in Slot /\ (Carries(v, rescue[v])' \/ Carries(rescue[v], v)')
    <3>1. \A v \in {active, c} : v \in Slot /\ (rescue[v] = None \/ rescue[v] \in {active, c})
      BY <1>1, <1>2
    <3>2. TypeOK /\ LinksAgree BY DEF IInv
    <3> QED BY <2>1, <3>1, <3>2, OtherLinks
  <2>3. rescue'[active] = None /\ rescue'[c] = None BY <1>1, <1>2, <1>3 DEF IInv, TypeOK
  <2> QED BY <2>2, <2>3, <1>4 DEF LinksAgree
<1>7. MapInView' BY <1>3, RefreshInView
<1>8. DeadAreHidden' /\ ActorIsFree' /\ ListedAreFree' /\ PlayerHasNoList'
  BY <1>1, <1>2, <1>3, <1>4 DEF IInv, DeadAreHidden, ActorIsFree, ListedAreFree,
                                PlayerHasNoList
<1> QED BY <1>5, <1>6, <1>7, <1>8 DEF IInv

(* Take and give move a link from one carrier to another.                   *)
LEMMA TransferKeeps ==
  ASSUME IInv, NEW from \in Slot, NEW to \in Slot, Transfer(from, to),
         active \in {from, to},
         \E t \in Tiles : unitMap[t] \in {from, to} /\ unitMap[t] # active
  PROVE  IInv'
<1>0. None \notin Slot BY SlotAssumption
<1>1. /\ active \in Slot /\ Alive(active) /\ "rescued" \notin state[active]
      /\ "hidden" \in state[active]
      /\ side = "blue" /\ stage = "menu"
      /\ "rescuing" \in state[from] /\ "rescuing" \notin state[to] /\ from # to
  BY DEF Transfer, InMenu, IInv, ActorIsFree, PlayerHasNoList, TypeOK
<1>2. PICK c \in Slot : /\ c = rescue[from] /\ Carries(from, c) /\ c # from
                        /\ rescue[c] = from /\ "rescued" \notin state[from]
  BY <1>0, <1>1 DEF IInv, LinksAgree, Carries
<1>3. /\ Alive(to) /\ "rescued" \notin state[to] /\ rescue[to] = None /\ to # c
  <2>1. CASE to = active
    BY <2>1, <1>0, <1>1, <1>2 DEF IInv, LinksAgree, Carries
  <2>2. CASE to # active
    <3>1. Shown(to)
      BY <2>2, <1>0, <1>1 DEF IInv, MapInView, Choosing
    <3> QED BY <3>1, <1>0, <1>1, <1>2 DEF Shown, Alive, IInv, DeadAreHidden, LinksAgree, Carries
  <2> QED BY <2>1, <2>2
<1>4. /\ rescue' = [rescue EXCEPT ![from] = None, ![to] = c, ![c] = to]
      /\ state' = Lifted(Dropped(state, from, c), to, c)
      /\ pos' = [pos EXCEPT ![c] = pos[to]]
      /\ taken' = TRUE
      /\ UNCHANGED <<who, unitMap, active, origin, subject, goal, last, strays,
                     orders, side, stage>>
  BY <1>2 DEF Transfer, HandOver
<1>5. /\ state' \in [Slot -> SUBSET Flag]
      /\ \A v \in Slot \ {from, to, c} : state'[v] = state[v]
      /\ state'[from] = state[from] \ {"rescuing", "rescued"}
      /\ state'[to] = state[to] \cup {"rescuing"}
      /\ "rescued" \in state'[c] /\ "hidden" \in state'[c]
      /\ "rescuing" \notin state'[c] /\ "dead" \notin state'[c]
  <2> DEFINE d == Dropped(state, from, c)
  <2>1. /\ d \in [Slot -> SUBSET Flag]
        /\ \A v \in Slot \ {from, c} : d[v] = state[v]
        /\ d[from] = state[from] \ {"rescuing", "rescued"}
        /\ "rescuing" \notin d[c] /\ "dead" \notin d[c]
    BY <1>1, <1>2 DEF Dropped, IInv, TypeOK, Flag, Carries, Alive
  <2>2. state' = Lifted(d, to, c) BY <1>4
  <2> HIDE DEF d
  <2> QED BY <1>1, <1>2, <1>3, <2>1, <2>2 DEF Lifted, Flag
<1>6. TypeOK' BY <1>1, <1>2, <1>4, <1>5 DEF IInv, TypeOK
<1>7. LinksAgree'
  <2>1. \A v \in Slot \ {from, to, c} : /\ rescue'[v] = rescue[v] /\ who'[v] = who[v]
                                        /\ state'[v] = state[v]
    BY <1>4, <1>5 DEF IInv, TypeOK
  <2>2. \A v \in Slot \ {from, to, c} :
          \/ rescue'[v] = None /\ state'[v] \cap {"rescuing", "rescued"} = {}
          \/ rescue'[v] \in Slot /\ (Carries(v, rescue[v])' \/ Carries(rescue[v], v)')
    <3>1. \A v \in {from, to, c} : v \in Slot /\ (rescue[v] = None \/ rescue[v] \in {from, to, c})
      BY <1>2, <1>3
    <3>2. TypeOK /\ LinksAgree BY DEF IInv
    <3> QED BY <2>1, <3>1, <3>2, OtherLinks
  <2>3. rescue'[from] = None /\ rescue'[to] = c /\ rescue'[c] = to
    BY <1>1, <1>2, <1>3, <1>4 DEF IInv, TypeOK
  <2>4. Carries(to, c)'
    <3>1. /\ "rescuing" \in state'[to] /\ "rescued" \notin state'[to]
          /\ "dead" \notin state'[to]
      BY <1>3, <1>5 DEF Alive
    <3>2. who'[to] # NoOne /\ who'[c] # NoOne
      BY <1>2, <1>3, <1>4 DEF Carries, Alive, Valid
    <3> QED BY <2>3, <3>1, <3>2, <1>5 DEF Carries, Alive, Valid
  <2>5. state'[from] \cap {"rescuing", "rescued"} = {} BY <1>5
  <2> SUFFICES ASSUME NEW v \in Slot
               PROVE \/ rescue'[v] = None /\ state'[v] \cap {"rescuing", "rescued"} = {}
                     \/ /\ rescue'[v] \in Slot
                        /\ Carries(v, rescue[v])' \/ Carries(rescue[v], v)'
    BY DEF LinksAgree
  <2>6. CASE v = from BY <2>6, <2>3, <2>5
  <2>7. CASE v = to BY <2>7, <2>3, <2>4, <1>2
  <2>8. CASE v = c BY <2>8, <2>3, <2>4
  <2> QED BY <2>2, <2>6, <2>7, <2>8
<1>8. MapInView'
  <2> SUFFICES ASSUME NEW s \in Tiles, unitMap[s] # None
               PROVE Shown(unitMap[s])' /\ pos'[unitMap[s]] = s
    BY <1>4 DEF MapInView
  <2>1. unitMap[s] \in Slot /\ Shown(unitMap[s]) /\ pos[unitMap[s]] = s
    BY <1>1 DEF IInv, MapInView, Choosing, TypeOK
  <2>2. unitMap[s] # c BY <1>2, <2>1 DEF Shown, Carries
  <2> QED BY <1>4, <1>5, <2>1, <2>2 DEF IInv, TypeOK, Shown, Valid
<1>9. DeadAreHidden' /\ ActorIsFree' /\ ListedAreFree' /\ PlayerHasNoList'
  BY <1>1, <1>2, <1>3, <1>4, <1>5
  DEF IInv, DeadAreHidden, ActorIsFree, ListedAreFree, PlayerHasNoList, Alive, Valid
<1> QED BY <1>6, <1>7, <1>8, <1>9 DEF IInv

(* One of the two units of a combat may die.                                *)
LEMMA CombatKeeps ==
  ASSUME IInv, NEW v \in Slot, NEW dead \in Slot \cup {None}, Combat(v, dead)
  PROVE  IInv'
<1>0. None \notin Slot BY SlotAssumption
<1>1. /\ active \in Slot /\ Alive(active) /\ "rescued" \notin state[active]
      /\ stage \in {"menu", "computer"}
  BY DEF Combat, InMenu, IInv, ActorIsFree, TypeOK
<1>2. Alive(v) /\ "rescued" \notin state[v]
  <2>1. Shown(v) BY <1>0, <1>1 DEF Combat, IInv, MapInView, Choosing
  <2> QED BY <2>1 DEF Shown, Alive, IInv, DeadAreHidden, LinksAgree, Carries
<1>3. /\ last' = "combat" /\ stage' = "act" /\ dead \in {None, active, v}
      /\ UNCHANGED <<active, origin, taken, subject, goal, strays, orders, side>>
  BY DEF Combat
<1>4. CASE dead = None
  <2>1. UNCHANGED <<who, pos, state, rescue, unitMap>> BY <1>4 DEF Combat, units
  <2>2. TypeOK' BY <1>3, <2>1 DEF IInv, TypeOK
  <2>3. SameLinks BY <2>1 DEF SameLinks, IInv, LinksAgree, Carries
  <2>4. LinksAgree' BY <2>3, LinksStay DEF IInv
  <2>5. MapInView' /\ ActorIsFree' BY <1>1, <1>3, <2>1 DEF MapInView, Choosing, ActorIsFree
  <2>6. DeadAreHidden' /\ ListedAreFree' /\ PlayerHasNoList'
    BY <1>3, <2>1 DEF IInv, DeadAreHidden, ListedAreFree, PlayerHasNoList
  <2> QED BY <2>2, <2>4, <2>5, <2>6 DEF IInv
<1>5. CASE dead # None
  <2>1. dead \in Slot /\ Alive(dead) /\ "rescued" \notin state[dead] /\ Dies(dead)
    BY <1>1, <1>2, <1>3, <1>5 DEF Combat
  <2>2. /\ LinksAgree' /\ DeadAreHidden'
        /\ who' \in [Slot -> Person \cup {NoOne}]
        /\ pos' \in [Slot -> Tiles]
        /\ state' \in [Slot -> SUBSET Flag]
        /\ rescue' \in [Slot -> Slot \cup {None}]
        /\ unitMap' \in [Tiles -> Slot \cup {None}]
        /\ \A u \in Slot : "rescued" \notin state[u] => "rescued" \notin state'[u]
    BY <2>1, DeathUnlinks DEF IInv
  <2>3. TypeOK' BY <2>2, <1>3 DEF IInv, TypeOK
  <2>4. MapInView' /\ ActorIsFree'
    BY <1>1, <1>3, <2>2 DEF MapInView, Choosing, ActorIsFree
  <2>5. ListedAreFree' /\ PlayerHasNoList'
    BY <1>3, <2>2 DEF IInv, ListedAreFree, PlayerHasNoList, TypeOK
  <2> QED BY <2>2, <2>3, <2>4, <2>5 DEF IInv
<1> QED BY <1>4, <1>5

(* The acting unit may die of the tile it ends on.                          *)
LEMMA TrapKeeps == ASSUME IInv, Trap PROVE IInv'
<1>1. /\ active \in Slot /\ Alive(active) /\ "rescued" \notin state[active]
      /\ stage = "act" /\ Dies(active) /\ last' = "wait"
      /\ UNCHANGED <<active, origin, taken, subject, goal, strays, orders, side, stage>>
  BY DEF Trap, IInv, ActorIsFree, TypeOK
<1>2. /\ LinksAgree' /\ DeadAreHidden'
      /\ who' \in [Slot -> Person \cup {NoOne}]
      /\ pos' \in [Slot -> Tiles]
      /\ state' \in [Slot -> SUBSET Flag]
      /\ rescue' \in [Slot -> Slot \cup {None}]
      /\ unitMap' \in [Tiles -> Slot \cup {None}]
      /\ \A u \in Slot : "rescued" \notin state[u] => "rescued" \notin state'[u]
  BY <1>1, DeathUnlinks DEF IInv
<1>3. TypeOK' BY <1>1, <1>2 DEF IInv, TypeOK
<1>4. MapInView' /\ ActorIsFree' BY <1>1, <1>2 DEF MapInView, Choosing, ActorIsFree
<1>5. ListedAreFree' /\ PlayerHasNoList'
  BY <1>1, <1>2 DEF IInv, ListedAreFree, PlayerHasNoList, TypeOK
<1> QED BY <1>2, <1>3, <1>4, <1>5 DEF IInv

(* A unit that no other carries may die between two phases.                 *)
LEMMA PoisonKeeps == ASSUME IInv, NEW u \in Slot, Poison(u) PROVE IInv'
<1>1. /\ Alive(u) /\ "rescued" \notin state[u] /\ stage = "turn" /\ Dies(u)
      /\ UNCHANGED <<active, origin, taken, subject, goal, last, strays, orders, side,
                     stage>>
  BY DEF Poison, acting
<1>2. /\ LinksAgree' /\ DeadAreHidden'
      /\ who' \in [Slot -> Person \cup {NoOne}]
      /\ pos' \in [Slot -> Tiles]
      /\ state' \in [Slot -> SUBSET Flag]
      /\ rescue' \in [Slot -> Slot \cup {None}]
      /\ unitMap' \in [Tiles -> Slot \cup {None}]
      /\ \A v \in Slot : "rescued" \notin state[v] => "rescued" \notin state'[v]
  BY <1>1, DeathUnlinks DEF IInv
<1>3. TypeOK' BY <1>1, <1>2 DEF IInv, TypeOK
<1>4. MapInView' /\ ActorIsFree' BY <1>1 DEF MapInView, Choosing, ActorIsFree
<1>5. ListedAreFree' /\ PlayerHasNoList'
  BY <1>1, <1>2 DEF IInv, ListedAreFree, PlayerHasNoList, TypeOK
<1> QED BY <1>2, <1>3, <1>4, <1>5 DEF IInv

(* A carrier that changes its slot is named by its new one.                 *)
LEMMA ChangeFactionKeeps ==
  ASSUME IInv, NEW u \in Slot, NEW v \in Slot, ChangeFaction(u, v) PROVE IInv'
<1>0. None \notin Slot BY SlotAssumption
<1>1. /\ Alive(u) /\ "rescued" \notin state[u] /\ ~Valid(v) /\ u # v
      /\ stage \in {"act", "turn"}
      /\ active' = (IF active = u THEN v ELSE active)
      /\ who' = [who EXCEPT ![v] = who[u], ![u] = NoOne]
      /\ pos' = [pos EXCEPT ![v] = pos[u], ![u] = Nowhere]
      /\ state' = [state EXCEPT ![v] = state[u], ![u] = {}]
      /\ rescue' = Relinked(u, v)
      /\ strays' \in {strays, strays \cup {v}}
      /\ UNCHANGED <<unitMap, origin, taken, subject, goal, last, orders, side, stage>>
  BY DEF ChangeFaction, Alive
<1>2. rescue[v] = None /\ state[v] \cap {"rescuing", "rescued"} = {}
  BY <1>0, <1>1 DEF IInv, LinksAgree, Carries, Alive
<1>3. /\ state' \in [Slot -> SUBSET Flag] /\ state'[u] = {} /\ state'[v] = state[u]
      /\ \A x \in Slot \ {u, v} : state'[x] = state[x]
      /\ who' \in [Slot -> Person \cup {NoOne}] /\ who'[v] = who[u]
      /\ \A x \in Slot \ {u, v} : who'[x] = who[x]
  BY <1>1 DEF IInv, TypeOK
<1>4. rescue' \in [Slot -> Slot \cup {None}] /\ LinksAgree'
  <2>1. CASE rescue[u] = None
    <3>1. rescue' = [rescue EXCEPT ![v] = None] BY <2>1, <1>1 DEF Relinked
    <3>2. state[u] \cap {"rescuing", "rescued"} = {}
      BY <2>1, <1>0 DEF IInv, LinksAgree
    <3>3. \A x \in Slot \ {u, v} : /\ rescue'[x] = rescue[x] /\ who'[x] = who[x]
                                  /\ state'[x] = state[x]
      BY <3>1, <1>3 DEF IInv, TypeOK
    <3>4. \A x \in Slot \ {u, v} :
            \/ rescue'[x] = None /\ state'[x] \cap {"rescuing", "rescued"} = {}
            \/ rescue'[x] \in Slot /\ (Carries(x, rescue[x])' \/ Carries(rescue[x], x)')
      <4>1. \A x \in {u, v} : x \in Slot /\ rescue[x] \in {u, v, None}
        BY <2>1, <1>2
      <4>2. TypeOK /\ LinksAgree BY DEF IInv
      <4> QED BY <4>1, <4>2, <3>3, OtherLinks
    <3>5. rescue'[u] = None /\ rescue'[v] = None BY <3>1, <2>1 DEF IInv, TypeOK
    <3> QED BY <3>1, <3>2, <3>4, <3>5, <1>3 DEF LinksAgree, IInv, TypeOK
  <2>2. CASE rescue[u] # None
    <3>1. PICK c \in Slot : c = rescue[u] /\ Carries(u, c) /\ rescue[c] = u /\ c # u
      BY <2>2, <1>0, <1>1 DEF IInv, LinksAgree, Carries
    <3>2. c # v BY <3>1, <1>1 DEF Carries, Alive
    <3>3. rescue' = [rescue EXCEPT ![u] = None, ![v] = c, ![c] = v]
      BY <2>2, <3>1, <1>1 DEF Relinked
    <3>4. \A x \in Slot \ {u, v, c} : /\ rescue'[x] = rescue[x] /\ who'[x] = who[x]
                                     /\ state'[x] = state[x]
      BY <3>3, <1>3 DEF IInv, TypeOK
    <3>5. \A x \in Slot \ {u, v, c} :
            \/ rescue'[x] = None /\ state'[x] \cap {"rescuing", "rescued"} = {}
            \/ rescue'[x] \in Slot /\ (Carries(x, rescue[x])' \/ Carries(rescue[x], x)')
      <4>1. \A x \in {u, v, c} : x \in Slot /\ (rescue[x] = None \/ rescue[x] \in {u, v, c})
        BY <3>1, <1>2
      <4>2. TypeOK /\ LinksAgree BY DEF IInv
      <4> QED BY <3>4, <4>1, <4>2, OtherLinks
    <3>6. rescue'[u] = None /\ rescue'[v] = c /\ rescue'[c] = v
      BY <3>1, <3>2, <3>3, <1>1 DEF IInv, TypeOK
    <3>7. Carries(v, c)'
      <4>1. state'[c] = state[c] /\ who'[c] = who[c] BY <3>1, <3>2, <1>3
      <4> QED BY <3>1, <3>6, <4>1, <1>3 DEF Carries, Alive, Valid
    <3>11. rescue' \in [Slot -> Slot \cup {None}] BY <3>3 DEF IInv, TypeOK
    <3> SUFFICES ASSUME NEW x \in Slot
                 PROVE \/ rescue'[x] = None /\ state'[x] \cap {"rescuing", "rescued"} = {}
                       \/ /\ rescue'[x] \in Slot
                          /\ Carries(x, rescue[x])' \/ Carries(rescue[x], x)'
      BY <3>11 DEF LinksAgree
    <3>8. CASE x = u BY <3>8, <3>6, <1>3
    <3>9. CASE x = v BY <3>9, <3>6, <3>7
    <3>10. CASE x = c BY <3>10, <3>6, <3>7
    <3> QED BY <3>5, <3>8, <3>9, <3>10
  <2> QED BY <2>1, <2>2
<1>5. TypeOK' BY <1>1, <1>3, <1>4, NowhereIsATile DEF IInv, TypeOK
<1>6. DeadAreHidden' BY <1>3 DEF IInv, DeadAreHidden
<1>7. MapInView' BY <1>1 DEF MapInView, Choosing
<1>8. ActorIsFree' BY <1>1, <1>3 DEF IInv, ActorIsFree, TypeOK
<1>9. ListedAreFree' /\ PlayerHasNoList'
  BY <1>1, <1>3 DEF IInv, ListedAreFree, PlayerHasNoList, TypeOK
<1> QED BY <1>4, <1>5, <1>6, <1>7, <1>8, <1>9 DEF IInv

(* The end of an action brings the unit in its slot back into view.          *)
LEMMA EndKeeps ==
  ASSUME IInv, NEW x \in Slot, "rescued" \notin state[x],
         state' = Ended(x), pos' = Placed(x, goal), RefreshEntityBmMaps,
         active' \in Slot, strays' \subseteq Slot, stage' = "idle", ForgetAction,
         UNCHANGED <<who, rescue, orders, side>>
  PROVE  IInv'
<1>1. /\ goal \in Tiles
      /\ unitMap' = RefreshedMap(who', pos', state')
      /\ origin' = Nowhere /\ taken' = FALSE /\ last' = "none"
      /\ subject' = None /\ goal' = Nowhere
  BY DEF ForgetAction, RefreshEntityBmMaps, IInv, TypeOK
<1>2. /\ state' \in [Slot -> SUBSET Flag]
      /\ \A v \in Slot : /\ state'[v] \cap {"rescuing", "rescued", "dead"}
                              = state[v] \cap {"rescuing", "rescued", "dead"}
                         /\ v # x \/ ~Alive(x) => state'[v] = state[v]
  BY <1>1 DEF Ended, IInv, TypeOK, Flag
<1>3. TypeOK'
  <2>1. pos' \in [Slot -> Tiles] BY <1>1, PlacedMoves DEF IInv
  <2>2. unitMap' \in [Tiles -> Slot \cup {None}] BY <1>1, RefreshTypes
  <2> QED BY <1>1, <1>2, <2>1, <2>2, NowhereIsATile DEF IInv, TypeOK
<1>4. SameLinks
  <2>1. ASSUME NEW v \in Slot, "rescued" \in state[v] PROVE "hidden" \in state'[v]
    BY <2>1, <1>1, <1>2 DEF IInv, LinksAgree, Carries
  <2> QED BY <2>1, <1>1, <1>2 DEF SameLinks
<1>5. LinksAgree' BY <1>4, LinksStay DEF IInv
<1>6. MapInView' BY <1>1, RefreshInView
<1>7. DeadAreHidden'
  <2> SUFFICES ASSUME NEW v \in Slot, "dead" \in state'[v] PROVE "hidden" \in state'[v]
    BY DEF DeadAreHidden
  <2>1. "dead" \in state[v] /\ "hidden" \in state[v]
    BY <1>2 DEF IInv, DeadAreHidden
  <2> QED BY <2>1, <1>2 DEF Alive
<1>8. ActorIsFree' /\ ListedAreFree' /\ PlayerHasNoList'
  BY <1>1, <1>2 DEF IInv, ActorIsFree, ListedAreFree, PlayerHasNoList, TypeOK
<1> QED BY <1>3, <1>5, <1>6, <1>7, <1>8 DEF IInv

(* The player's action ends for the active unit.                             *)
LEMMA FinishKeeps == ASSUME IInv, FinishAction PROVE IInv'
<1>1. active \in Slot /\ "rescued" \notin state[active] /\ strays \subseteq Slot
  BY DEF FinishAction, IInv, ActorIsFree, TypeOK
<1>2. /\ state' = Ended(active) /\ pos' = Placed(active, goal) /\ RefreshEntityBmMaps
      /\ active' = active /\ strays' = strays /\ stage' = "idle" /\ ForgetAction
      /\ UNCHANGED <<who, rescue, orders, side>>
  BY DEF FinishAction
<1> QED BY <1>1, <1>2, EndKeeps

(* The computer's ends for the slot it began with.                           *)
LEMMA ComputerFinishesKeeps ==
  ASSUME IInv, SubjectIsFree, ComputerFinishes PROVE IInv'
<1>1. subject \in Slot /\ "rescued" \notin state[subject]
  BY DEF ComputerFinishes, SubjectIsFree
<1>2. /\ state' = Ended(subject) /\ pos' = Placed(subject, goal) /\ RefreshEntityBmMaps
      /\ active' = subject /\ strays' = strays \cup ({active} \ {subject})
      /\ stage' = "idle" /\ ForgetAction /\ UNCHANGED <<who, rescue, orders, side>>
  BY DEF ComputerFinishes
<1>3. strays' \subseteq Slot BY <1>2 DEF IInv, TypeOK
<1> QED BY <1>1, <1>2, <1>3, EndKeeps

(* The end of an action that leaves movement begins another one.            *)
LEMMA CantoKeeps == ASSUME IInv, FinishWithCanto PROVE IInv'
<1> DEFINE s == [Ended(active) EXCEPT ![active] = (@ \ {"unselectable"}) \cup {"moved"}]
           p == Placed(active, goal)
<1>1. /\ active \in Slot /\ Alive(active) /\ "rescued" \notin state[active]
      /\ goal \in Tiles /\ stage = "act" /\ side = "blue"
      /\ pos' = p /\ stage' = "select" /\ goal' = Nowhere
      /\ BeginCanto(active, s, p, RefreshedMap(who, p, s))
      /\ UNCHANGED <<who, rescue, subject, strays, orders, side>>
  BY DEF FinishWithCanto, IInv, ActorIsFree, TypeOK
<1>2. p \in [Slot -> Tiles] BY <1>1, PlacedMoves DEF IInv
<1>3. /\ s \in [Slot -> SUBSET Flag]
      /\ \A v \in Slot : /\ s[v] \cap {"rescuing", "rescued", "dead"}
                              = state[v] \cap {"rescuing", "rescued", "dead"}
                         /\ v # active => s[v] = state[v]
  <2>1. /\ Ended(active) \in [Slot -> SUBSET Flag]
        /\ \A v \in Slot : /\ Ended(active)[v] \cap {"rescuing", "rescued", "dead"}
                                = state[v] \cap {"rescuing", "rescued", "dead"}
                           /\ v # active => Ended(active)[v] = state[v]
    BY <1>1 DEF Ended, IInv, TypeOK, Flag
  <2> DEFINE e == Ended(active)
  <2> HIDE DEF e
  <2> QED BY <1>1, <2>1 DEF Flag
<1> HIDE DEF s, p
<1>4. /\ state' = [s EXCEPT ![active] = @ \cup {"hidden"}] /\ active' = active
      /\ origin' = p[active] /\ taken' = FALSE /\ last' = "none"
  BY <1>1 DEF BeginCanto
<1>5. MapInView' /\ unitMap' \in [Tiles -> Slot \cup {None}]
  BY <1>1, <1>2, <1>3, BegunInView
<1>6. /\ state' \in [Slot -> SUBSET Flag]
      /\ \A v \in Slot : /\ state'[v] \cap {"rescuing", "rescued", "dead"}
                              = state[v] \cap {"rescuing", "rescued", "dead"}
                         /\ v # active => state'[v] = state[v]
      /\ "hidden" \in state'[active]
  BY <1>1, <1>3, <1>4 DEF Flag
<1>7. TypeOK' BY <1>1, <1>2, <1>4, <1>5, <1>6, NowhereIsATile DEF IInv, TypeOK
<1>8. SameLinks
  <2>1. ASSUME NEW v \in Slot, "rescued" \in state[v] PROVE "hidden" \in state'[v]
    BY <2>1, <1>1, <1>6 DEF IInv, LinksAgree, Carries
  <2> QED BY <2>1, <1>1, <1>6 DEF SameLinks
<1>9. LinksAgree' BY <1>8, LinksStay DEF IInv
<1>10. DeadAreHidden' BY <1>1, <1>6 DEF IInv, DeadAreHidden, Alive
<1>11. ActorIsFree'
  BY <1>1, <1>4, <1>6 DEF ActorIsFree, Alive, Valid
<1>12. ListedAreFree' /\ PlayerHasNoList'
  BY <1>1, <1>6 DEF IInv, ListedAreFree, PlayerHasNoList, TypeOK
<1> QED BY <1>5, <1>7, <1>9, <1>10, <1>11, <1>12 DEF IInv

(* The computer's unit moves ahead of the unit it carries.                  *)
LEMMA ComputerKeeps ==
  ASSUME IInv, NEW u \in Slot, NEW t \in Tiles, ComputerMoves(u, t) PROVE IInv'
<1>0. None \notin Slot BY SlotAssumption
<1>1. /\ u \in orders /\ Alive(u) /\ "rescued" \notin state[u] /\ stage = "idle"
      /\ side # "blue" /\ active' = u /\ origin' = pos[u] /\ pos[u] \in Tiles
      /\ taken' = FALSE /\ last' = "none"
      /\ state' = [state EXCEPT ![u] = @ \cup {"hidden"}]
      /\ unitMap' = [unitMap EXCEPT ![pos[u]] = None]
      /\ pos' = [pos EXCEPT ![u] = t] /\ orders' = orders \ {u}
      /\ subject' = u /\ goal' = t
      /\ stage' = "computer" /\ UNCHANGED <<who, rescue, strays, side>>
  BY DEF ComputerMoves, BeginAction, BeginCanto, IInv, ListedAreFree, TypeOK
<1>2. TypeOK' BY <1>1 DEF IInv, TypeOK, Flag
<1>3. SameLinks
  <2> SUFFICES ASSUME NEW v \in Slot
               PROVE /\ state'[v] \cap {"rescuing", "rescued", "dead"}
                           = state[v] \cap {"rescuing", "rescued", "dead"}
                     /\ "rescued" \in state[v] => "hidden" \in state'[v]
    BY <1>1 DEF SameLinks
  <2> QED BY <1>1 DEF IInv, TypeOK, LinksAgree, Carries
<1>4. LinksAgree' BY <1>3, LinksStay DEF IInv
<1>5. MapInView'
  <2> SUFFICES ASSUME NEW q \in Tiles, unitMap'[q] # None
               PROVE Shown(unitMap[q])' /\ pos'[unitMap'[q]] = q
    BY DEF MapInView
  <2>1. q # pos[u] /\ unitMap'[q] = unitMap[q] BY <1>1 DEF IInv, TypeOK
  <2>2. unitMap[q] \in Slot /\ Shown(unitMap[q]) /\ pos[unitMap[q]] = q
    BY <1>1, <2>1 DEF IInv, MapInView, Choosing, TypeOK
  <2>3. unitMap[q] # u BY <2>1, <2>2
  <2> QED BY <1>1, <2>1, <2>2, <2>3 DEF IInv, TypeOK, Shown, Valid
<1>6. DeadAreHidden' /\ ActorIsFree' /\ ListedAreFree' /\ PlayerHasNoList'
  BY <1>1 DEF IInv, DeadAreHidden, ActorIsFree, ListedAreFree, PlayerHasNoList,
              Alive, Valid, TypeOK
<1> QED BY <1>2, <1>4, <1>5, <1>6 DEF IInv

(* The next side's turn changes no link.                                    *)
LEMMA ChangePhaseKeeps == ASSUME IInv, ChangePhase PROVE IInv'
<1>1. /\ state' = [u \in Slot |-> IF Valid(u) /\ Factions[u] = side
                                   THEN state[u] \ {"unselectable", "moved"} ELSE state[u]]
      /\ side' = NextSide[side] /\ orders' = {} /\ stage' = "turn"
      /\ UNCHANGED <<who, pos, rescue, unitMap, active, origin, taken, subject, goal,
                     last, strays>>
  BY DEF ChangePhase, acting
<1>2. /\ state' \in [Slot -> SUBSET Flag]
      /\ \A v \in Slot : state'[v] \cap {"rescuing", "rescued", "dead", "hidden"}
                            = state[v] \cap {"rescuing", "rescued", "dead", "hidden"}
  BY <1>1 DEF IInv, TypeOK, Flag
<1>3. side' \in Side BY <1>1 DEF IInv, TypeOK, NextSide, Side
<1>4. TypeOK' BY <1>1, <1>2, <1>3 DEF IInv, TypeOK
<1>5. SameLinks BY <1>1, <1>2 DEF SameLinks, IInv, LinksAgree, Carries
<1>6. LinksAgree' BY <1>5, LinksStay DEF IInv
<1>7. DeadAreHidden' BY <1>2 DEF IInv, DeadAreHidden
<1>8. MapInView' /\ ActorIsFree' /\ ListedAreFree' /\ PlayerHasNoList'
  BY <1>1 DEF MapInView, Choosing, ActorIsFree, ListedAreFree, PlayerHasNoList
<1> QED BY <1>4, <1>6, <1>7, <1>8 DEF IInv

(* The list of a computer side holds no carried unit.                       *)
LEMMA BeginPhaseKeeps == ASSUME IInv, BeginPhase PROVE IInv'
<1>1. /\ stage' = "idle" /\ unitMap' = RefreshedMap(who', pos', state')
      /\ orders' = (IF side = "blue" THEN {} ELSE Listed)
      /\ UNCHANGED <<who, pos, state, rescue, active, origin, taken, subject, goal, last,
                     strays, side>>
  BY DEF BeginPhase, units, acting, RefreshEntityBmMaps
<1>2. unitMap' \in [Tiles -> Slot \cup {None}] BY <1>1, RefreshTypes
<1>3. Listed \subseteq Slot /\ \A u \in Listed : "rescued" \notin state[u]
  <2>1. SlotsOf[side] \subseteq Slot BY DEF SlotsOf, IInv, TypeOK
  <2> QED BY <2>1 DEF Listed
<1>4. TypeOK' BY <1>1, <1>2, <1>3 DEF IInv, TypeOK
<1>5. SameLinks BY <1>1 DEF SameLinks, IInv, LinksAgree, Carries
<1>6. LinksAgree' BY <1>5, LinksStay DEF IInv
<1>7. MapInView' BY <1>1, RefreshInView
<1>8. DeadAreHidden' /\ ActorIsFree' /\ ListedAreFree' /\ PlayerHasNoList'
  BY <1>1, <1>3 DEF IInv, DeadAreHidden, ActorIsFree, ListedAreFree, PlayerHasNoList
<1> QED BY <1>4, <1>6, <1>7, <1>8 DEF IInv

(* A battle begins with no unit carried.                                    *)
LEMMA InitHolds == Init => IInv
<1> SUFFICES ASSUME Init PROVE IInv OBVIOUS
<1>1. /\ state = [u \in Slot |-> {}] /\ rescue = [u \in Slot |-> None]
      /\ unitMap = RefreshedMap(who, pos, state)
      /\ who \in [Slot -> Person \cup {NoOne}] /\ pos \in [Slot -> Tiles]
  BY DeploymentAssumption DEF Init
<1>2. unitMap \in [Tiles -> Slot \cup {None}] BY <1>1, RefreshTypes
<1>3. TypeOK BY <1>1, <1>2, NowhereIsATile DEF Init, TypeOK, Slot, Side
<1>4. MapInView
  <2> SUFFICES ASSUME NEW t \in Tiles, unitMap[t] # None
               PROVE Shown(unitMap[t]) /\ pos[unitMap[t]] = t
    BY DEF MapInView
  <2> QED BY <1>1, RefreshShows DEF Shown, Valid
<1>5. LinksAgree /\ DeadAreHidden BY <1>1 DEF LinksAgree, DeadAreHidden
<1>6. ActorIsFree /\ ListedAreFree /\ PlayerHasNoList
  BY DEF Init, ActorIsFree, ListedAreFree, PlayerHasNoList
<1> QED BY <1>3, <1>4, <1>5, <1>6 DEF IInv

(* One step per action.                                                     *)
LEMMA NextKeeps == IInv /\ SubjectIsFree /\ [Next]_vars => IInv'
<1> SUFFICES ASSUME IInv, SubjectIsFree, [Next]_vars PROVE IInv' OBVIOUS
<1>1. ASSUME NEW t \in Tiles, SelectUnit(t) \/ MoveTo(t) \/ Drop(t) PROVE IInv'
  BY <1>1, SelectKeeps, MoveKeeps, DropKeeps
<1>2. CASE CancelSelect \/ BackToMove BY <1>2, CancelKeeps, BackKeeps
<1>3. CASE Wait("wait") \/ Wait("forceWait") \/ ComputerWaits
  BY <1>3, WaitKeeps, ComputerWaitsKeeps
<1>4. ASSUME NEW v \in Slot, Rescue(v) PROVE IInv' BY <1>4, RescueKeeps
<1>5. ASSUME NEW v \in Slot, Take(v) \/ Give(v) PROVE IInv'
  <2>1. active \in Slot /\ v # active /\ \E t \in Tiles : unitMap[t] = v
    <3>1. PICK t \in Tiles : unitMap[t] = v /\ v # None /\ stage = "menu"
      BY <1>5 DEF Take, Give, Beside, Neighbours, Transfer, InMenu
    <3>2. Shown(v) BY <3>1 DEF IInv, MapInView, Choosing
    <3> QED BY <3>1, <3>2 DEF IInv, ActorIsFree, TypeOK, Shown
  <2>2. CASE Take(v) BY <2>1, <2>2, TransferKeeps DEF Take
  <2>3. CASE Give(v) BY <2>1, <2>3, TransferKeeps DEF Give
  <2> QED BY <1>5, <2>2, <2>3
<1>6. ASSUME NEW v \in Slot, NEW dead \in Slot \cup {None}, Combat(v, dead) PROVE IInv'
  BY <1>6, CombatKeeps
<1>7. CASE Trap BY <1>7, TrapKeeps
<1>8. ASSUME NEW u \in Slot, NEW v \in Slot, ChangeFaction(u, v) PROVE IInv'
  BY <1>8, ChangeFactionKeeps
<1>9. CASE FinishAction \/ FinishWithCanto \/ ComputerFinishes
  BY <1>9, FinishKeeps, CantoKeeps, ComputerFinishesKeeps
<1>10. ASSUME NEW u \in Slot, NEW t \in Tiles, ComputerMoves(u, t) PROVE IInv'
  BY <1>10, ComputerKeeps
<1>11. CASE ChangePhase \/ BeginPhase BY <1>11, ChangePhaseKeeps, BeginPhaseKeeps
<1>12. ASSUME NEW u \in Slot, Poison(u) PROVE IInv' BY <1>12, PoisonKeeps
<1>13. CASE UNCHANGED vars
  <2>1. UNCHANGED <<who, pos, state, rescue, unitMap, active, origin, taken, subject, goal,
                    last, strays, orders, side, stage>>
    BY <1>13 DEF vars, units, acting
  <2>2. TypeOK' BY <2>1 DEF IInv, TypeOK
  <2>3. SameLinks BY <2>1 DEF SameLinks, IInv, LinksAgree, Carries
  <2>4. LinksAgree' BY <2>3, LinksStay DEF IInv
  <2>5. MapInView' BY <2>1 DEF IInv, MapInView, Shown, Valid
  <2>6. DeadAreHidden' /\ ActorIsFree' /\ ListedAreFree' /\ PlayerHasNoList'
    BY <2>1 DEF IInv, DeadAreHidden, ActorIsFree, ListedAreFree, PlayerHasNoList, Alive, Valid
  <2> QED BY <2>2, <2>4, <2>5, <2>6 DEF IInv
<1> QED BY <1>1, <1>2, <1>3, <1>4, <1>5, <1>6, <1>7, <1>8, <1>9, <1>10, <1>11, <1>12,
           <1>13 DEF Next

(* The slot that the action will be ended for holds no carried unit, and is  *)
(* the active unit's until a second move.                                    *)
LEMMA SubjectKeeps == ASSUME IInv, SubjectIsFree, [Next]_vars PROVE SubjectIsFree'
<1>0. None \notin Slot BY SlotAssumption
<1>1. ASSUME NEW t \in Tiles, SelectUnit(t) PROVE SubjectIsFree'
  <2>1. unitMap[t] \in Slot /\ Shown(unitMap[t])
    BY <1>0, <1>1 DEF SelectUnit, IInv, MapInView, Choosing, Slot
  <2>2. "rescued" \notin state[unitMap[t]]
    BY <2>1 DEF Shown, IInv, LinksAgree, Carries
  <2>3. /\ active' = unitMap[t] /\ subject' = unitMap[t] /\ stage' = "select"
        /\ state' = [state EXCEPT ![unitMap[t]] = @ \cup {"hidden"}]
    BY <1>1 DEF SelectUnit, BeginAction, BeginCanto
  <2> QED BY <2>1, <2>2, <2>3 DEF SubjectIsFree, IInv, TypeOK
<1>2. ASSUME NEW t \in Tiles, MoveTo(t) PROVE SubjectIsFree'
  BY <1>2 DEF MoveTo, SubjectIsFree
<1>3. ASSUME NEW t \in Tiles, Drop(t) PROVE SubjectIsFree'
  <2>1. /\ state' = Dropped(state, active, rescue[active]) /\ stage' = "act"
        /\ subject' = subject /\ subject \in Slot /\ "rescued" \notin state[subject]
    BY <1>3 DEF Drop, InMenu, SubjectIsFree
  <2>2. "rescued" \notin state'[subject] BY <2>1 DEF Dropped, IInv, TypeOK
  <2> QED BY <2>1, <2>2 DEF SubjectIsFree
<1>4. CASE CancelSelect BY <1>4 DEF CancelSelect, SubjectIsFree
<1>5. CASE BackToMove
  <2> DEFINE s == [state EXCEPT ![active] = @ \ {"hidden"}]
  <2>1. /\ state' = [s EXCEPT ![active] = @ \cup {"hidden"}] /\ stage' = "select"
        /\ active' = active /\ stage = "menu"
        /\ subject' = (IF "moved" \in state[active] THEN subject ELSE active)
        /\ active \in Slot /\ "rescued" \notin state[active]
    BY <1>5 DEF BackToMove, BeginCanto, IInv, ActorIsFree, TypeOK
  <2>2. \A v \in Slot : state'[v] \cap {"rescued", "moved"} = state[v] \cap {"rescued", "moved"}
    BY <2>1 DEF IInv, TypeOK
  <2> QED BY <2>1, <2>2 DEF SubjectIsFree
<1>6. CASE Wait("wait") \/ Wait("forceWait")
  <2>1. /\ state' \in {state, [state EXCEPT ![subject] = @ \cup {"moved"}]}
        /\ subject' = subject /\ stage' = "act"
        /\ subject \in Slot /\ "rescued" \notin state[subject]
    BY <1>6 DEF Wait, SubjectIsFree
  <2> QED BY <2>1 DEF SubjectIsFree, IInv, TypeOK
<1>7. CASE ComputerWaits
  BY <1>7 DEF ComputerWaits, units, acting, SubjectIsFree
<1>8. ASSUME NEW v \in Slot, Rescue(v) PROVE SubjectIsFree'
  <2>1. /\ state' = Lifted(state, active, v) /\ stage' = "act" /\ subject' = subject
        /\ subject = active /\ active \in Slot /\ "rescued" \notin state[active]
        /\ "hidden" \in state[active] /\ stage = "menu"
    BY <1>8 DEF Rescue, InMenu, SubjectIsFree, IInv, ActorIsFree, TypeOK
  <2>2. v # active
    <3>1. PICK t \in Tiles : unitMap[t] = v
      BY <1>8 DEF Rescue, RescueTargets, Beside, Neighbours
    <3> QED BY <1>0, <2>1, <3>1 DEF IInv, MapInView, Choosing, Shown
  <2> QED BY <2>1, <2>2 DEF SubjectIsFree, Lifted, IInv, TypeOK
<1>9. ASSUME NEW v \in Slot, Take(v) \/ Give(v) PROVE SubjectIsFree'
  <2>1. PICK from \in Slot, to \in Slot : Transfer(from, to)
    BY <1>9 DEF Take, Give, IInv, TypeOK
  <2> DEFINE c == rescue[from]
  <2>2. /\ state' = Lifted(Dropped(state, from, c), to, c) /\ stage = "menu"
        /\ UNCHANGED <<active, subject, stage>> /\ subject = active
        /\ active \in Slot /\ "rescued" \notin state[active]
        /\ "rescuing" \in state[from]
    BY <2>1 DEF Transfer, HandOver, InMenu, SubjectIsFree, IInv, ActorIsFree, TypeOK
  <2>3. c \in Slot /\ c # active BY <2>2 DEF IInv, LinksAgree, Carries
  <2>4. "rescued" \notin state'[active] BY <2>2, <2>3 DEF Lifted, Dropped, IInv, TypeOK
  <2> QED BY <2>2, <2>4 DEF SubjectIsFree
<1>10. ASSUME NEW v \in Slot, NEW dead \in Slot \cup {None}, Combat(v, dead)
       PROVE SubjectIsFree'
  <2>1. /\ subject' = subject /\ stage' = "act" /\ stage \in {"menu", "computer"}
        /\ subject \in Slot /\ "rescued" \notin state[subject]
    BY <1>10 DEF Combat, InMenu, SubjectIsFree
  <2>2. CASE dead = None BY <1>10, <2>1, <2>2 DEF Combat, units, SubjectIsFree
  <2>3. CASE dead # None
    <3>1. Dies(dead) /\ dead \in {active, v} /\ \E t \in Tiles : unitMap[t] = v
      BY <1>10, <2>3 DEF Combat
    <3>2. Shown(v) BY <1>0, <2>1, <3>1 DEF IInv, MapInView, Choosing
    <3>3. Alive(v) /\ "rescued" \notin state[v]
      BY <3>2 DEF Shown, Alive, IInv, DeadAreHidden, LinksAgree, Carries
    <3>4. dead \in Slot /\ Alive(dead) /\ "rescued" \notin state[dead]
      BY <2>1, <3>1, <3>3 DEF IInv, ActorIsFree, TypeOK
    <3>5. "rescued" \notin state'[subject] BY <2>1, <3>1, <3>4, DeathUnlinks DEF IInv
    <3> QED BY <2>1, <3>5 DEF SubjectIsFree
  <2> QED BY <2>2, <2>3
<1>11. CASE Trap
  <2>1. /\ subject' = subject /\ stage' = "act" /\ stage = "act" /\ Dies(active)
        /\ subject \in Slot /\ "rescued" \notin state[subject]
        /\ active \in Slot /\ Alive(active) /\ "rescued" \notin state[active]
    BY <1>11 DEF Trap, SubjectIsFree, IInv, ActorIsFree, TypeOK
  <2>2. "rescued" \notin state'[subject] BY <2>1, DeathUnlinks DEF IInv
  <2> QED BY <2>1, <2>2 DEF SubjectIsFree
<1>12. ASSUME NEW u \in Slot, NEW v \in Slot, ChangeFaction(u, v) PROVE SubjectIsFree'
  <2>1. /\ state' = [state EXCEPT ![v] = state[u], ![u] = {}]
        /\ "rescued" \notin state[u] /\ stage \in {"act", "turn"}
        /\ UNCHANGED <<stage, subject>>
    BY <1>12 DEF ChangeFaction
  <2>2. \A w \in Slot : "rescued" \notin state[w] => "rescued" \notin state'[w]
    BY <2>1 DEF IInv, TypeOK
  <2> QED BY <2>1, <2>2 DEF SubjectIsFree
<1>13. CASE FinishAction \/ ComputerFinishes
  BY <1>13 DEF FinishAction, ComputerFinishes, SubjectIsFree
<1>14. CASE FinishWithCanto
  <2> DEFINE e == Ended(active)
             s == [e EXCEPT ![active] = (@ \ {"unselectable"}) \cup {"moved"}]
  <2>1. /\ state' = [s EXCEPT ![active] = @ \cup {"hidden"}]
        /\ active' = active /\ subject' = subject /\ stage' = "select"
        /\ active \in Slot /\ subject \in Slot /\ "rescued" \notin state[subject]
    BY <1>14 DEF FinishWithCanto, BeginCanto, SubjectIsFree, IInv, TypeOK
  <2>2. /\ e \in [Slot -> SUBSET Flag]
        /\ \A v \in Slot : e[v] \cap {"rescued"} = state[v] \cap {"rescued"}
    BY DEF Ended, IInv, TypeOK, Flag
  <2> HIDE DEF e
  <2>3. "rescued" \notin state'[subject] /\ "moved" \in state'[active]
    BY <2>1, <2>2
  <2> QED BY <2>1, <2>3 DEF SubjectIsFree
<1>15. ASSUME NEW u \in Slot, NEW t \in Tiles, ComputerMoves(u, t) PROVE SubjectIsFree'
  <2>1. /\ active' = u /\ subject' = u /\ stage' = "computer"
        /\ state' = [state EXCEPT ![u] = @ \cup {"hidden"}] /\ "rescued" \notin state[u]
    BY <1>15 DEF ComputerMoves, BeginAction, BeginCanto, IInv, ListedAreFree
  <2> QED BY <2>1 DEF SubjectIsFree, IInv, TypeOK
<1>16. CASE ChangePhase \/ BeginPhase BY <1>16 DEF ChangePhase, BeginPhase, SubjectIsFree
<1>17. ASSUME NEW u \in Slot, Poison(u) PROVE SubjectIsFree'
  BY <1>17 DEF Poison, acting, SubjectIsFree
<1>18. CASE UNCHANGED vars BY <1>18 DEF vars, units, acting, SubjectIsFree
<1> QED BY <1>1, <1>2, <1>3, <1>4, <1>5, <1>6, <1>7, <1>8, <1>9, <1>10, <1>11, <1>12,
           <1>13, <1>14, <1>15, <1>16, <1>17, <1>18 DEF Next

(* The strengthened invariant holds in every reachable state.                *)
LEMMA Inductive == Spec => [](IInv /\ SubjectIsFree)
<1>1. Init => SubjectIsFree BY DEF Init, SubjectIsFree
<1>2. IInv /\ SubjectIsFree /\ [Next]_vars => SubjectIsFree' BY SubjectKeeps
<1> QED BY <1>1, <1>2, InitHolds, NextKeeps, PTL DEF Spec

(* Whatever is rescued, dropped, handed over, killed, poisoned or turned, in *)
(* any order, a carrier and the unit it carries name each other (bmunit.c).  *)
THEOREM RescueLinks == Spec => []LinksAgree
<1>1. IInv => LinksAgree BY DEF IInv
<1> QED BY <1>1, Inductive, PTL

(* Every field keeps its type; a dropped unit lands on a tile of the map.    *)
THEOREM RescueTypes == Spec => []TypeOK
<1>1. IInv => TypeOK BY DEF IInv
<1> QED BY <1>1, Inductive, PTL

----------------------------------------------------------------------------
(* NobodyVanishes: of the units that are alive and not carried, only the one *)
(* that is acting is off the map, and those that an action lost track of.    *)
Astray(u) == Alive(u) /\ "hidden" \in state[u] /\ "rescued" \notin state[u]
Busy == stage \in {"select", "menu", "computer", "act"}
Accounted == \A u \in Slot : Astray(u) => (u = active /\ Busy) \/ u \in strays

(* A death takes nobody off the map: the unit that was carried is put down.  *)
LEMMA DeathHidesNobody ==
  ASSUME IInv, NEW u \in Slot, Dies(u), NEW v \in Slot, Astray(v)'
  PROVE  Astray(v)
<1>1. /\ who' = Vacated(u) /\ who'[v] # NoOne /\ "dead" \notin state'[v]
      /\ "hidden" \in state'[v] /\ "rescued" \notin state'[v]
  BY DEF Dies, Astray, Alive, Valid
<1>2. v # u
  <2>1. SUFFICES ASSUME v = u PROVE FALSE OBVIOUS
  <2>2. u \in BlueSlots BY <1>1, <2>1 DEF Vacated, IInv, TypeOK
  <2>3. PICK s \in [Slot -> SUBSET Flag] : state' = Killed(s, u)
    <3>1. CASE "rescuing" \in state[u]
      <4>1. Dropped(state, u, rescue[u]) \in [Slot -> SUBSET Flag]
        BY DEF Dropped, IInv, TypeOK, Flag
      <4> QED BY <3>1, <4>1 DEF Dies
    <3>2. CASE "rescuing" \notin state[u] BY <3>2 DEF Dies, IInv, TypeOK
    <3> QED BY <3>1, <3>2
  <2>4. "dead" \in state'[u] BY <2>2, <2>3 DEF Killed
  <2> QED BY <1>1, <2>1, <2>4
<1>3. who[v] # NoOne BY <1>1, <1>2 DEF Vacated, IInv, TypeOK
<1>4. CASE "rescuing" \in state[u]
  <2> DEFINE c == rescue[u]
  <2>1. c \in Slot /\ c # u BY <1>4 DEF IInv, LinksAgree, Carries
  <2>2. state' = Killed(Dropped(state, u, c), u) BY <1>4 DEF Dies
  <2>3. v # c
    BY <1>1, <1>2, <2>1, <2>2 DEF Killed, Dropped, IInv, TypeOK
  <2>4. state'[v] = state[v]
    BY <1>2, <2>1, <2>2, <2>3 DEF Killed, Dropped, IInv, TypeOK
  <2> QED BY <1>1, <1>3, <2>4 DEF Astray, Alive, Valid
<1>5. CASE "rescuing" \notin state[u]
  <2>1. state'[v] = state[v] BY <1>2, <1>5 DEF Dies, Killed, IInv, TypeOK
  <2> QED BY <1>1, <1>3, <2>1 DEF Astray, Alive, Valid
<1> QED BY <1>4, <1>5

(* The steps that hide a unit make it the one that acts, and those that end  *)
(* an action bring it back, or have lost track of it.                        *)
LEMMA AccountedKeeps == ASSUME IInv, Accounted, [Next]_vars PROVE Accounted'
<1> SUFFICES ASSUME NEW w \in Slot, Astray(w)', w \notin strays, w \notin strays'
             PROVE  w = active' /\ Busy'
  BY StraysGrow DEF Accounted
<1>0. None \notin Slot BY SlotAssumption
<1>1. ASSUME NEW t \in Tiles, SelectUnit(t) PROVE w = active' /\ Busy'
  <2>1. unitMap[t] \in Slot /\ ~Busy BY <1>1 DEF SelectUnit, Slot, Busy
  <2>2. active' = unitMap[t] /\ Busy'
        /\ state' = [state EXCEPT ![unitMap[t]] = @ \cup {"hidden"}] /\ who' = who
    BY <1>1 DEF SelectUnit, BeginAction, BeginCanto, Busy
  <2> QED BY <2>1, <2>2 DEF Accounted, Astray, Alive, Valid, IInv, TypeOK
<1>2. ASSUME NEW t \in Tiles, MoveTo(t) PROVE w = active' /\ Busy'
  BY <1>2 DEF MoveTo, Accounted, Astray, Alive, Valid, Busy
<1>3. ASSUME NEW t \in Tiles, Drop(t) PROVE w = active' /\ Busy'
  <2>1. state' = Dropped(state, active, rescue[active]) /\ who' = who
        /\ active' = active /\ Busy /\ Busy'
    BY <1>3 DEF Drop, InMenu, Busy
  <2>2. rescue[active] \in Slot /\ rescue[active] # active
    BY <1>3 DEF Drop, IInv, LinksAgree, Carries, TypeOK
  <2>3. CASE w = rescue[active]
    BY <2>1, <2>2, <2>3 DEF Dropped, Astray, IInv, TypeOK
  <2>4. CASE w # rescue[active] /\ w # active
    <3>1. state'[w] = state[w] BY <2>1, <2>4 DEF Dropped, IInv, TypeOK
    <3> QED BY <2>1, <2>4, <3>1 DEF Accounted, Astray, Alive, Valid
  <2> QED BY <2>1, <2>3, <2>4
<1>4. CASE CancelSelect
  <2>1. state' = [state EXCEPT ![active] = @ \ {"hidden"}] /\ who' = who
    BY <1>4 DEF CancelSelect
  <2>2. w # active BY <2>1 DEF Astray, IInv, TypeOK
  <2> QED BY <2>1, <2>2 DEF Accounted, Astray, Alive, Valid, IInv, TypeOK
<1>5. CASE BackToMove
  <2> DEFINE s == [state EXCEPT ![active] = @ \ {"hidden"}]
  <2>1. /\ state' = [s EXCEPT ![active] = @ \cup {"hidden"}] /\ who' = who
        /\ active' = active /\ Busy /\ Busy'
    BY <1>5 DEF BackToMove, BeginCanto, Busy
  <2>2. w # active => state'[w] = state[w] BY <2>1 DEF IInv, TypeOK
  <2> QED BY <2>1, <2>2 DEF Accounted, Astray, Alive, Valid
<1>6. CASE Wait("wait") \/ Wait("forceWait")
  <2>1. /\ state' \in {state, [state EXCEPT ![subject] = @ \cup {"moved"}]}
        /\ who' = who /\ stage' = "act" /\ active' = subject
        /\ strays' = strays \cup ({active} \ {subject})
    BY <1>6 DEF Wait
  <2>2. state'[w] \cap {"dead", "hidden", "rescued"} = state[w] \cap {"dead", "hidden", "rescued"}
    BY <2>1 DEF IInv, TypeOK
  <2>3. Astray(w) BY <2>1, <2>2 DEF Astray, Alive, Valid
  <2> QED BY <2>1, <2>3 DEF Accounted, Busy
<1>19. CASE ComputerWaits
  BY <1>19 DEF ComputerWaits, units, acting, Accounted, Astray, Alive, Valid, Busy
<1>7. ASSUME NEW v \in Slot, Rescue(v) PROVE w = active' /\ Busy'
  <2>1. state' = Lifted(state, active, v) /\ who' = who /\ active' = active /\ Busy /\ Busy'
    BY <1>7 DEF Rescue, InMenu, Busy
  <2>2. CASE w # v /\ w # active
    <3>1. state'[w] = state[w] BY <2>1, <2>2 DEF Lifted, IInv, TypeOK
    <3> QED BY <2>1, <2>2, <3>1 DEF Accounted, Astray, Alive, Valid
  <2>3. CASE w = v /\ w # active
    BY <2>1, <2>3 DEF Lifted, Astray, IInv, TypeOK
  <2> QED BY <2>1, <2>2, <2>3
<1>8. ASSUME NEW v \in Slot, Take(v) \/ Give(v) PROVE w = active' /\ Busy'
  <2> SUFFICES ASSUME w # active PROVE FALSE
    BY <1>8 DEF Take, Give, Transfer, InMenu, Busy
  <2>1. PICK from \in Slot, to \in Slot :
          Transfer(from, to) /\ {from, to} = {active, v}
    BY <1>8 DEF Take, Give, IInv, TypeOK
  <2> DEFINE c == rescue[from]
  <2>2. /\ state' = Lifted(Dropped(state, from, c), to, c) /\ who' = who
        /\ c \in Slot /\ c # from
    BY <2>1 DEF Transfer, HandOver, IInv, LinksAgree, Carries, TypeOK
  <2>3. w # c
    <3>1. SUFFICES ASSUME w = c PROVE FALSE OBVIOUS
    <3>2. "rescued" \in state'[c] BY <2>1, <2>2 DEF Lifted, Dropped, IInv, TypeOK
    <3> QED BY <3>1, <3>2 DEF Astray
  <2>4. "hidden" \notin state[v]
    <3>1. PICK t \in Tiles : unitMap[t] = v /\ v # None /\ stage = "menu"
      BY <1>0, <1>8 DEF Take, Give, Beside, Neighbours, Transfer, InMenu
    <3> QED BY <3>1 DEF IInv, MapInView, Choosing, Shown
  <2>5. state'[w] \subseteq state[w] \cup {"rescuing"}
    BY <2>1, <2>2, <2>3 DEF Lifted, Dropped, IInv, TypeOK
  <2>6. w # v BY <2>4, <2>5 DEF Astray
  <2>7. state'[w] = state[w]
    BY <2>1, <2>2, <2>3, <2>6 DEF Lifted, Dropped, IInv, TypeOK
  <2> QED BY <2>2, <2>7 DEF Accounted, Astray, Alive, Valid
<1>9. ASSUME NEW v \in Slot, NEW dead \in Slot \cup {None}, Combat(v, dead)
      PROVE w = active' /\ Busy'
  <2>1. active' = active /\ Busy' /\ Busy /\ active \in Slot
    BY <1>9 DEF Combat, InMenu, Busy, IInv, TypeOK
  <2>2. Astray(w)
    <3>1. CASE dead = None
      BY <1>9, <3>1 DEF Combat, units, Astray, Alive, Valid
    <3>2. CASE dead # None
      BY <1>9, <3>2, DeathHidesNobody DEF Combat
    <3> QED BY <3>1, <3>2
  <2> QED BY <2>1, <2>2 DEF Accounted
<1>10. CASE Trap
  <2>1. Astray(w) /\ active' = active /\ Busy'
    BY <1>10, DeathHidesNobody DEF Trap, Busy, IInv, TypeOK
  <2> QED BY <2>1 DEF Accounted
<1>11. ASSUME NEW u \in Slot, NEW v \in Slot, ChangeFaction(u, v)
       PROVE w = active' /\ Busy'
  <2>1. /\ u # v /\ active' = (IF active = u THEN v ELSE active)
        /\ who' = [who EXCEPT ![v] = who[u], ![u] = NoOne]
        /\ state' = [state EXCEPT ![v] = state[u], ![u] = {}]
        /\ stage' = stage /\ "rescued" \notin state[u] /\ Alive(u)
        /\ u \in strays => v \in strays'
    BY <1>11 DEF ChangeFaction
  <2>2. w # u BY <2>1 DEF Astray, IInv, TypeOK
  <2>3. CASE w = v
    <3>1. Astray(u) BY <2>1, <2>2, <2>3 DEF Astray, IInv, TypeOK
    <3> QED BY <3>1, <2>1, <2>3 DEF Accounted, Busy
  <2>4. CASE w # v
    <3>1. Astray(w) BY <2>1, <2>2, <2>4 DEF Astray, Alive, Valid, IInv, TypeOK
    <3> QED BY <3>1, <2>1, <2>2 DEF Accounted, Busy
  <2> QED BY <2>3, <2>4
<1>12. CASE FinishAction \/ ComputerFinishes
  <2>1. PICK x : /\ state' = Ended(x) /\ who' = who
                 /\ x = active \/ active \in strays'
    BY <1>12 DEF FinishAction, ComputerFinishes
  <2>2. CASE w = x
    <3>1. Alive(w) => "hidden" \notin state'[w]
      BY <2>1, <2>2 DEF Ended, IInv, TypeOK
    <3>2. ~Alive(w) => state'[w] = state[w] BY <2>1, <2>2 DEF Ended
    <3> QED BY <2>1, <3>1, <3>2 DEF Astray, Alive, Valid
  <2>3. CASE w # x
    <3>1. state'[w] = state[w] BY <2>1, <2>3 DEF Ended, IInv, TypeOK
    <3> QED BY <2>1, <2>3, <3>1 DEF Accounted, Astray, Alive, Valid
  <2> QED BY <2>2, <2>3
<1>13. CASE FinishWithCanto
  <2> DEFINE e == Ended(active)
             s == [e EXCEPT ![active] = (@ \ {"unselectable"}) \cup {"moved"}]
  <2>1. /\ state' = [s EXCEPT ![active] = @ \cup {"hidden"}]
        /\ who' = who /\ active' = active /\ Busy'
    BY <1>13 DEF FinishWithCanto, BeginCanto, Busy
  <2>2. CASE w # active
    <3>1. e \in [Slot -> SUBSET Flag] /\ e[w] = state[w]
      BY <2>2 DEF Ended, IInv, TypeOK, Flag
    <3> HIDE DEF e
    <3>2. state'[w] = state[w] BY <2>1, <2>2, <3>1
    <3> QED BY <2>1, <2>2, <3>2 DEF Accounted, Astray, Alive, Valid
  <2> QED BY <2>1, <2>2
<1>14. ASSUME NEW u \in Slot, NEW t \in Tiles, ComputerMoves(u, t)
       PROVE w = active' /\ Busy'
  <2>1. /\ ~Busy /\ Busy' /\ active' = u /\ who' = who
        /\ state' = [state EXCEPT ![u] = @ \cup {"hidden"}]
    BY <1>14 DEF ComputerMoves, BeginAction, BeginCanto, Busy
  <2> QED BY <2>1 DEF Accounted, Astray, Alive, Valid, IInv, TypeOK
<1>15. CASE ChangePhase
  <2>1. /\ who' = who /\ ~Busy
        /\ state'[w] \cap {"dead", "hidden", "rescued"}
             = state[w] \cap {"dead", "hidden", "rescued"}
    BY <1>15 DEF ChangePhase, Busy, IInv, TypeOK
  <2> QED BY <2>1 DEF Accounted, Astray, Alive, Valid
<1>16. CASE BeginPhase
  BY <1>16 DEF BeginPhase, units, Accounted, Astray, Alive, Valid, Busy
<1>17. ASSUME NEW u \in Slot, Poison(u) PROVE w = active' /\ Busy'
  <2>1. Astray(w) /\ active' = active /\ stage' = stage
    BY <1>17, DeathHidesNobody DEF Poison, acting
  <2> QED BY <2>1 DEF Accounted, Busy
<1>18. CASE UNCHANGED vars
  BY <1>18 DEF vars, units, acting, Accounted, Astray, Alive, Valid, Busy
<1> QED BY <1>1, <1>2, <1>3, <1>4, <1>5, <1>6, <1>7, <1>8, <1>9, <1>10, <1>11, <1>12,
           <1>13, <1>14, <1>15, <1>16, <1>17, <1>18, <1>19 DEF Next

(* A living unit out of view is with a living carrier, is the one that is    *)
(* acting, or was lost by a change of sides in its own action, after which   *)
(* the action ended for the slot it had left (playerphase.c, bmunit.c:1011,  *)
(* cp_perform.c:187, bmmind.c:111).                                          *)
THEOREM NobodyIsLost == Spec => []NobodyVanishes
<1>1. Init => Accounted
  BY DEF Init, Accounted, Astray
<1>2. IInv /\ Accounted => NobodyVanishes
  <2> SUFFICES ASSUME IInv, Accounted, NEW u \in Slot, Alive(u), "hidden" \in state[u]
               PROVE \/ \E c \in Slot : Alive(c) /\ rescue[c] = u /\ rescue[u] = c
                     \/ u = active /\ stage \in {"select", "menu", "computer", "act"}
                     \/ u \in strays
    BY DEF NobodyVanishes
  <2>1. CASE "rescued" \in state[u]
    BY <2>1 DEF IInv, LinksAgree, Carries
  <2>2. CASE "rescued" \notin state[u]
    BY <2>2 DEF Accounted, Astray, Busy
  <2> QED BY <2>1, <2>2
<1>3. IInv /\ Accounted /\ [Next]_vars => Accounted' BY AccountedKeeps
<1> QED BY <1>1, <1>2, <1>3, Inductive, PTL DEF Spec
----------------------------------------------------------------------------
(* OneUnitPerTile and UnitMapIsCurrent.  The unit map need not be exact when *)
(* a unit dies after its action, but it must not show a tile as free that a  *)
(* unit in view stands on; the tile a move began at stays free; and an       *)
(* action ends where its unit is.  All four until a unit is lost.            *)
Covers == strays = {} => \A v \in Slot : Shown(v) => unitMap[pos[v]] # None
OriginIsFree ==
  strays = {} /\ stage \in {"select", "menu"}
    => \A v \in Slot : Placeable(v) /\ v # active => pos[v] # origin
AtGoal == strays = {} /\ stage \in {"menu", "computer", "act"} => pos[active] = goal

PInv == /\ IInv /\ SubjectIsFree /\ Accounted
        /\ OneUnitPerTile /\ Covers /\ OriginIsFree /\ AtGoal

(* To be placeable is to be in view, but for the unit that is acting.        *)
LEMMA PlaceableIsShown ==
  ASSUME IInv, Accounted, strays = {}, NEW v \in Slot
  PROVE  /\ Shown(v) => Placeable(v)
         /\ Placeable(v) => Shown(v) \/ (v = active /\ Busy)
<1>1. Shown(v) => Placeable(v)
  BY DEF Shown, Placeable, Alive, IInv, DeadAreHidden, LinksAgree, Carries
<1>2. Placeable(v) => Shown(v) \/ Astray(v)
  BY DEF Placeable, Alive, Shown, Astray
<1> QED BY <1>1, <1>2 DEF Accounted

(* Nobody but x moves or comes into view, and x stands on no other's tile.   *)
LEMMA OneNewcomer ==
  ASSUME OneUnitPerTile, strays = {}, NEW x \in Slot,
         \A v \in Slot \ {x} : Placeable(v)' =>
           Placeable(v) /\ pos'[v] = pos[v] /\ (Placeable(x)' => pos'[v] # pos'[x])
  PROVE  OneUnitPerTile'
BY DEF OneUnitPerTile

(* A refresh shows something wherever a unit is in view.                     *)
LEMMA RefreshCovers ==
  ASSUME NEW w, NEW p \in [Slot -> Tiles], NEW s, NEW v \in Slot,
         w[v] # NoOne, "hidden" \notin s[v]
  PROVE  RefreshedMap(w, p, s)[p[v]] # None
<1> DEFINE Here == {u \in Slot : w[u] # NoOne /\ "hidden" \notin s[u] /\ p[u] = p[v]}
<1>1. RefreshedMap(w, p, s)[p[v]] = IF Here = {} THEN None ELSE CHOOSE u \in Here : TRUE
  BY DEF RefreshedMap
<1>2. v \in Here OBVIOUS
<1>3. (CHOOSE u \in Here : TRUE) \in Here BY <1>2
<1> QED BY <1>1, <1>2, <1>3, SlotAssumption

(* So does one from which the unit that begins an action is taken off.       *)
LEMMA BegunCovers ==
  ASSUME IInv, OneUnitPerTile', strays' = {}, NEW u \in Slot, Placeable(u)',
         NEW s \in [Slot -> SUBSET Flag], NEW p \in [Slot -> Tiles],
         pos' = p, who' = who, BeginCanto(u, s, p, RefreshedMap(who, p, s)),
         \A v \in Slot : Shown(v)' => Placeable(v)'
  PROVE  Covers'
<1> SUFFICES ASSUME NEW v \in Slot, Shown(v)' PROVE unitMap'[pos'[v]] # None
  BY DEF Covers
<1>1. /\ state' = [s EXCEPT ![u] = @ \cup {"hidden"}]
      /\ unitMap' = [RefreshedMap(who, p, s) EXCEPT ![p[u]] = None]
  BY DEF BeginCanto
<1>2. who[v] # NoOne /\ "hidden" \notin state'[v] BY DEF Shown, Valid
<1>3. v # u /\ state'[v] = s[v] BY <1>1, <1>2
<1>4. p[v] # p[u] BY <1>3 DEF OneUnitPerTile
<1>5. RefreshedMap(who, p, s)[p[v]] # None BY <1>2, <1>3, RefreshCovers
<1> QED BY <1>1, <1>4, <1>5 DEF RefreshedMap

(* A unit that dies is not alive, a slot that is free again included.        *)
LEMMA DeadIsGone ==
  ASSUME IInv, NEW u \in Slot, Dies(u) PROVE ~Alive(u)'
<1> SUFFICES ASSUME who'[u] # NoOne PROVE "dead" \in state'[u]
  BY DEF Alive, Valid
<1>1. u \in BlueSlots BY DEF Dies, Vacated, IInv, TypeOK
<1>2. PICK s \in [Slot -> SUBSET Flag] : state' = Killed(s, u)
  <2>1. CASE "rescuing" \in state[u]
    <3>1. Dropped(state, u, rescue[u]) \in [Slot -> SUBSET Flag]
      BY DEF Dropped, IInv, TypeOK, Flag
    <3> QED BY <2>1, <3>1 DEF Dies
  <2>2. CASE "rescuing" \notin state[u] BY <2>2 DEF Dies, IInv, TypeOK
  <2> QED BY <2>1, <2>2
<1> QED BY <1>1, <1>2 DEF Killed

(* A death puts the carried unit on a tile that is free on the map and not   *)
(* the acting unit's, so on nobody's.                                        *)
LEMMA DeathStands ==
  ASSUME PInv, strays = {}, NEW u \in Slot, Placeable(u), Dies(u)
  PROVE  OneUnitPerTile' /\ Covers'
<1>0. None \notin Slot BY SlotAssumption
<1>1. ~Alive(u)' BY DeadIsGone DEF PInv
<1>2. \A v \in Slot : who'[v] # NoOne => who[v] # NoOne
  BY DEF Dies, Vacated, PInv, IInv, TypeOK
<1>3. CASE "rescuing" \in state[u]
  <2> DEFINE c == rescue[u]
  <2>1. PICK t \in Tiles : /\ t \in DeathDropTiles(u)
                           /\ pos' = [pos EXCEPT ![c] = t]
                           /\ state' = Killed(Dropped(state, u, c), u)
                           /\ unitMap' = RefreshedMap(who', pos', state')
    BY <1>3 DEF Dies, IsDeathDropLocation, RefreshEntityBmMaps
  <2>2. c \in Slot /\ c # u BY <1>3 DEF PInv, IInv, LinksAgree, Carries
  <2>3. pos' \in [Slot -> Tiles] /\ pos'[c] = t BY <2>1, <2>2 DEF PInv, IInv, TypeOK
  <2>4. ASSUME NEW v \in Slot \ {c}, Placeable(v)'
        PROVE Placeable(v) /\ pos'[v] = pos[v] /\ pos'[v] # t
    <3>1. v # u BY <1>1, <2>4 DEF Placeable
    <3>2. state'[v] = state[v] /\ pos'[v] = pos[v]
      BY <2>1, <2>2, <3>1 DEF Killed, Dropped, PInv, IInv, TypeOK
    <3>3. Placeable(v) BY <1>2, <2>4, <3>2 DEF Placeable, Alive, Valid
    <3>4. pos[v] # pos[u] BY <3>1, <3>3 DEF PInv, OneUnitPerTile
    <3> DEFINE m == [unitMap EXCEPT ![pos[active]] = active, ![pos[u]] = None]
    <3>5. m[pos[v]] # None
      <4>1. pos[v] \in Tiles /\ pos[u] \in Tiles /\ pos[active] \in Tiles
            /\ active \in Slot /\ unitMap \in [Tiles -> Slot \cup {None}]
        BY DEF PInv, IInv, TypeOK
      <4>2. v = active \/ unitMap[pos[v]] # None
        BY <3>3, PlaceableIsShown DEF PInv, Covers
      <4> QED BY <1>0, <3>4, <4>1, <4>2
    <3>6. m[t] = None BY <2>1 DEF DeathDropTiles
    <3> QED BY <3>2, <3>3, <3>5, <3>6
  <2>5. OneUnitPerTile' BY <2>2, <2>3, <2>4, OneNewcomer DEF PInv
  <2>6. ASSUME NEW v \in Slot, Shown(v)' PROVE unitMap'[pos'[v]] # None
    <3>1. unitMap' = RefreshedMap(who', pos', state') BY <2>1
    <3>2. RefreshedMap(who', pos', state')[pos'[v]] # None
      BY <2>3, <2>6, RefreshCovers DEF Shown, Valid
    <3> QED BY <3>1, <3>2
  <2> QED BY <2>5, <2>6 DEF Covers
<1>4. CASE "rescuing" \notin state[u]
  <2>1. state' = Killed(state, u) /\ UNCHANGED <<pos, unitMap>> BY <1>4 DEF Dies
  <2>2. \A v \in Slot \ {u} : state'[v] = state[v]
    BY <2>1 DEF Killed, PInv, IInv, TypeOK
  <2>3. \A v \in Slot : Placeable(v)' => v # u /\ Placeable(v) /\ pos'[v] = pos[v]
    BY <1>1, <1>2, <2>1, <2>2 DEF Placeable, Alive, Valid
  <2>4. ASSUME NEW v \in Slot, Shown(v)' PROVE unitMap'[pos'[v]] # None
    <3>1. CASE v = u
      <4>1. who'[u] # NoOne /\ u \in BlueSlots
        BY <2>4, <3>1 DEF Shown, Valid, Dies, Vacated, PInv, IInv, TypeOK
      <4> QED BY <2>1, <2>4, <3>1, <4>1 DEF Killed, Shown, PInv, IInv, TypeOK
    <3>2. CASE v # u
      <4>1. Shown(v) BY <1>2, <2>2, <2>4, <3>2 DEF Shown, Valid
      <4> QED BY <2>1, <4>1 DEF PInv, Covers
    <3> QED BY <3>1, <3>2
  <2> QED BY <2>3, <2>4 DEF PInv, OneUnitPerTile, Covers
<1> QED BY <1>3, <1>4

(* One step per action, in the order of Next.                                *)
LEMMA StandsKeep ==
  ASSUME PInv, IInv', Accounted', [Next]_vars
  PROVE  OneUnitPerTile' /\ Covers' /\ OriginIsFree'
<1>0. None \notin Slot BY SlotAssumption
<1> USE DEF PInv
<1> SUFFICES ASSUME strays = {}, strays' = {}
             PROVE  OneUnitPerTile' /\ Covers' /\ OriginIsFree'
  BY StraysGrow DEF OneUnitPerTile, Covers, OriginIsFree
<1>a. \A v \in Slot : Shown(v)' => Placeable(v)'
  BY DEF Shown, Placeable, Alive, IInv, DeadAreHidden, LinksAgree, Carries
<1>b. ASSUME unitMap' = RefreshedMap(who', pos', state') PROVE Covers'
  BY <1>b, RefreshCovers DEF Covers, Shown, Valid, IInv, TypeOK
<1>c. ASSUME \A v \in Slot : Placeable(v)' => Placeable(v) /\ pos'[v] = pos[v]
      PROVE OneUnitPerTile'
  BY <1>c DEF OneUnitPerTile
<1>1. ASSUME NEW t \in Tiles, SelectUnit(t)
      PROVE OneUnitPerTile' /\ Covers' /\ OriginIsFree'
  <2> DEFINE u == unitMap[t]
  <2>1. u \in Slot /\ Shown(u) /\ pos[u] = t
    BY <1>0, <1>1 DEF SelectUnit, IInv, MapInView, Choosing, Slot
  <2>2. /\ state' = [state EXCEPT ![u] = @ \cup {"hidden"}]
        /\ unitMap' = [unitMap EXCEPT ![t] = None]
        /\ UNCHANGED <<who, pos>> /\ active' = u /\ origin' = t /\ stage' = "select"
    BY <1>1, <2>1 DEF SelectUnit, BeginAction, BeginCanto
  <2>3. \A v \in Slot : /\ Placeable(v)' <=> Placeable(v)
                        /\ Shown(v)' => Shown(v) /\ v # u
    BY <2>1, <2>2 DEF Placeable, Alive, Valid, Shown, IInv, TypeOK
  <2>4. Placeable(u) BY <2>1, PlaceableIsShown
  <2>5. \A v \in Slot : Placeable(v) /\ v # u => pos[v] # t
    BY <2>1, <2>4 DEF OneUnitPerTile
  <2>6. Covers'
    BY <2>1, <2>2, <2>3, <2>5, PlaceableIsShown DEF Covers, IInv, TypeOK
  <2> QED BY <1>c, <2>2, <2>3, <2>5, <2>6 DEF OriginIsFree
<1>2. ASSUME NEW t \in Tiles, MoveTo(t)
      PROVE OneUnitPerTile' /\ Covers' /\ OriginIsFree'
  <2>1. /\ pos' = Placed(active, t) /\ unitMap[t] = None
        /\ UNCHANGED <<who, state, unitMap, active, origin>>
        /\ active \in Slot /\ Alive(active) /\ "rescued" \notin state[active]
        /\ "hidden" \in state[active] /\ stage = "select" /\ stage' = "menu"
    BY <1>2 DEF MoveTo, IInv, ActorIsFree, TypeOK
  <2>2. pos'[active] = t
        /\ \A v \in Slot : v # active /\ "rescued" \notin state[v] => pos'[v] = pos[v]
    BY <2>1, PlacedMoves DEF IInv
  <2>3. \A v \in Slot : (Placeable(v)' <=> Placeable(v)) /\ (Shown(v)' <=> Shown(v))
    BY <2>1 DEF Placeable, Alive, Valid, Shown
  <2>4. \A v \in Slot \ {active} : Placeable(v) => pos'[v] = pos[v] /\ pos[v] # t
    BY <2>1, <2>2, PlaceableIsShown DEF Placeable, Covers
  <2>5. OneUnitPerTile' BY <2>1, <2>2, <2>3, <2>4, OneNewcomer
  <2>6. Covers'
    BY <2>1, <2>3, <2>4, PlaceableIsShown DEF Covers, Shown
  <2> QED BY <2>1, <2>3, <2>4, <2>5, <2>6 DEF OriginIsFree
<1>3. ASSUME NEW t \in Tiles, Drop(t)
      PROVE OneUnitPerTile' /\ Covers' /\ OriginIsFree'
  <2> DEFINE c == rescue[active]
  <2>1. /\ state' = Dropped(state, active, c) /\ pos' = [pos EXCEPT ![c] = t]
        /\ who' = who /\ unitMap' = RefreshedMap(who', pos', state') /\ stage' = "act"
        /\ t \in Neighbours(pos[active]) /\ unitMap[t] = None
        /\ active \in Slot /\ "rescuing" \in state[active]
    BY <1>3 DEF Drop, DropTargets, RefreshEntityBmMaps, IInv, TypeOK
  <2>2. c \in Slot /\ c # active BY <2>1 DEF IInv, LinksAgree, Carries
  <2>3. pos'[c] = t BY <2>1, <2>2 DEF IInv, TypeOK
  <2>4. ASSUME NEW v \in Slot \ {c}, Placeable(v)'
        PROVE Placeable(v) /\ pos'[v] = pos[v] /\ pos'[v] # t
    <3>1. pos'[v] = pos[v] BY <2>1, <2>2 DEF IInv, TypeOK
    <3>2. CASE v = active
      <4>1. t # pos[active]
        <5>1. pos[active] \in Tiles BY <2>1 DEF IInv, TypeOK
        <5>2. PICK d \in Dirs : t = Towards(pos[active], d) BY <2>1 DEF Neighbours
        <5> QED BY <5>1, <5>2, SizeAssumption
              DEF Tiles, Towards, Dirs, Left, Right, Up, Down
      <4>2. Placeable(active)
        BY <1>3 DEF Drop, InMenu, IInv, ActorIsFree, Placeable
      <4> QED BY <3>1, <3>2, <4>1, <4>2
    <3>3. CASE v # active
      <4>1. state'[v] = state[v] BY <2>1, <3>3 DEF Dropped, IInv, TypeOK
      <4>2. Placeable(v) BY <2>1, <2>4, <4>1 DEF Placeable, Alive, Valid
      <4>3. unitMap[pos[v]] # None BY <3>3, <4>2, PlaceableIsShown DEF Covers
      <4> QED BY <2>1, <3>1, <4>2, <4>3
    <3> QED BY <3>2, <3>3
  <2>5. OneUnitPerTile' BY <2>2, <2>3, <2>4, OneNewcomer
  <2> QED BY <1>b, <2>1, <2>5 DEF OriginIsFree
<1>4. CASE CancelSelect
  <2>1. /\ state' = [state EXCEPT ![active] = @ \ {"hidden"}]
        /\ UNCHANGED <<who, pos>> /\ stage' = "idle"
        /\ unitMap' = RefreshedMap(who', pos', state')
    BY <1>4 DEF CancelSelect, RefreshEntityBmMaps
  <2>2. \A v \in Slot : Placeable(v)' => Placeable(v) /\ pos'[v] = pos[v]
    BY <2>1 DEF Placeable, Alive, Valid, IInv, TypeOK
  <2> QED BY <1>b, <1>c, <2>1, <2>2 DEF OriginIsFree
<1>5. CASE BackToMove
  <2> DEFINE s == [state EXCEPT ![active] = @ \ {"hidden"}]
             p == Placed(active, origin)
  <2>1. /\ pos' = p /\ stage = "menu" /\ who' = who /\ origin \in Tiles
        /\ BeginCanto(active, s, p, RefreshedMap(who, p, s))
        /\ active \in Slot /\ Placeable(active) /\ s \in [Slot -> SUBSET Flag]
    BY <1>5 DEF BackToMove, IInv, ActorIsFree, TypeOK, Placeable
  <2>2. /\ p \in [Slot -> Tiles] /\ p[active] = origin
        /\ \A v \in Slot : v # active /\ "rescued" \notin state[v] => p[v] = pos[v]
    BY <2>1, PlacedMoves DEF IInv, Placeable
  <2>3. /\ state' = [s EXCEPT ![active] = @ \cup {"hidden"}]
        /\ active' = active /\ origin' = origin
    BY <2>1, <2>2 DEF BeginCanto
  <2>4. \A v \in Slot : Placeable(v)' <=> Placeable(v)
    BY <2>1, <2>3 DEF Placeable, Alive, Valid, IInv, TypeOK
  <2>5. \A v \in Slot \ {active} : Placeable(v) => pos'[v] = pos[v] /\ pos[v] # origin
    BY <2>1, <2>2 DEF Placeable, OriginIsFree
  <2> HIDE DEF p, s
  <2>6. OneUnitPerTile' BY <2>1, <2>2, <2>4, <2>5, OneNewcomer
  <2>7. Covers' BY <1>a, <2>1, <2>2, <2>4, <2>6, BegunCovers
  <2> QED BY <2>3, <2>4, <2>5, <2>6, <2>7 DEF OriginIsFree
<1>6. CASE Wait("wait") \/ Wait("forceWait") \/ ComputerWaits
  <2>1. /\ UNCHANGED <<who, pos, unitMap>> /\ stage' = "act"
        /\ state' \in {state, [state EXCEPT ![subject] = @ \cup {"moved"}]}
    BY <1>6 DEF Wait, ComputerWaits, units
  <2>2. \A v \in Slot : state'[v] \cap {"rescued", "dead", "hidden"}
                          = state[v] \cap {"rescued", "dead", "hidden"}
    BY <2>1 DEF IInv, TypeOK
  <2>3. \A v \in Slot : (Placeable(v)' => Placeable(v)) /\ (Shown(v)' => Shown(v))
    BY <2>1, <2>2 DEF Placeable, Alive, Valid, Shown
  <2> QED BY <1>c, <2>1, <2>3 DEF Covers, OriginIsFree
<1>7. ASSUME NEW v \in Slot, Rescue(v)
      PROVE OneUnitPerTile' /\ Covers' /\ OriginIsFree'
  <2>1. /\ state' = Lifted(state, active, v) /\ pos' = [pos EXCEPT ![v] = pos[active]]
        /\ UNCHANGED <<who, unitMap>> /\ stage' = "act" /\ active \in Slot
    BY <1>7 DEF Rescue, IInv, TypeOK
  <2>2. {"rescued", "hidden"} \subseteq state'[v] BY <2>1 DEF Lifted, IInv, TypeOK
  <2>3. \A w \in Slot \ {v} : pos'[w] = pos[w] /\ state[w] \subseteq state'[w]
    BY <2>1 DEF Lifted, IInv, TypeOK
  <2>4. \A w \in Slot : Placeable(w)' => Placeable(w) /\ pos'[w] = pos[w]
    BY <2>1, <2>2, <2>3 DEF Placeable, Alive, Valid
  <2>5. \A w \in Slot : Shown(w)' => Shown(w) /\ pos'[w] = pos[w]
    BY <2>1, <2>2, <2>3 DEF Shown, Valid
  <2> QED BY <1>c, <2>1, <2>4, <2>5 DEF Covers, OriginIsFree
<1>8. ASSUME NEW v \in Slot, Take(v) \/ Give(v)
      PROVE OneUnitPerTile' /\ Covers' /\ OriginIsFree'
  <2>1. PICK from \in Slot, to \in Slot : Transfer(from, to)
    BY <1>8 DEF Take, Give, IInv, TypeOK
  <2> DEFINE c == rescue[from]
  <2>2. /\ state' = Lifted(Dropped(state, from, c), to, c)
        /\ pos' = [pos EXCEPT ![c] = pos[to]]
        /\ UNCHANGED <<who, unitMap, active, origin, stage>>
        /\ c \in Slot /\ c # from
        /\ "rescuing" \in state[from]
    BY <2>1 DEF Transfer, HandOver, IInv, LinksAgree, Carries, TypeOK
  <2>3. {"rescued", "hidden"} \subseteq state'[c]
    BY <2>1, <2>2 DEF Lifted, Dropped, IInv, TypeOK
  <2>4. "rescued" \notin state[from]
    BY <2>2 DEF IInv, LinksAgree, Carries
  <2>5. \A w \in Slot \ {c} : pos'[w] = pos[w]
                              /\ state[w] \subseteq state'[w] \cup {"rescuing"}
    BY <2>1, <2>2, <2>4 DEF Lifted, Dropped, IInv, TypeOK
  <2>6. \A w \in Slot : Placeable(w)' => Placeable(w) /\ pos'[w] = pos[w]
    BY <2>2, <2>3, <2>5 DEF Placeable, Alive, Valid
  <2>7. \A w \in Slot : Shown(w)' => Shown(w) /\ pos'[w] = pos[w]
    BY <2>2, <2>3, <2>5 DEF Shown, Valid
  <2> QED BY <1>c, <2>2, <2>6, <2>7 DEF Covers, OriginIsFree
<1>9. ASSUME NEW v \in Slot, NEW dead \in Slot \cup {None}, Combat(v, dead)
      PROVE OneUnitPerTile' /\ Covers' /\ OriginIsFree'
  <2>1. stage' = "act" BY <1>9 DEF Combat
  <2>2. CASE dead = None
    <3>1. UNCHANGED <<who, pos, state, unitMap>> BY <1>9, <2>2 DEF Combat, units
    <3> QED BY <1>c, <2>1, <3>1 DEF Placeable, Alive, Valid, Shown, Covers, OriginIsFree
  <2>3. CASE dead # None
    <3>1. /\ dead \in {active, v} /\ Dies(dead) /\ dead \in Slot
          /\ \E t \in Tiles : unitMap[t] = v
          /\ stage \in {"menu", "computer"}
      BY <1>9, <2>3 DEF Combat, InMenu
    <3>2. Placeable(active)
      BY <3>1 DEF IInv, ActorIsFree, Placeable
    <3>3. Shown(v)
      BY <1>0, <3>1 DEF IInv, MapInView, Choosing
    <3>4. Placeable(dead) BY <3>1, <3>2, <3>3, PlaceableIsShown
    <3> QED BY <2>1, <3>1, <3>4, DeathStands DEF OriginIsFree
  <2> QED BY <2>2, <2>3
<1>10. CASE Trap
  <2>1. active \in Slot /\ Placeable(active) /\ Dies(active) /\ stage' = "act"
    BY <1>10 DEF Trap, IInv, ActorIsFree, Placeable, TypeOK
  <2> QED BY <2>1, DeathStands DEF OriginIsFree
<1>11. ASSUME NEW u \in Slot, NEW v \in Slot, ChangeFaction(u, v)
       PROVE OneUnitPerTile' /\ Covers' /\ OriginIsFree'
  <2>1. /\ u # v /\ Placeable(u) /\ ~Valid(v) /\ stage' \in {"act", "turn"}
        /\ who' = [who EXCEPT ![v] = who[u], ![u] = NoOne]
        /\ pos' = [pos EXCEPT ![v] = pos[u], ![u] = Nowhere]
        /\ state' = [state EXCEPT ![v] = state[u], ![u] = {}]
        /\ unitMap' = unitMap
    BY <1>11 DEF ChangeFaction, Placeable
  <2>2. pos'[v] = pos[u] /\ state'[v] = state[u] /\ who'[v] = who[u] /\ who'[u] = NoOne
    BY <2>1 DEF IInv, TypeOK
  <2>3. \A w \in Slot \ {u, v} : pos'[w] = pos[w] /\ state'[w] = state[w] /\ who'[w] = who[w]
    BY <2>1 DEF IInv, TypeOK
  <2>4. \A w \in Slot \ {v} : Placeable(w)' =>
          Placeable(w) /\ pos'[w] = pos[w] /\ pos'[w] # pos'[v]
    <3> SUFFICES ASSUME NEW w \in Slot \ {v}, Placeable(w)'
                 PROVE Placeable(w) /\ pos'[w] = pos[w] /\ pos'[w] # pos'[v]
      OBVIOUS
    <3>1. w # u BY <2>2 DEF Placeable, Alive, Valid
    <3>2. Placeable(w) BY <2>3, <3>1 DEF Placeable, Alive, Valid
    <3> QED BY <2>1, <2>2, <2>3, <3>1, <3>2 DEF OneUnitPerTile
  <2>5. OneUnitPerTile' BY <2>4, OneNewcomer
  <2>6. ASSUME NEW w \in Slot, Shown(w)' PROVE unitMap'[pos'[w]] # None
    <3>1. w # u BY <2>2, <2>6 DEF Shown, Valid
    <3>2. CASE w = v
      <4>1. Shown(u) BY <2>1, <2>2, <2>6, <3>2 DEF Shown, Valid, Placeable, Alive
      <4> QED BY <2>1, <2>2, <3>2, <4>1 DEF Covers
    <3>3. CASE w # v
      <4>1. Shown(w) BY <2>3, <2>6, <3>1, <3>3 DEF Shown, Valid
      <4> QED BY <2>1, <2>3, <3>1, <3>3, <4>1 DEF Covers
    <3> QED BY <3>2, <3>3
  <2> QED BY <2>1, <2>5, <2>6 DEF Covers, OriginIsFree
<1>12. CASE FinishAction \/ ComputerFinishes
  <2>1. /\ active \in Slot /\ "rescued" \notin state[active] /\ pos[active] \in Tiles
        /\ pos' = Placed(active, pos[active]) /\ state' = Ended(active) /\ who' = who
        /\ unitMap' = RefreshedMap(who', pos', state') /\ stage' = "idle"
    <3>1. active \in Slot /\ "rescued" \notin state[active] /\ pos[active] \in Tiles
      BY <1>12 DEF FinishAction, ComputerFinishes, IInv, ActorIsFree, TypeOK
    <3>2. goal = pos[active] BY <1>12 DEF FinishAction, ComputerFinishes, AtGoal
    <3>3. CASE FinishAction BY <3>1, <3>2, <3>3 DEF FinishAction, RefreshEntityBmMaps
    <3>4. CASE ComputerFinishes
      <4>1. active = subject BY <3>4 DEF ComputerFinishes
      <4> QED BY <3>1, <3>2, <3>4, <4>1 DEF ComputerFinishes, RefreshEntityBmMaps
    <3> QED BY <1>12, <3>3, <3>4
  <2>2. \A v \in Slot : "rescued" \notin state[v] => pos'[v] = pos[v]
    BY <2>1, PlacedMoves DEF IInv
  <2>3. \A v \in Slot : state'[v] \cap {"rescued", "dead"} = state[v] \cap {"rescued", "dead"}
    BY <2>1 DEF Ended, IInv, TypeOK
  <2>4. \A v \in Slot : Placeable(v)' => Placeable(v) /\ pos'[v] = pos[v]
    BY <2>1, <2>2, <2>3 DEF Placeable, Alive, Valid
  <2> QED BY <1>b, <1>c, <2>1, <2>4 DEF OriginIsFree
<1>13. CASE FinishWithCanto
  <2> DEFINE e == Ended(active)
             s == [e EXCEPT ![active] = (@ \ {"unselectable"}) \cup {"moved"}]
             p == Placed(active, pos[active])
  <2>1. /\ active \in Slot /\ Placeable(active) /\ pos[active] \in Tiles
        /\ pos' = p /\ who' = who
        /\ BeginCanto(active, s, p, RefreshedMap(who, p, s))
    <3>1. pos[active] = goal BY <1>13 DEF FinishWithCanto, AtGoal
    <3> QED BY <1>13, <3>1 DEF FinishWithCanto, IInv, ActorIsFree, TypeOK, Placeable
  <2>2. /\ e \in [Slot -> SUBSET Flag]
        /\ \A v \in Slot : e[v] \cap {"rescued", "dead"} = state[v] \cap {"rescued", "dead"}
    BY <2>1 DEF Ended, IInv, TypeOK, Flag
  <2>3. /\ p \in [Slot -> Tiles] /\ p[active] = pos[active]
        /\ \A v \in Slot : v # active /\ "rescued" \notin state[v] => p[v] = pos[v]
    BY <2>1, PlacedMoves DEF IInv, Placeable
  <2> HIDE DEF e
  <2>4. /\ s \in [Slot -> SUBSET Flag]
        /\ \A v \in Slot : s[v] \cap {"rescued", "dead"} = state[v] \cap {"rescued", "dead"}
    BY <2>1, <2>2 DEF Flag
  <2> HIDE DEF s, p
  <2>5. /\ state' = [s EXCEPT ![active] = @ \cup {"hidden"}]
        /\ active' = active /\ origin' = p[active]
    BY <2>1 DEF BeginCanto
  <2>6. \A v \in Slot : state'[v] \cap {"rescued", "dead"} = state[v] \cap {"rescued", "dead"}
    BY <2>4, <2>5
  <2>7. ASSUME NEW v \in Slot
        PROVE  (Placeable(v)' <=> Placeable(v)) /\ (Placeable(v) => pos'[v] = pos[v])
    <3>1. /\ "rescued" \in state'[v] <=> "rescued" \in state[v]
          /\ "dead" \in state'[v] <=> "dead" \in state[v]
      BY <2>6
    <3>2. Placeable(v)' <=> Placeable(v) BY <2>1, <3>1 DEF Placeable, Alive, Valid
    <3>3. Placeable(v) => pos'[v] = pos[v] BY <2>1, <2>3 DEF Placeable
    <3> QED BY <3>2, <3>3
  <2>8. OneUnitPerTile' BY <1>c, <2>7
  <2>9. Covers' BY <1>a, <2>1, <2>3, <2>4, <2>7, <2>8, BegunCovers
  <2>10. \A v \in Slot : Placeable(v)' /\ v # active => pos'[v] # pos'[active]
    BY <2>1, <2>7, <2>8 DEF OneUnitPerTile
  <2> QED BY <2>1, <2>5, <2>8, <2>9, <2>10 DEF OriginIsFree
<1>14. ASSUME NEW u \in Slot, NEW t \in Tiles, ComputerMoves(u, t)
       PROVE OneUnitPerTile' /\ Covers' /\ OriginIsFree'
  <2>1. /\ Alive(u) /\ Placeable(u) /\ stage = "idle" /\ stage' = "computer"
        /\ unitMap[t] = None \/ t = pos[u]
        /\ state' = [state EXCEPT ![u] = @ \cup {"hidden"}]
        /\ unitMap' = [unitMap EXCEPT ![pos[u]] = None]
        /\ pos' = [pos EXCEPT ![u] = t] /\ who' = who
    BY <1>14 DEF ComputerMoves, BeginAction, BeginCanto, IInv, ListedAreFree, Placeable
  <2>2. pos'[u] = t BY <2>1 DEF IInv, TypeOK
  <2>3. \A v \in Slot : /\ Placeable(v)' <=> Placeable(v)
                        /\ Shown(v)' => Shown(v) /\ v # u
                        /\ v # u => pos'[v] = pos[v]
    BY <2>1 DEF Placeable, Alive, Valid, Shown, IInv, TypeOK
  <2>4. \A v \in Slot \ {u} : Placeable(v) => pos[v] # pos[u]
    BY <2>1 DEF OneUnitPerTile
  <2>5. ASSUME NEW v \in Slot \ {u}, Placeable(v) PROVE pos[v] # t
    <3>1. unitMap[pos[v]] # None
      BY <2>1, <2>5, PlaceableIsShown DEF Covers, Busy
    <3> QED BY <2>1, <2>4, <2>5, <3>1
  <2>6. OneUnitPerTile' BY <2>2, <2>3, <2>5, OneNewcomer
  <2>7. Covers'
    BY <2>1, <2>3, <2>4, PlaceableIsShown DEF Covers, IInv, TypeOK
  <2> QED BY <2>1, <2>6, <2>7 DEF OriginIsFree
<1>15. CASE ChangePhase
  <2>1. /\ UNCHANGED <<who, pos, unitMap>> /\ stage' = "turn"
        /\ \A v \in Slot : state'[v] \cap {"rescued", "dead", "hidden"}
                             = state[v] \cap {"rescued", "dead", "hidden"}
    BY <1>15 DEF ChangePhase, IInv, TypeOK
  <2>2. \A v \in Slot : (Placeable(v)' => Placeable(v)) /\ (Shown(v)' => Shown(v))
    BY <2>1 DEF Placeable, Alive, Valid, Shown
  <2> QED BY <1>c, <2>1, <2>2 DEF Covers, OriginIsFree
<1>16. CASE BeginPhase
  <2>1. /\ UNCHANGED <<who, pos, state>> /\ stage' = "idle"
        /\ unitMap' = RefreshedMap(who', pos', state')
    BY <1>16 DEF BeginPhase, units, RefreshEntityBmMaps
  <2> QED BY <1>b, <1>c, <2>1 DEF Placeable, Alive, Valid, OriginIsFree
<1>17. ASSUME NEW u \in Slot, Poison(u)
       PROVE OneUnitPerTile' /\ Covers' /\ OriginIsFree'
  <2>1. Placeable(u) /\ Dies(u) /\ stage' = "turn"
    BY <1>17 DEF Poison, Placeable
  <2> QED BY <2>1, DeathStands DEF OriginIsFree
<1>18. CASE UNCHANGED vars
  BY <1>c, <1>18 DEF vars, units, acting, Placeable, Alive, Valid, Shown, Covers, OriginIsFree
<1> QED BY <1>1, <1>2, <1>3, <1>4, <1>5, <1>6, <1>7, <1>8, <1>9, <1>10, <1>11, <1>12,
           <1>13, <1>14, <1>15, <1>16, <1>17, <1>18 DEF Next

(* An action ends where its unit is, until it has lost track of it: nothing  *)
(* moves the acting unit between its move and the end of its action.         *)
LEMMA GoalKeeps == ASSUME IInv, SubjectIsFree, AtGoal, [Next]_vars PROVE AtGoal'
<1> SUFFICES ASSUME strays = {}, strays' = {} PROVE AtGoal'
  BY StraysGrow DEF AtGoal
<1>0. None \notin Slot BY SlotAssumption
<1>1. ASSUME stage' \in {"menu", "computer", "act"}, stage \in {"menu", "computer", "act"},
             active' = active, goal' = goal, pos'[active] = pos[active]
      PROVE  AtGoal'
  BY <1>1 DEF AtGoal
<1>2. ASSUME NEW u \in Slot, Dies(u), stage \in {"menu", "computer", "act"}
      PROVE  pos'[active] = pos[active]
  <2>1. active \in Slot /\ "rescued" \notin state[active]
    BY <1>2 DEF IInv, ActorIsFree, TypeOK
  <2>2. "rescuing" \in state[u] => rescue[u] # active
    BY <1>2, <2>1 DEF IInv, LinksAgree, Carries
  <2> QED BY <1>2, <2>1, <2>2 DEF Dies, IInv, TypeOK
<1>3. ASSUME NEW t \in Tiles, MoveTo(t) PROVE AtGoal'
  <2>1. active \in Slot /\ "rescued" \notin state[active]
    BY <1>3 DEF MoveTo, IInv, ActorIsFree, TypeOK
  <2>2. Placed(active, t)[active] = t BY <2>1, PlacedMoves DEF IInv
  <2> QED BY <1>3, <2>2 DEF MoveTo, AtGoal
<1>4. ASSUME NEW t \in Tiles, Drop(t) PROVE AtGoal'
  <2>1. rescue[active] # active
    BY <1>4 DEF Drop, IInv, LinksAgree, Carries, TypeOK
  <2>2. pos'[active] = pos[active] BY <1>4, <2>1 DEF Drop, IInv, TypeOK
  <2> QED BY <1>1, <1>4, <2>2 DEF Drop, InMenu
<1>5. CASE Wait("wait") \/ Wait("forceWait")
  <2>1. subject = active BY <1>5 DEF Wait
  <2> QED BY <1>1, <1>5, <2>1 DEF Wait
<1>6. CASE ComputerWaits BY <1>1, <1>6 DEF ComputerWaits, units, acting
<1>7. ASSUME NEW v \in Slot, Rescue(v) PROVE AtGoal'
  <2>1. PICK t \in Tiles : unitMap[t] = v
    BY <1>7 DEF Rescue, RescueTargets, Beside, Neighbours
  <2>2. v # active
    BY <1>0, <1>7, <2>1 DEF Rescue, InMenu, IInv, ActorIsFree, MapInView, Choosing, Shown
  <2>3. pos'[active] = pos[active] BY <1>7, <2>2 DEF Rescue, IInv, TypeOK
  <2> QED BY <1>1, <1>7, <2>3 DEF Rescue, InMenu
<1>8. ASSUME NEW v \in Slot, Take(v) \/ Give(v) PROVE AtGoal'
  <2>1. PICK from \in Slot, to \in Slot : Transfer(from, to)
    BY <1>8 DEF Take, Give, IInv, TypeOK
  <2>2. rescue[from] # active
    BY <2>1 DEF Transfer, InMenu, IInv, ActorIsFree, LinksAgree, Carries, TypeOK
  <2>3. pos'[active] = pos[active] BY <2>1, <2>2 DEF Transfer, HandOver, IInv, TypeOK
  <2> QED BY <1>1, <2>1, <2>3 DEF Transfer, InMenu
<1>9. ASSUME NEW v \in Slot, NEW dead \in Slot \cup {None}, Combat(v, dead) PROVE AtGoal'
  <2>1. /\ UNCHANGED <<active, goal>> /\ stage' = "act"
        /\ stage \in {"menu", "computer"}
    BY <1>9 DEF Combat, InMenu
  <2>2. CASE dead = None BY <1>1, <1>9, <2>1, <2>2 DEF Combat, units
  <2>3. CASE dead # None
    <3>1. Dies(dead) /\ dead \in Slot BY <1>9, <2>3 DEF Combat
    <3>2. pos'[active] = pos[active] BY <1>2, <2>1, <3>1
    <3> QED BY <1>1, <2>1, <3>2
  <2> QED BY <2>2, <2>3
<1>10. CASE Trap
  <2>1. UNCHANGED <<active, goal, stage>> /\ stage = "act" /\ Dies(active) /\ active \in Slot
    BY <1>10 DEF Trap, IInv, TypeOK
  <2>2. pos'[active] = pos[active] BY <1>2, <2>1
  <2> QED BY <1>1, <2>1, <2>2
<1>11. ASSUME NEW u \in Slot, NEW v \in Slot, ChangeFaction(u, v) PROVE AtGoal'
  <2> SUFFICES ASSUME stage = "act" PROVE pos'[active'] = goal
    BY <1>11 DEF ChangeFaction, AtGoal
  <2>1. /\ v # active /\ Factions[u] # Factions[v]
        /\ active' = (IF active = u THEN v ELSE active)
        /\ pos' = [pos EXCEPT ![v] = pos[u], ![u] = Nowhere]
    BY <1>11 DEF ChangeFaction
  <2>2. pos'[active'] = pos[active] BY <2>1 DEF IInv, TypeOK
  <2> QED BY <2>2 DEF AtGoal
<1>12. ASSUME NEW u \in Slot, NEW t \in Tiles, ComputerMoves(u, t) PROVE AtGoal'
  BY <1>12 DEF ComputerMoves, BeginAction, BeginCanto, AtGoal, IInv, TypeOK
<1>13. CASE UNCHANGED vars BY <1>13 DEF vars, units, acting, AtGoal
<1> QED
  BY <1>3, <1>4, <1>5, <1>6, <1>7, <1>8, <1>9, <1>10, <1>11, <1>12, <1>13
     DEF Next, AtGoal, SelectUnit, CancelSelect, BackToMove, FinishAction, FinishWithCanto,
         ComputerFinishes, ChangePhase, BeginPhase, Poison

(* The strengthened invariant holds in every reachable state.                *)
LEMMA PInductive == Spec => []PInv
<1>1. Init => SubjectIsFree /\ Accounted /\ OneUnitPerTile /\ Covers /\ OriginIsFree /\ AtGoal
  <2> SUFFICES ASSUME Init
               PROVE SubjectIsFree /\ Accounted /\ OneUnitPerTile /\ Covers /\ OriginIsFree
                     /\ AtGoal
    OBVIOUS
  <2>1. /\ state = [u \in Slot |-> {}] /\ unitMap = RefreshedMap(who, pos, state)
        /\ pos \in [Slot -> Tiles] /\ stage = "idle"
        /\ \A u, v \in Slot : Valid(u) /\ Valid(v) /\ u # v => pos[u] # pos[v]
    BY DeploymentAssumption DEF Init, Valid
  <2>2. Covers BY <2>1, RefreshCovers DEF Covers, Shown, Valid
  <2> QED BY <2>1, <2>2 DEF SubjectIsFree, Accounted, Astray, OneUnitPerTile, Placeable,
                            Alive, OriginIsFree, AtGoal
<1>2. PInv /\ [Next]_vars => PInv'
  BY NextKeeps, SubjectKeeps, AccountedKeeps, StandsKeep, GoalKeeps DEF PInv
<1>3. Init => PInv BY <1>1, InitHolds DEF PInv
<1> QED BY <1>2, <1>3, PTL DEF Spec

(* No two units that are not carried share a tile, the acting one included,  *)
(* as long as no action has lost track of its unit.                          *)
THEOREM OneEachTile == Spec => []OneUnitPerTile
<1>1. PInv => OneUnitPerTile BY DEF PInv
<1> QED BY <1>1, PInductive, PTL

(* Where a choice is made from the unit map, what it shows is there and in   *)
(* view, and it shows every unit in view unless an action has lost track of  *)
(* its unit.                                                                 *)
THEOREM MapIsCurrent == Spec => []UnitMapIsCurrent
<1>1. PInv => UnitMapIsCurrent
  <2> SUFFICES ASSUME PInv, stage \in Choosing, NEW t \in Tiles, NEW u \in Slot
               PROVE /\ unitMap[t] = u => Shown(u) /\ pos[u] = t
                     /\ Shown(u) /\ pos[u] = t /\ strays = {} => unitMap[t] = u
    BY DEF UnitMapIsCurrent, Choosing
  <2>0. None \notin Slot BY SlotAssumption
  <2>1. unitMap[t] # None => unitMap[t] \in Slot /\ Shown(unitMap[t]) /\ pos[unitMap[t]] = t
    BY DEF PInv, IInv, MapInView, TypeOK
  <2>2. ASSUME Shown(u), pos[u] = t, strays = {} PROVE unitMap[t] = u
    <3>1. unitMap[t] # None BY <2>2 DEF PInv, Covers
    <3>2. Placeable(u) /\ Placeable(unitMap[t])
      BY <2>1, <2>2, <3>1, PlaceableIsShown DEF PInv
    <3> QED BY <2>1, <2>2, <3>1, <3>2 DEF PInv, OneUnitPerTile
  <2> QED BY <2>0, <2>1, <2>2
<1> QED BY <1>1, PInductive, PTL
----------------------------------------------------------------------------
(* CarriedWithCarrier, the step in which a carrier is ahead, and the units   *)
(* an action lost track of.                                                  *)
Apart(u) == u = active /\ side # "blue" /\ stage \in {"computer", "act"}

(* The two ends of a link.                                                   *)
LEMMA CarriersDiffer ==
  ASSUME IInv, NEW w \in Slot, "rescuing" \in state[w]
  PROVE  /\ rescue[w] \in Slot /\ rescue[w] # w /\ rescue[rescue[w]] = w
         /\ "rescued" \in state[rescue[w]] /\ "rescuing" \notin state[rescue[w]]
         /\ "rescued" \notin state[w] /\ Alive(rescue[w]) /\ Alive(w)
BY DEF IInv, LinksAgree, Carries

(* A unit is put somewhere together with the unit it carries.                *)
LEMMA PlacedTogether ==
  ASSUME IInv, CarriedWithCarrier, NEW x \in Slot, "rescued" \notin state[x],
         NEW t \in Tiles, pos' = Placed(x, t), rescue' = rescue,
         \A v \in Slot : "rescuing" \in state'[v] => "rescuing" \in state[v],
         strays \subseteq strays', \A v \in Slot : Apart(v) => v = x \/ v \in strays'
  PROVE  CarriedWithCarrier'
<1> SUFFICES ASSUME NEW w \in Slot, "rescuing" \in state[w], w \notin strays'
             PROVE pos'[rescue[w]] = pos'[w]
  BY DEF CarriedWithCarrier
<1>1. x \in Slot /\ pos \in [Slot -> Tiles] BY DEF IInv, TypeOK
<1>2. CASE w = x BY <1>1, <1>2, CarriersDiffer DEF Placed
<1>3. CASE w # x
  <2>1. pos[rescue[w]] = pos[w] BY <1>3 DEF CarriedWithCarrier, Apart
  <2>2. rescue[w] # x /\ "rescued" \notin state[w] /\ rescue[w] \in Slot
    BY CarriersDiffer
  <2>3. pos'[w] = pos[w] BY <1>1, <1>3, <2>2, PlacedMoves DEF IInv
  <2>4. "rescuing" \in state[x] => rescue[x] # rescue[w]
    BY <1>1, <1>3, CarriersDiffer
  <2>5. pos'[rescue[w]] = pos[rescue[w]] BY <1>1, <2>2, <2>4 DEF Placed
  <2> QED BY <2>1, <2>3, <2>5
<1> QED BY <1>2, <1>3

(* A death moves no unit that carries or goes on being carried.              *)
LEMMA DeathMovesNoPair ==
  ASSUME IInv, NEW u \in Slot, "rescued" \notin state[u], Dies(u),
         NEW w \in Slot, "rescuing" \in state'[w]
  PROVE  /\ "rescuing" \in state[w] /\ rescue'[w] = rescue[w]
         /\ pos'[w] = pos[w] /\ pos'[rescue[w]] = pos[rescue[w]]
<1>1. CASE "rescuing" \in state[u]
  <2> DEFINE c == rescue[u]
  <2>1. c \in Slot /\ c # u /\ rescue[c] = u BY <1>1, CarriersDiffer
  <2>2. PICK t \in Tiles : /\ pos' = [pos EXCEPT ![c] = t]
                           /\ state' = Killed(Dropped(state, u, c), u)
                           /\ rescue' = Unlinked(u, c)
    BY <1>1 DEF Dies
  <2>3. "rescuing" \notin Dropped(state, u, c)[u] /\ "rescuing" \notin Dropped(state, u, c)[c]
    BY <2>1 DEF Dropped, IInv, TypeOK
  <2>4. Dropped(state, u, c) \in [Slot -> SUBSET Flag]
    BY <2>1 DEF Dropped, IInv, TypeOK, Flag
  <2>5. w # u /\ w # c BY <2>1, <2>2, <2>3, <2>4 DEF Killed
  <2>6. state'[w] = state[w] /\ rescue'[w] = rescue[w] /\ pos'[w] = pos[w]
    BY <2>1, <2>2, <2>5 DEF Killed, Dropped, Unlinked, IInv, TypeOK
  <2>7. rescue[w] # c BY <2>1, <2>5, <2>6, CarriersDiffer
  <2>8. pos'[rescue[w]] = pos[rescue[w]]
    BY <2>2, <2>6, <2>7, CarriersDiffer DEF IInv, TypeOK
  <2> QED BY <2>6, <2>8
<1>2. CASE "rescuing" \notin state[u]
  <2>1. state' = Killed(state, u) /\ UNCHANGED <<pos, rescue>> BY <1>2 DEF Dies
  <2>2. "rescuing" \in state[w] BY <1>2, <2>1 DEF Killed, IInv, TypeOK
  <2> QED BY <2>1, <2>2
<1> QED BY <1>1, <1>2

(* One step per action, in the order of Next.                                *)
LEMMA TogetherKeeps ==
  ASSUME IInv, SubjectIsFree, CarriedWithCarrier, [Next]_vars PROVE CarriedWithCarrier'
<1>0. None \notin Slot BY SlotAssumption
<1> strays \subseteq strays' BY StraysGrow
<1>a. ASSUME UNCHANGED <<pos, rescue>>,
             \A v \in Slot : "rescuing" \in state'[v] => "rescuing" \in state[v],
             \A v \in Slot : Apart(v) => Apart(v)'
      PROVE CarriedWithCarrier'
  BY <1>a DEF CarriedWithCarrier, Apart
<1>b. stage \in {"idle", "select", "menu", "turn"}
        => \A w \in Slot : "rescuing" \in state[w] /\ w \notin strays => pos[rescue[w]] = pos[w]
  BY DEF CarriedWithCarrier
<1>1. ASSUME NEW t \in Tiles, SelectUnit(t) PROVE CarriedWithCarrier'
  <2>1. unitMap[t] \in Slot BY <1>1 DEF SelectUnit, Slot
  <2> QED BY <1>a, <1>1, <2>1 DEF SelectUnit, BeginAction, BeginCanto, Apart, IInv, TypeOK
<1>2. ASSUME NEW t \in Tiles, MoveTo(t) PROVE CarriedWithCarrier'
  BY <1>2, PlacedTogether DEF MoveTo, IInv, ActorIsFree, Apart, TypeOK
<1>3. ASSUME NEW t \in Tiles, Drop(t) PROVE CarriedWithCarrier'
  <2> DEFINE c == rescue[active]
  <2>1. /\ state' = Dropped(state, active, c) /\ pos' = [pos EXCEPT ![c] = t]
        /\ rescue' = Unlinked(active, c)
        /\ active \in Slot /\ "rescuing" \in state[active] /\ stage = "menu"
    BY <1>3 DEF Drop, InMenu, IInv, TypeOK
  <2>2. c \in Slot /\ c # active /\ rescue[c] = active BY <2>1, CarriersDiffer
  <2>3. ASSUME NEW w \in Slot, "rescuing" \in state'[w], w \notin strays
        PROVE  pos'[rescue'[w]] = pos'[w]
    <3>1. w # active /\ w # c BY <2>1, <2>2, <2>3 DEF Dropped, IInv, TypeOK
    <3>2. state'[w] = state[w] /\ rescue'[w] = rescue[w] /\ pos'[w] = pos[w]
      BY <2>1, <2>2, <3>1 DEF Dropped, Unlinked, IInv, TypeOK
    <3>3. rescue[w] # c /\ rescue[w] \in Slot BY <2>2, <2>3, <3>1, <3>2, CarriersDiffer
    <3>4. pos'[rescue[w]] = pos[rescue[w]] BY <2>1, <3>3 DEF IInv, TypeOK
    <3> QED BY <1>b, <2>1, <2>3, <3>2, <3>4
  <2> QED BY <2>3 DEF CarriedWithCarrier
<1>4. CASE CancelSelect
  BY <1>a, <1>4 DEF CancelSelect, Apart, IInv, TypeOK
<1>5. CASE BackToMove
  <2> DEFINE s == [state EXCEPT ![active] = @ \ {"hidden"}]
  <2>1. /\ pos' = Placed(active, origin) /\ rescue' = rescue /\ origin \in Tiles
        /\ state' = [s EXCEPT ![active] = @ \cup {"hidden"}]
        /\ "rescued" \notin state[active] /\ active \in Slot /\ ~Apart(active)
    BY <1>5 DEF BackToMove, BeginCanto, IInv, ActorIsFree, TypeOK, Apart
  <2>2. \A v \in Slot : "rescuing" \in state'[v] => "rescuing" \in state[v]
    BY <2>1 DEF IInv, TypeOK
  <2> QED BY <2>1, <2>2, PlacedTogether DEF Apart
<1>6. CASE Wait("wait") \/ Wait("forceWait")
  <2>1. /\ UNCHANGED <<pos, rescue>> /\ stage = "menu"
        /\ state' \in {state, [state EXCEPT ![subject] = @ \cup {"moved"}]}
    BY <1>6 DEF Wait
  <2>2. \A v \in Slot : "rescuing" \in state'[v] => "rescuing" \in state[v]
    BY <2>1 DEF IInv, TypeOK
  <2> QED BY <1>a, <2>1, <2>2 DEF Apart
<1>19. CASE ComputerWaits BY <1>a, <1>19 DEF ComputerWaits, units, acting, Apart
<1>7. ASSUME NEW v \in Slot, Rescue(v) PROVE CarriedWithCarrier'
  <2>1. /\ state' = Lifted(state, active, v) /\ rescue' = Linked(active, v)
        /\ pos' = [pos EXCEPT ![v] = pos[active]]
        /\ active \in Slot /\ stage = "menu"
        /\ "rescuing" \notin state[v] /\ "rescued" \notin state[v]
        /\ "rescued" \notin state[active] /\ "hidden" \in state[active]
        /\ \E t \in Tiles : unitMap[t] = v
    BY <1>7 DEF Rescue, InMenu, RescueTargets, Beside, Neighbours, IInv, ActorIsFree, TypeOK
  <2>2. v # active
    <3>1. Shown(v) BY <1>0, <2>1 DEF IInv, MapInView, Choosing
    <3> QED BY <2>1, <3>1 DEF Shown
  <2>3. ASSUME NEW w \in Slot, "rescuing" \in state'[w], w \notin strays
        PROVE  pos'[rescue'[w]] = pos'[w]
    <3>1. w # v BY <2>1, <2>2, <2>3 DEF Lifted, IInv, TypeOK
    <3>2. CASE w = active BY <2>1, <2>2, <3>2 DEF Linked, IInv, TypeOK
    <3>3. CASE w # active
      <4>1. state'[w] = state[w] /\ rescue'[w] = rescue[w] /\ pos'[w] = pos[w]
        BY <2>1, <3>1, <3>3 DEF Lifted, Linked, IInv, TypeOK
      <4>2. rescue[w] # v /\ rescue[w] \in Slot BY <2>1, <2>3, <4>1, CarriersDiffer
      <4>3. pos'[rescue[w]] = pos[rescue[w]] BY <2>1, <4>2 DEF IInv, TypeOK
      <4> QED BY <1>b, <2>1, <2>3, <4>1, <4>3
    <3> QED BY <3>2, <3>3
  <2> QED BY <2>3 DEF CarriedWithCarrier
<1>8. ASSUME NEW v \in Slot, Take(v) \/ Give(v) PROVE CarriedWithCarrier'
  <2>1. PICK from \in Slot, to \in Slot :
          Transfer(from, to) /\ {from, to} = {active, v}
    BY <1>8 DEF Take, Give, IInv, TypeOK
  <2> DEFINE c == rescue[from]
  <2>2. /\ state' = Lifted(Dropped(state, from, c), to, c)
        /\ pos' = [pos EXCEPT ![c] = pos[to]]
        /\ rescue' = [rescue EXCEPT ![from] = None, ![to] = c, ![c] = to]
        /\ "rescuing" \in state[from] /\ "rescuing" \notin state[to] /\ stage = "menu"
    BY <2>1 DEF Transfer, HandOver, InMenu
  <2>3. c \in Slot /\ c # from /\ rescue[c] = from /\ "rescuing" \notin state[c]
        /\ "rescued" \in state[c] /\ "hidden" \in state[c]
    BY <2>2, CarriersDiffer DEF IInv, LinksAgree, Carries
  <2>4. c # to
    <3>1. PICK t \in Tiles : unitMap[t] = v /\ v # None
      BY <1>0, <1>8 DEF Take, Give, Beside, Neighbours
    <3>2. "hidden" \notin state[v] BY <2>2, <3>1 DEF IInv, MapInView, Choosing, Shown
    <3>3. "rescued" \notin state[active] BY <2>2 DEF IInv, ActorIsFree
    <3> QED BY <2>1, <2>3, <3>2, <3>3
  <2>5. ASSUME NEW w \in Slot, "rescuing" \in state'[w], w \notin strays
        PROVE  pos'[rescue'[w]] = pos'[w]
    <3>1. w # c /\ w # from
      BY <2>2, <2>3, <2>4, <2>5 DEF Lifted, Dropped, IInv, TypeOK
    <3>2. CASE w = to BY <2>2, <2>3, <2>4, <3>1, <3>2 DEF IInv, TypeOK
    <3>3. CASE w # to
      <4>1. state'[w] = state[w] /\ rescue'[w] = rescue[w] /\ pos'[w] = pos[w]
        BY <2>2, <2>3, <3>1, <3>3 DEF Lifted, Dropped, IInv, TypeOK
      <4>2. rescue[w] # c /\ rescue[w] \in Slot BY <2>3, <2>5, <3>1, <4>1, CarriersDiffer
      <4>3. pos'[rescue[w]] = pos[rescue[w]] BY <2>2, <4>2 DEF IInv, TypeOK
      <4> QED BY <1>b, <2>2, <2>5, <4>1, <4>3
    <3> QED BY <3>2, <3>3
  <2> QED BY <2>5 DEF CarriedWithCarrier
<1>9. ASSUME NEW v \in Slot, NEW dead \in Slot \cup {None}, Combat(v, dead)
      PROVE CarriedWithCarrier'
  <2>1. /\ UNCHANGED <<active, side>> /\ stage' = "act"
        /\ dead \in {None, active, v} /\ stage \in {"menu", "computer"}
        /\ \E t \in Tiles : unitMap[t] = v
    BY <1>9 DEF Combat, InMenu
  <2>2. CASE dead = None
    BY <1>a, <1>9, <2>1, <2>2 DEF Combat, units, Apart
  <2>3. CASE dead # None
    <3>1. Dies(dead) /\ dead \in Slot BY <1>9, <2>3 DEF Combat
    <3>2. "rescued" \notin state[dead]
      <4>1. Shown(v) BY <1>0, <2>1 DEF IInv, MapInView, Choosing
      <4>2. "rescued" \notin state[v] BY <4>1 DEF Shown, IInv, LinksAgree, Carries
      <4> QED BY <2>1, <2>3, <4>2 DEF IInv, ActorIsFree
    <3> QED BY <2>1, <3>1, <3>2, DeathMovesNoPair DEF CarriedWithCarrier
  <2> QED BY <2>2, <2>3
<1>10. CASE Trap
  <2>1. /\ UNCHANGED <<active, side, stage>> /\ Dies(active) /\ active \in Slot
        /\ "rescued" \notin state[active]
    BY <1>10 DEF Trap, IInv, ActorIsFree, TypeOK
  <2> QED BY <2>1, DeathMovesNoPair DEF CarriedWithCarrier
<1>11. ASSUME NEW u \in Slot, NEW v \in Slot, ChangeFaction(u, v) PROVE CarriedWithCarrier'
  <2>1. /\ u # v /\ "rescued" \notin state[u] /\ ~Valid(v)
        /\ pos' = [pos EXCEPT ![v] = pos[u], ![u] = Nowhere]
        /\ state' = [state EXCEPT ![v] = state[u], ![u] = {}]
        /\ rescue' = Relinked(u, v)
        /\ active' = (IF active = u THEN v ELSE active) /\ UNCHANGED <<side, stage>>
        /\ u \in strays => v \in strays'
    BY <1>11 DEF ChangeFaction
  <2>2. ASSUME NEW w \in Slot, "rescuing" \in state'[w], w \notin strays'
        PROVE  pos'[rescue'[w]] = pos'[w] \/ Apart(w)'
    <3>1. w # u BY <2>1, <2>2 DEF IInv, TypeOK
    <3>2. CASE w = v
      <4>1. "rescuing" \in state[u] BY <2>1, <2>2, <3>2 DEF IInv, TypeOK
      <4>2. rescue[u] \in Slot /\ rescue[u] # u /\ rescue[u] # v
        BY <2>1, <4>1, CarriersDiffer DEF Alive
      <4>3. rescue'[v] = rescue[u]
        BY <1>0, <2>1, <4>2 DEF Relinked, IInv, TypeOK
      <4>4. pos'[rescue[u]] = pos[rescue[u]] /\ pos'[v] = pos[u]
        BY <2>1, <4>2 DEF IInv, TypeOK
      <4>5. pos[rescue[u]] = pos[u] \/ Apart(u)
        BY <2>1, <2>2, <3>2, <4>1 DEF CarriedWithCarrier, Apart
      <4> QED BY <2>1, <3>2, <4>3, <4>4, <4>5 DEF Apart
    <3>3. CASE w # v
      <4>1. state'[w] = state[w] /\ pos'[w] = pos[w]
        BY <2>1, <3>1, <3>3 DEF IInv, TypeOK
      <4>2. rescue[w] \in Slot /\ rescue[w] # u /\ rescue[w] # v
        BY <2>1, <2>2, <4>1, CarriersDiffer DEF Alive
      <4>3. w # rescue[u]
        <5>1. rescue[u] = None \/ Carries(u, rescue[u])
          BY <2>1 DEF IInv, LinksAgree, Carries
        <5> QED BY <1>0, <2>2, <4>1, <5>1 DEF Carries
      <4>4. rescue'[w] = rescue[w]
        BY <2>1, <3>1, <3>3, <4>3 DEF Relinked, IInv, TypeOK
      <4>5. pos'[rescue[w]] = pos[rescue[w]] BY <2>1, <4>2 DEF IInv, TypeOK
      <4>6. pos[rescue[w]] = pos[w] \/ Apart(w)
        BY <2>2, <4>1 DEF CarriedWithCarrier, Apart
      <4> QED BY <2>1, <3>1, <4>1, <4>4, <4>5, <4>6 DEF Apart
    <3> QED BY <3>2, <3>3
  <2> QED BY <2>2 DEF CarriedWithCarrier, Apart
<1>12. CASE FinishAction \/ ComputerFinishes
  <2>1. PICK x \in Slot : /\ state' = Ended(x) /\ pos' = Placed(x, goal)
                          /\ "rescued" \notin state[x]
                          /\ \A v \in Slot : Apart(v) => v = x \/ v \in strays'
    <3>1. CASE FinishAction
      BY <3>1 DEF FinishAction, IInv, ActorIsFree, TypeOK, Apart
    <3>2. CASE ComputerFinishes
      BY <3>2 DEF ComputerFinishes, SubjectIsFree, Apart
    <3> QED BY <1>12, <3>1, <3>2
  <2>2. rescue' = rescue /\ goal \in Tiles
    BY <1>12 DEF FinishAction, ComputerFinishes, IInv, TypeOK
  <2>3. \A v \in Slot : "rescuing" \in state'[v] => "rescuing" \in state[v]
    BY <2>1 DEF Ended, IInv, TypeOK
  <2> QED BY <2>1, <2>2, <2>3, PlacedTogether
<1>13. CASE FinishWithCanto
  <2> DEFINE e == Ended(active)
             s == [e EXCEPT ![active] = (@ \ {"unselectable"}) \cup {"moved"}]
  <2>1. /\ pos' = Placed(active, goal) /\ rescue' = rescue /\ goal \in Tiles
        /\ "rescued" \notin state[active] /\ active \in Slot /\ side = "blue"
        /\ state' = [s EXCEPT ![active] = @ \cup {"hidden"}]
    BY <1>13 DEF FinishWithCanto, BeginCanto, IInv, ActorIsFree, TypeOK
  <2>2. /\ e \in [Slot -> SUBSET Flag]
        /\ \A v \in Slot : "rescuing" \in e[v] => "rescuing" \in state[v]
    BY DEF Ended, IInv, TypeOK, Flag
  <2> HIDE DEF e
  <2>3. \A v \in Slot : "rescuing" \in state'[v] => "rescuing" \in e[v]
    BY <2>1, <2>2
  <2> QED BY <2>1, <2>2, <2>3, PlacedTogether DEF Apart
<1>14. ASSUME NEW u \in Slot, NEW t \in Tiles, ComputerMoves(u, t) PROVE CarriedWithCarrier'
  <2>1. /\ "rescued" \notin state[u] /\ stage = "idle" /\ stage' = "computer"
        /\ side # "blue" /\ side' = side /\ active' = u /\ rescue' = rescue
        /\ state' = [state EXCEPT ![u] = @ \cup {"hidden"}]
        /\ pos' = [pos EXCEPT ![u] = t]
    BY <1>14 DEF ComputerMoves, BeginAction, BeginCanto, IInv, ListedAreFree
  <2>2. ASSUME NEW w \in Slot \ {u}, "rescuing" \in state'[w], w \notin strays
        PROVE  pos'[rescue'[w]] = pos'[w]
    <3>1. "rescuing" \in state[w] BY <2>1, <2>2 DEF IInv, TypeOK
    <3>2. rescue[w] # u /\ rescue[w] \in Slot BY <2>1, <3>1, CarriersDiffer
    <3> QED BY <1>b, <2>1, <2>2, <3>1, <3>2 DEF IInv, TypeOK
  <2> QED BY <2>1, <2>2 DEF CarriedWithCarrier
<1>15. CASE ChangePhase
  BY <1>a, <1>15 DEF ChangePhase, Apart, IInv, TypeOK
<1>16. CASE BeginPhase
  BY <1>a, <1>16 DEF BeginPhase, units, Apart
<1>17. ASSUME NEW u \in Slot, Poison(u) PROVE CarriedWithCarrier'
  <2>1. Dies(u) /\ "rescued" \notin state[u] /\ stage = "turn" BY <1>17 DEF Poison
  <2> QED BY <1>b, <2>1, DeathMovesNoPair DEF CarriedWithCarrier
<1>18. CASE UNCHANGED vars
  BY <1>a, <1>18 DEF vars, units, acting, Apart
<1> QED BY <1>1, <1>2, <1>3, <1>4, <1>5, <1>6, <1>7, <1>8, <1>9, <1>10, <1>11, <1>12,
           <1>13, <1>14, <1>15, <1>16, <1>17, <1>18, <1>19 DEF Next

(* The carried unit is where its carrier is, but for the carrier the         *)
(* computer is acting with, and for one that changed sides in its own action *)
(* and was left behind in its new slot (cp_perform.c:187).                   *)
THEOREM CarriedTogether == Spec => []CarriedWithCarrier
<1>1. Init => CarriedWithCarrier BY DEF Init, CarriedWithCarrier
<1>2. IInv /\ SubjectIsFree /\ CarriedWithCarrier /\ [Next]_vars => CarriedWithCarrier'
  BY TogetherKeeps
<1> QED BY <1>1, <1>2, Inductive, PTL DEF Spec

(* A unit that has taken or given stays where it is.                         *)
THEOREM TakersStay == Spec => StaysAfterTransfer
<1>1. ASSUME IInv, [Next]_vars, taken, stage = "menu"
      PROVE pos'[active] = pos[active] /\ stage' # "select"
  <2>0. None \notin Slot BY SlotAssumption
  <2>1. /\ active \in Slot /\ "rescued" \notin state[active]
        /\ "hidden" \in state[active]
    BY <1>1 DEF IInv, ActorIsFree, TypeOK
  <2>2. ASSUME NEW t \in Tiles, Drop(t) PROVE pos'[active] = pos[active] /\ stage' # "select"
    <3>1. rescue[active] # active BY <1>1, <2>1, <2>2, CarriersDiffer DEF Drop
    <3> QED BY <2>2, <2>1, <3>1, <1>1 DEF Drop, IInv, TypeOK
  <2>3. ASSUME NEW v \in Slot, Rescue(v) PROVE pos'[active] = pos[active] /\ stage' # "select"
    <3>1. PICK t \in Tiles : unitMap[t] = v
      BY <2>3 DEF Rescue, RescueTargets, Beside, Neighbours
    <3>2. v # active BY <1>1, <2>0, <2>1, <3>1 DEF IInv, MapInView, Choosing, Shown
    <3> QED BY <1>1, <2>1, <2>3, <3>2 DEF Rescue, IInv, TypeOK
  <2>4. ASSUME NEW v \in Slot, NEW dead \in Slot \cup {None}, Combat(v, dead)
        PROVE pos'[active] = pos[active] /\ stage' # "select"
    <3>1. stage' = "act" /\ dead \in {None, active, v} BY <2>4 DEF Combat
    <3>2. CASE dead = None BY <2>4, <3>1, <3>2 DEF Combat, units
    <3>3. CASE dead # None
      <4>1. Dies(dead) /\ dead \in Slot BY <2>4, <3>3 DEF Combat
      <4>2. "rescuing" \in state[dead] => rescue[dead] # active
        BY <1>1, <2>1, <4>1, CarriersDiffer
      <4>3. pos'[active] = pos[active] BY <1>1, <2>1, <4>1, <4>2 DEF Dies, IInv, TypeOK
      <4> QED BY <3>1, <4>3
    <3> QED BY <3>2, <3>3
  <2>5. CASE Wait("wait") \/ Wait("forceWait") BY <2>5 DEF Wait, units
  <2>6. CASE UNCHANGED vars BY <1>1, <2>6 DEF vars, units
  <2> QED
    BY <1>1, <2>2, <2>3, <2>4, <2>5, <2>6
       DEF Next, SelectUnit, MoveTo, CancelSelect, BackToMove, CanTakeBack, Take, Give,
           Transfer, Trap, ChangeFaction, FinishAction, FinishWithCanto, ComputerMoves,
           ComputerFinishes, ComputerWaits, ChangePhase, BeginPhase, Poison
<1>2. IInv /\ [Next]_vars
        => [taken /\ stage = "menu" => pos'[active] = pos[active] /\ stage' # "select"]_vars
  BY <1>1
<1> QED BY <1>2, Inductive, PTL DEF Spec, StaysAfterTransfer
====
