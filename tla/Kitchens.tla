------------------------------ MODULE Kitchens ------------------------------
(***************************************************************************)
(* src/src/settings/restaurants.service.ts, the switches of                *)
(* src/src/settings/settings.service.ts, the routing of a customer to a    *)
(* house (restaurant-router and restaurant-scope services) and the choice  *)
(* of the kitchen (src/src/orders/kitchen-selector.service.ts).  Every     *)
(* house has coordinates; fees and minimums are left out.                  *)
(***************************************************************************)
EXTENDS Menu

(***************************************************************************)
(* Houses                                                                  *)
(***************************************************************************)
besides == <<menuTables, line, selfTables, pageTables, written>>

\* The owner's writes: committed, then the router forgets its list.
CreateHouse(q, h) ==
  /\ house[h].state = "none"
  /\ \A older \in Houses : older < h => house[older].state # "none"
  /\ Begin(q, "createHouse", [step |-> "forget"])
  /\ house' = [house EXCEPT ![h] = [state |-> "live", active |-> TRUE, open |-> TRUE,
                                    modes |-> {"DELIVERY", "PICKUP"}]]
  /\ UNCHANGED besides

UpdateHouse(q, h, active, open) ==
  /\ live(house[h])
  /\ Begin(q, "updateHouse", [step |-> "forget"])
  /\ house' = [house EXCEPT ![h].active = active, ![h].open = open]
  /\ UNCHANGED besides

\* The manager's switches.
UpdateSettings(q, h, open, modes) ==
  /\ house[h].state # "none"
  /\ Begin(q, "updateSettings", Idle)
  /\ house' = [house EXCEPT ![h].open = open, ![h].modes = modes]
  /\ UNCHANGED besides

\* Never the last one open to the public.
CloseHouse(q, h) ==
  /\ live(house[h]) /\ Cardinality(serving) > 1
  /\ Begin(q, "closeHouse", [step |-> "closeHouse", house |-> h])
  /\ UNCHANGED <<house, besides>>

CloseHouseTx(q) ==
  /\ At(q, "closeHouse")
  /\ house' = [house EXCEPT ![desk[q].house].state = "closed", ![desk[q].house].active = FALSE]
  /\ GoOn(q, [step |-> "forget"])
  /\ UNCHANGED besides

Forget(q) ==
  /\ At(q, "forget")
  /\ memo' = [held |-> FALSE, houses |-> {}]
  /\ Finish(q)
  /\ UNCHANGED <<house, menuTables, line, selfTables, page, written>>

(***************************************************************************)
(* Which house serves a customer                                           *)
(***************************************************************************)
distance(p, h) == IF p < Position[h] THEN Position[h] - p ELSE p - Position[h]

\* The older one when two are as far.
closer(p, g, h) == \/ distance(p, g) < distance(p, h)
                   \/ distance(p, g) = distance(p, h) /\ g < h

nearestTo(p, houses) == CHOOSE h \in houses : \A g \in houses \ {h} : closer(p, h, g)

\* The first house ever opened: closing it changes nothing.
oldest == CHOOSE h \in Houses : /\ house[h].state # "none"
                                /\ \A g \in Houses : house[g].state # "none" => h <= g

\* A default address that has a point, or the one touched last: any of them.
foremost(c) ==
  LET located == {a \in booked(c) : address[a].place # Nothing}
      default == {a \in located : address[a].default}
  IN IF default # {} THEN default ELSE located

\* Where the application says the customer is, then his book, then the oldest.
servedBy(c, position) ==
  IF openHouses # {} /\ position # Nothing THEN {nearestTo(position, openHouses)}
  ELSE IF openHouses # {} /\ foremost(c) # {}
    THEN {nearestTo(address[a].place, openHouses) : a \in foremost(c)}
  ELSE {oldest}

(***************************************************************************)
(* Which kitchen prepares                                                  *)
(***************************************************************************)
missing(h, wanted) == {d \in wanted : h \in dish[d].soldOut}

canTake(h, mode) == house[h].open /\ mode \in house[h].modes

\* Mutant: the next house is taken as it is.
chooseNext(nearest, position, wanted, mode) ==
  LET point == IF position = Nothing THEN Position[nearest] ELSE position
      able  == {h \in openHouses \ {nearest} : serves(h) /\ canTake(h, mode)}
  IN IF missing(nearest, wanted) = {} THEN [ok |-> TRUE, kitchen |-> nearest, soldOut |-> {}]
     ELSE IF able # {} THEN [ok |-> TRUE, kitchen |-> nearestTo(point, able), soldOut |-> {}]
     ELSE [ok |-> FALSE, kitchen |-> nearest, soldOut |-> missing(nearest, wanted)]

\* The nearest, unless it lacks a dish: then the next that has them all, is
\* open and serves that way; else the nearest again, with what it lacks.
choose(nearest, position, wanted, mode) ==
  LET point == IF position = Nothing THEN Position[nearest] ELSE position
      able  == {h \in openHouses \ {nearest} :
                  missing(h, wanted) = {} /\ serves(h) /\ canTake(h, mode)}
  IN IF missing(nearest, wanted) = {} THEN [ok |-> TRUE, kitchen |-> nearest, soldOut |-> {}]
     ELSE IF able # {} THEN [ok |-> TRUE, kitchen |-> nearestTo(point, able), soldOut |-> {}]
     ELSE [ok |-> FALSE, kitchen |-> nearest, soldOut |-> missing(nearest, wanted)]
=============================================================================
