----------------------------- MODULE EstateLocation -----------------------------
(***************************************************************************)
(* Where visitors are sent: the estate's pin and main gate                 *)
(* (estate-location.service.ts) and the editor that sets them              *)
(* (LocationEditor.tsx, device-location.ts).  Points lie on a line; a      *)
(* reading of the device's position comes with its own error in metres.    *)
(* The editor waits for three things at once: its own load, a position,    *)
(* and a route to the gate.                                                *)
(***************************************************************************)
EXTENDS Integers, FiniteSets

CONSTANTS
    Points,             \* where a pin may be put
    Accuracies,         \* errors a reading may have
    Unset,              \* no pin
    MaxGateDistance     \* MAX_GATE_DISTANCE_M

ASSUME LocationAssumption == /\ Points \subseteq Int /\ Accuracies \subseteq Nat
                             /\ Unset \notin Points
                             /\ MaxGateDistance \in Nat

MAX_ACCURACY_GATE_M == 50
MAX_ACCURACY_ESTATE_M == 150
GoodEnough == 20        \* goodEnoughM

VARIABLES
    estate,         \* the estate's row
    editor,         \* the editor's pins, and the gate its route leads to
    loading,        \* the editor's own load
    locating,       \* the pin a position is awaited for, and the readings so far
    routing,        \* the gate a route is being looked up for
    saving,         \* the pins a save is under way with
    outdated        \* the route on the screen was asked for another gate

locationVars == <<estate, editor, loading, locating, routing, saving, outdated>>

Places == Points \cup {Unset}
Reading == [at: Points, accuracy: Accuracies]
Pins == [pin: Places, gate: Places]
NoPins == [pin |-> Unset, gate |-> Unset]
NotLocating == [target |-> "none", finest |-> 0, best |-> {}]
NotMeasured == [used |-> 0, finest |-> 0]
Measured == [used: Accuracies \cup {0}, finest: Accuracies \cup {0}]

LocationTypeOK ==
    /\ estate \in Pins
    /\ editor \in [pin: Places, gate: Places, route: Places, from: [{"pin", "gate"} -> Measured]]
    /\ loading \in [stage: {"asked", "answered", "done", "failed"}, got: Pins]
    /\ locating \in [target: {"none", "pin", "gate"}, finest: Accuracies \cup {0}, best: SUBSET Reading]
    /\ routing \in Places
    /\ saving \in Pins
    /\ outdated \in BOOLEAN

\* `from' tells the error a pin set from the device was set with, and the smallest
\* one heard.
LocationInit ==
    /\ estate = NoPins
    /\ editor = [pin |-> Unset, gate |-> Unset, route |-> Unset,
                 from |-> [p \in {"pin", "gate"} |-> NotMeasured]]
    /\ loading = [stage |-> "asked", got |-> NoPins]
    /\ locating = NotLocating
    /\ routing = Unset
    /\ saving = NoPins
    /\ outdated = FALSE

\* haversineMeters
Distance(a, b) == IF a < b THEN b - a ELSE a - b

\* A pin is put somewhere; a gate that moves takes the route with it.
Placed(which, at, measured) ==
    [editor EXCEPT ![which] = at, !.from[which] = measured,
                   !.route = IF which = "gate" THEN Unset ELSE @]

Finer(finest, reading) ==
    IF finest = 0 \/ reading.accuracy < finest THEN reading.accuracy ELSE finest

Cleared(which) == outdated /\ which # "gate"
-----------------------------------------------------------------------------
\* getLocation
GetLocation ==
    /\ loading.stage = "asked"
    /\ loading' = [stage |-> "answered", got |-> estate]
    /\ UNCHANGED <<estate, editor, locating, routing, saving, outdated>>

\* The load puts the saved pins over whatever the editor has by now, route or not.
Loaded ==
    LET got == loading.got IN
    /\ loading.stage = "answered"
    /\ loading' = [stage |-> "done", got |-> NoPins]
    /\ editor' = [editor EXCEPT !.pin = IF got.pin # Unset THEN got.pin ELSE @,
                                !.gate = IF got.gate # Unset THEN got.gate ELSE @,
                                !.from = [p \in {"pin", "gate"} |->
                                             IF got[p] # Unset THEN NotMeasured ELSE @[p]]]
    /\ outdated' = (outdated \/ editor.route \notin {Unset, editor'.gate})
    /\ UNCHANGED <<estate, locating, routing, saving>>

LoadFails ==
    /\ loading.stage \in {"asked", "answered"}
    /\ loading' = [stage |-> "failed", got |-> NoPins]
    /\ UNCHANGED <<estate, editor, locating, routing, saving, outdated>>

\* Mutant: dragging the gate leaves the route on the map.
PlaceOnly(which, at) ==
    /\ editor' = [editor EXCEPT ![which] = at, !.from[which] = NotMeasured]
    /\ outdated' = (outdated /\ which # "gate")
    /\ UNCHANGED <<estate, loading, locating, routing, saving>>

\* From the map, by dragging, or by typing the coordinates.
Place(which, at) ==
    /\ editor' = Placed(which, at, NotMeasured)
    /\ outdated' = Cleared(which)
    /\ UNCHANGED <<estate, loading, locating, routing, saving>>

\* "Set estate pin here" takes the route along.
SetPinHere(at) ==
    /\ editor' = [Placed("pin", at, NotMeasured) EXCEPT !.route = Unset]
    /\ outdated' = FALSE
    /\ UNCHANGED <<estate, loading, locating, routing, saving>>

\* captureFromDevice: one position at a time.
CaptureFromDevice(which) ==
    /\ locating.target = "none"
    /\ locating' = [target |-> which, finest |-> 0, best |-> {}]
    /\ UNCHANGED <<estate, editor, loading, routing, saving, outdated>>

\* getBestFix keeps the best reading, and listens until one is good enough.
Hear(reading) ==
    /\ locating.target # "none"
    /\ \A b \in locating.best : b.accuracy > GoodEnough
    /\ locating' = [locating EXCEPT
                        !.finest = Finer(@, reading),
                        !.best = IF \A b \in @ : reading.accuracy < b.accuracy THEN {reading} ELSE @]
    /\ UNCHANGED <<estate, editor, loading, routing, saving, outdated>>

\* A good reading, or the end of the wait: the best one sets the pin, over what was put
\* there meanwhile, unless it is too rough for it.
Fix(b) ==
    LET which == locating.target
        limit == IF which = "gate" THEN MAX_ACCURACY_GATE_M ELSE MAX_ACCURACY_ESTATE_M IN
    /\ b \in locating.best
    /\ IF b.accuracy > limit
       THEN UNCHANGED <<editor, outdated>>
       ELSE /\ editor' = Placed(which, b.at, [used |-> b.accuracy, finest |-> locating.finest])
            /\ outdated' = Cleared(which)
    /\ locating' = NotLocating
    /\ UNCHANGED <<estate, loading, routing, saving>>

\* Permission refused, or nothing heard.
NoFix ==
    /\ locating.target # "none"
    /\ locating' = NotLocating
    /\ UNCHANGED <<estate, editor, loading, routing, saving, outdated>>

PreviewRoute ==
    /\ editor.gate # Unset /\ routing = Unset
    /\ routing' = editor.gate
    /\ UNCHANGED <<estate, editor, loading, locating, saving, outdated>>

\* The route, to where the gate was when it was asked for; or none.
Routed ==
    /\ routing # Unset
    /\ \/ /\ editor' = [editor EXCEPT !.route = routing]
          /\ outdated' = (routing # editor.gate)
       \/ /\ editor' = [editor EXCEPT !.route = Unset]
          /\ outdated' = FALSE
    /\ routing' = Unset
    /\ UNCHANGED <<estate, loading, locating, saving>>

\* save, once both pins are there and the saved location was seen.
Save ==
    /\ loading.stage = "done" /\ saving = NoPins
    /\ editor.pin # Unset /\ editor.gate # Unset
    /\ saving' = [pin |-> editor.pin, gate |-> editor.gate]
    /\ UNCHANGED <<estate, editor, loading, locating, routing, outdated>>

\* updateLocation: written together, or refused as too far apart; then the editor
\* closes, and may be opened again.
UpdateLocation ==
    /\ saving # NoPins
    /\ Distance(saving.pin, saving.gate) <= MaxGateDistance
    /\ estate' = saving
    /\ saving' = NoPins
    /\ editor' = [pin |-> Unset, gate |-> Unset, route |-> Unset,
                  from |-> [p \in {"pin", "gate"} |-> NotMeasured]]
    /\ loading' = [stage |-> "asked", got |-> NoPins]
    /\ locating' = NotLocating
    /\ routing' = Unset
    /\ outdated' = FALSE

SaveFails ==
    /\ saving # NoPins
    /\ saving' = NoPins
    /\ UNCHANGED <<estate, editor, loading, locating, routing, outdated>>

LocationNext ==
    \/ GetLocation \/ Loaded \/ LoadFails
    \/ \E which \in {"pin", "gate"} :
          \/ CaptureFromDevice(which)
          \/ \E at \in Points : Place(which, at)
    \/ \E at \in Points : SetPinHere(at)
    \/ \E reading \in Reading : Hear(reading) \/ Fix(reading)
    \/ NoFix \/ PreviewRoute \/ Routed \/ Save \/ UpdateLocation \/ SaveFails

LocationSpec == LocationInit /\ [][LocationNext]_locationVars
-----------------------------------------------------------------------------
(* "Any change to the gate makes an earlier route preview stale"           *)
(* (LocationEditor): the route on the map leads to the gate on the map,    *)
(* unless it was looked up, or loaded over, across a move of the gate.     *)
RouteFitsGate == editor.route \in {Unset, editor.gate} \/ outdated

(* A pin set from the device is set with the best of the readings heard,   *)
(* and that is good enough for it (getBestFix, captureFromDevice).         *)
PinsAreFine ==
    \A p \in {"pin", "gate"} :
        LET from == editor.from[p] IN
        /\ from.used = from.finest
        /\ from.used <= IF p = "gate" THEN MAX_ACCURACY_GATE_M ELSE MAX_ACCURACY_ESTATE_M
=============================================================================
