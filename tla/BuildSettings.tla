--------------------------- MODULE BuildSettings ---------------------------
(***************************************************************************)
(* The settings of a build request: which of them NewPCB refuses, what it  *)
(* takes from the others and what of that buildKBPlacerArgs passes on to   *)
(* kbplacer (backend/internal/kicad/kicad.go and preset.go).               *)
(*                                                                         *)
(* A setting is "ok", "absent", or "bad": of a wrong type, format or size. *)
(* The optional footprint of a wrong type is "absent": the code's type     *)
(* assertion makes it an empty string.  So are a flag of a wrong type, no  *)
(* flag, and a null preset, no preset.                                     *)
(* A placement stands for the rotation, side, x and y of an element.       *)
(***************************************************************************)

Required ==
    {"layout", "settings", "switchRotation", "switchSide", "diodeRotation", "diodeSide",
     "diodePosition", "switchFootprint", "diodeFootprint"}
Optional == {"stabilizerFootprint", "trackPreset"}
LedFields == {"ledFootprint", "ledPlacement"}
CapFields == {"ledCapacitorFootprint", "ledCapacitorPlacement"}

Fields == Required \cup Optional \cup LedFields \cup CapFields

Requests ==
    [field : [Fields -> {"ok", "absent", "bad"}],
     createLedSchFile : BOOLEAN,
     skipLedDecoupling : BOOLEAN,
     routing : {"Disabled", "Switch-Diode only", "Full"}]

AllOk(r, fields) == \A f \in fields : r.field[f] = "ok"

\* Mutant: the capacitor is asked for only when it is skipped.
LedAcceptedSwapped(r) ==
    r.createLedSchFile =>
        /\ AllOk(r, LedFields)
        /\ r.skipLedDecoupling => AllOk(r, CapFields)

\* The LED chain needs an LED, and a capacitor unless decoupling is skipped.
LedAccepted(r) ==
    r.createLedSchFile =>
        /\ AllOk(r, LedFields)
        /\ ~r.skipLedDecoupling => AllOk(r, CapFields)

\* parseTrackPreset: nil when the field is absent.
PresetAccepted(r) == r.field["trackPreset"] # "bad"

\* NewPCB's checks, each with an early return and none with an effect.
Accepted(r) ==
    /\ AllOk(r, Required)
    /\ r.field["stabilizerFootprint"] # "bad"
    /\ PresetAccepted(r)
    /\ LedAccepted(r)

-----------------------------------------------------------------------------
\* What NewPCB resolves from an accepted request: settings of the LED chain are
\* looked at only when it is asked for.
LedElements(r, led, cap) ==
    IF ~r.createLedSchFile THEN {}
    ELSE {e \in {"led"} : r.field[led] = "ok"}
         \cup {e \in {"capacitor"} : ~r.skipLedDecoupling /\ r.field[cap] = "ok"}

Stabilizer(r) == {e \in {"stabilizer"} : r.field["stabilizerFootprint"] = "ok"}

\* A track preset without routing is ignored.
Options(r) ==
    [ledChain |-> r.createLedSchFile,
     skipDecoupling |-> r.skipLedDecoupling,
     routeSwitches |-> r.routing # "Disabled",
     routeMatrix |-> r.routing = "Full",
     usePreset |-> r.field["trackPreset"] = "ok" /\ r.routing # "Disabled",
     footprints |-> {"switch", "diode"} \cup Stabilizer(r)
                        \cup LedElements(r, "ledFootprint", "ledCapacitorFootprint"),
     placements |-> {"switch", "diode", "stabilizer"}
                        \cup LedElements(r, "ledPlacement", "ledCapacitorPlacement")]

\* buildKBPlacerArgs: the footprints it names, the elements it places, the sheets
\* it asks for, and the diode's position, from the settings or the preset file.
KBPlacerArgs(o) ==
    [footprints |-> {e \in o.footprints :
                        /\ e \in {"led", "capacitor"} => o.ledChain
                        /\ e = "capacitor" => ~o.skipDecoupling},
     places |-> {"switch", "diode"}
                    \cup {e \in {"stabilizer"} : e \in o.footprints}
                    \cup {e \in {"led"} : o.ledChain}
                    \cup {e \in {"capacitor"} : o.ledChain /\ ~o.skipDecoupling},
     routeSwitches |-> o.routeSwitches,
     routeMatrix |-> o.routeMatrix,
     preset |-> o.usePreset,
     hierarchical |-> o.ledChain]
=============================================================================
