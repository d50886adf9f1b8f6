----------------------------- MODULE MCProject -----------------------------
(* Project on small instances.                                              *)
EXTENDS Project

Tokens == {"a", ".", "/", " ", "[", "[v]", "logs"}

\* Every name of up to two tokens, and some of three and four whose inner token matters.
MCLayoutNames ==
    UNION {[1..n -> Tokens] : n \in 0..2}
        \cup {<<x, y, x>> : x \in {"a", ".", " "}, y \in Tokens}
        \cup {<<x, ".", y, ".">> : x, y \in {"a", ".", "/", " "}}

MCChildSheets == <<<<"key", " ", "matrix">>, <<"led", " ", "chain">>>>

\* Every mix of the optional settings, and at most one other absent or bad.
MCBuildRequests ==
    [field : {[f \in Fields |->
                IF f = "trackPreset" THEN p
                ELSE IF f = "stabilizerFootprint" THEN q
                ELSE IF f = g THEN v ELSE "ok"] :
                    g \in Fields \ Optional, p, q, v \in {"ok", "absent", "bad"}},
     createLedSchFile : BOOLEAN,
     skipLedDecoupling : BOOLEAN,
     routing : {"Disabled", "Switch-Diode only", "Full"}]
=============================================================================
