--------------------------- MODULE MCProcessObject ---------------------------
(***************************************************************************)
(* One process with two steps, two controllers and two callers of Done.    *)
(***************************************************************************)
EXTENDS ProcessObject, TLC

CONSTANTS c1, c2, s1, s2, d1, d2

Bits == {"Pause", "Stop", "Timeout", "Suspend", "Success", "Failed"}

StatusFlags == {{"Pause"}, {"Stop", "Failed"}, {"Timeout", "Failed"}, {"Suspend"},
                {"Success"}, {"Failed"}}

\* All three by c2, to let overlap whatever may overlap.
Called == (c1 :> {"Pause", "Resume"}) @@ (c2 :> {"Pause", "Resume", "Stop"})

CalledAlone == c1 :> {"Pause", "Resume"}

Cleared == {{"Pause"}}
===============================================================================
