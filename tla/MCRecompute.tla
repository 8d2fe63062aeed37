---------------------------- MODULE MCRecompute ----------------------------
(***************************************************************************)
(* Three days of two, one and two hours (the clock change); their first    *)
(* versions are complete, the second version of the last day lacks its     *)
(* second hour and some quarters of its first.                             *)
(***************************************************************************)
EXTENDS Recompute

MCFirstHour == <<1, 3, 4, 6>>

Quarters(d) == (4 * FirstHour[d])..(4 * FirstHour[d + 1] - 1)

MCPower ==
    [f \in Days \X Versions |->
        LET qs == IF f = <<3, 2>> THEN {16, 18} ELSE Quarters(f[1])
        IN  [q \in qs |-> IF q % 4 = 0 THEN f[1] + f[2] ELSE f[2] - 1]]
=============================================================================
