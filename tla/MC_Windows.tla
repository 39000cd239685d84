------------------------------ MODULE MC_Windows -------------------------------
(***************************************************************************)
(* Every sorted collection of up to three slots in five ticks.               *)
(***************************************************************************)
EXTENDS Windows, TLC

CONSTANTS e1, e2

MC_Longest == 3
MC_Slots == {s \in [start : 0..4, end : 1..5, entry : Entries] : s.start < s.end}
MC_Inputs ==
    UNION {{s \in [1..n -> MC_Slots] : ByStart(s)} : n \in 0..MC_Longest}
===============================================================================
