--------------------------- MODULE MCRmsScheduler ---------------------------
(***************************************************************************)
(* Model checking of RmsScheduler.  Three tasks, as in the code, with the  *)
(* periods and the work scaled down and the load scaled up: 1/4 + 2/8 +    *)
(* 3/12 of the processor, where the code's 5/100 + 20/500 + 50/1000 leave  *)
(* it mostly idle.                                                         *)
(***************************************************************************)
EXTENDS RmsScheduler

MCPeriod == <<4, 8, 12>>
MCWcet == <<1, 2, 3>>
=============================================================================
