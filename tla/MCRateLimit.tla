------------------------------ MODULE MCRateLimit ------------------------------
(***************************************************************************)
(* Small instances of RateLimit: four requests of one address to one host, *)
(* two of them in flight at a time.  Limits and windows differ from layer  *)
(* to layer as those of the code do (1, 5, 20, 1 and 30 s, 1 h, 24 h,      *)
(* 5 min), scaled so that every layer refuses somebody, and the first can  *)
(* admit twice its limit, within the bound on the clock.                   *)
(***************************************************************************)
EXTENDS RateLimit, TLC

CONSTANTS r1, r2, r3, r4, a1, h1

MCLimit == ("burst" :> 2) @@ ("hour" :> 2) @@ ("day" :> 1) @@ ("target" :> 1)

MCWindow == ("burst" :> 1) @@ ("hour" :> 2) @@ ("day" :> 3) @@ ("target" :> 2)

(* The limit of the first layer as the code has it.                        *)
MCDefaultBurst == [MCLimit EXCEPT !["burst"] = 1]

(* Requests are told apart by nothing else.                                *)
Permuting == Permutations(Request)
================================================================================
