------------------------------ MODULE MCHaesLedger -----------------------------
(***************************************************************************)
(* Small instances of HaesLedger: three append calls by clients with two   *)
(* keys, two anchor days of two ticks, callers that repeat an identifier,  *)
(* pass a timestamp of their own or name a key that is not theirs.         *)
(***************************************************************************)
EXTENDS HaesLedger, TLC

CONSTANTS c1, c2, c3, k1, k2, b1, b2

MCKeyOf == (c1 :> k1) @@ (c2 :> k1) @@ (c3 :> k2)

Of(b, k) == [body |-> b, signing_key_id |-> k]

(* Inputs: an identifier left to the client or fixed by the caller, with   *)
(* either payload; a timestamp of the caller's own.  Each key is right for *)
(* some of the calls and wrong for the others.                             *)
MCInputs ==
  [entry_id : {None, <<0, 3>>}, timestamp : {None},
   payload : {Of(b1, k1), Of(b2, k2)}]
    \union
  [entry_id : {None}, timestamp : {1}, payload : {Of(b1, k1)}]
================================================================================
