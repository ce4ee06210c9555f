------------------------------ MODULE MCGenevieve ------------------------------
(***************************************************************************)
(* Three registrars and two askers for TLC.                                *)
(***************************************************************************)
EXTENDS Genevieve

CONSTANTS r1, r2, r3, x, y, openai, gemini

MCRegistrar == {r1, r2, r3}
MCAsker == {x, y}
MCName == {openai, gemini}

Offering(p, q, o) == (r1 :> p) @@ (r2 :> q) @@ (r3 :> o)

(* Two providers of one name beside another; one nil and one nameless.     *)
MCOffers ==
  { Offering(openai, openai, gemini), Offering("nil", openai, Empty) }

MCAsks == { (x :> All) @@ (y :> openai) }

MCMutes == { {}, {r2} }
=============================================================================
