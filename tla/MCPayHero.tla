----------------------------- MODULE MCPayHero -----------------------------
(* Online payments on small instances: one or two STK pushes.              *)
EXTENDS PayHero

=============================================================================
