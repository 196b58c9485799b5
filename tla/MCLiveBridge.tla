----------------------------- MODULE MCLiveBridge -----------------------------
EXTENDS LiveBridgeInvariant

(* One market page or two; page 1, where every game starts, among them. *)
MCRoutes == {{2}, {1, 2}}
OneRoute == {{2}}
===============================================================================
