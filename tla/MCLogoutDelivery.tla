------------------------- MODULE MCLogoutDelivery -------------------------
(* Model checking of module LogoutDelivery.                                       *)
EXTENDS LogoutDelivery
==============================================================================
