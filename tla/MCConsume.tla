------------------------------ MODULE MCConsume ------------------------------
(***************************************************************************)
(* Three lots whose unit costs are in another order than their ages, the    *)
(* last two at the same price, cut up by disposals of up to five units.  A   *)
(* year is three days long, so that the days of disposal reach from before  *)
(* the first anniversary to after the last.                                 *)
(***************************************************************************)
EXTENDS Form8949

MCLots     == 1..3
MCQuantity == <<3, 4, 2>>
MCCost     == <<2, 6, 3>>
MCAcquired == <<1, 3, 6>>
MCOrders   == {0, 1, 2, 5} \X {0, 7}
=============================================================================
