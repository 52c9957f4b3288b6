-------------------------------- MODULE MCShop --------------------------------
(***************************************************************************)
(* The pages of the shop for TLC: the cart and a product.                  *)
(*                                                                         *)
(* The site has a page per address: a page that is opened starts anew and  *)
(* shares nothing with the others but the server.  So a behaviour is that  *)
(* of one page, and the pages are checked together, each from its own      *)
(* initial states.                                                         *)
(***************************************************************************)
EXTENDS CartPage, ProductPage, TLC

CONSTANTS
  a1, a2, b1, sellerA, sellerB,  \* two listings of a seller and one of another's
  s1                             \* where all of them can be picked up

VARIABLE page

MCSellerOf == [p \in Products |-> IF p = b1 THEN sellerB ELSE sellerA]
MCOffered == [p \in Products |-> IF p = a2 THEN Schedules ELSE {s1}]
MCEvents == [change |-> 1, purchase |-> 1, elsewhere |-> 1]
MCBefore == {<<[order |-> a1, amount |-> 1], [order |-> b1, amount |-> 2]>>}

shopVars == <<page, table, cartVars, productVars>>

(* The page that is not open has one initial state. *)
ShopInit == page \in {"cart", "product"} /\ TableInit /\ CartInit /\ ProductInit

OnCart == page = "cart" /\ UNCHANGED <<page, productVars>>
OnProduct == page = "product" /\ UNCHANGED <<page, cartVars>>

ShopNext == (OnCart /\ CartNext) \/ (OnProduct /\ ProductNext)

ShopSpec ==
  ShopInit /\ [][ShopNext]_shopVars /\ WF_shopVars(OnCart /\ CartProgress)

ShopTypeOK ==
  /\ TableTypeOK
  /\ page = "cart" => CartTypeOK
  /\ page = "product" => ProductTypeOK
=============================================================================
