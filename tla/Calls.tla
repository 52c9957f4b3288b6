-------------------------------- MODULE Calls ---------------------------------
(***************************************************************************)
(* A page's call to the REST server.                                       *)
(*                                                                         *)
(* Its promise is resolved if the server did what it was asked and the     *)
(* answer came back, and rejected otherwise: refused, not reached, or      *)
(* answered in vain.  Nothing tells the page which, and no call has a      *)
(* timeout.                                                                *)
(***************************************************************************)
Outcomes(done) == IF done THEN {"resolved", "rejected"} ELSE {"rejected"}
=============================================================================
