----------------------------- MODULE MCGateway -----------------------------
(* Small instances of the gateway for TLC: two users, one chat between them, *)
(* a visitor's session without login and a session id without a row; all    *)
(* connections but the second come from the same address.                   *)
EXTENDS Gateway, TLC

CONSTANTS u1, u2, k1, s1, s2, sVisitor, sUnknown, a1, a2

MCMembers == k1 :> <<u1, u2>>
MCSessionUser ==
  LET row == s1 :> u1 @@ s2 :> u2 @@ sVisitor :> NoLogin @@ sUnknown :> NoUser IN
    [s \in Sessions |-> row[s]]
MCAddrOf == [c \in Conn |-> IF c = 2 THEN a2 ELSE a1]
MCSameAddr == [c \in Conn |-> a1]
=============================================================================
