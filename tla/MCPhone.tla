------------------------------ MODULE MCPhone ------------------------------
(***************************************************************************)
(* A small instance of PhoneConnection: one address, saved with a relay or *)
(* without, and three places: at home while the relay does not reach the   *)
(* desktop, at home without a relay, and away, where only the relay does.  *)
(***************************************************************************)
EXTENDS PhoneConnection

MCChoices == [lan : {"x"}, remote : BOOLEAN]
MCNetworks == {[desktop |-> {"x"}, relay |-> "offline"],
               [desktop |-> {"x"}, relay |-> "away"],
               [desktop |-> {}, relay |-> "reaches"]}
=============================================================================
