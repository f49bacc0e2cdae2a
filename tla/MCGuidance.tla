----------------------------- MODULE MCGuidance -----------------------------
(***************************************************************************)
(* Two Events of one description. One start reads little energy, which     *)
(* forbids the project, and a habit below the threshold; the other tracks  *)
(* no energy and has a project half done, which a goal aims at.            *)
(***************************************************************************)
EXTENDS Guidance, TLC

MCDescription == [e \in Events |-> 7]
MCPrinciples == [r \in Rules |-> IF r = "rest" THEN 1 ELSE 0]

MCFacts ==
    {[energy |-> 1 :> 22, knowledge |-> 1 :> 50, projects |-> 1 :> 0, aimed |-> {1},
      habits |-> 1 :> 39],
     [energy |-> <<>>, knowledge |-> <<>>, projects |-> 1 :> 100 @@ 2 :> 50, aimed |-> {2},
      habits |-> <<>>]}
=============================================================================
