--------------------------- MODULE MCNewsPipeline ---------------------------
(* Instances of NewsPipeline for TLC. *)
EXTENDS NewsPipeline, TLC

(* Two producers with a message each, which race; or one with two messages *)
(* that must stay in order while the other has nothing to say.  Every      *)
(* buffer holds one message, so every insert can block.                    *)
TwoProducersLoads == {1 :> 1 @@ 2 :> 1, 1 :> 2 @@ 2 :> 0}
TwoProducersSizes == 1 :> 1 @@ 2 :> 1
=============================================================================
