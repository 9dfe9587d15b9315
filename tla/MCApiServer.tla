---------------------------- MODULE MCApiServer ----------------------------
(* Instances of ApiServer: model values and the requests being served. *)
EXTENDS ApiServer, TLC

CONSTANTS c1, c2, ma, mb, mx, my

(* Two batches that ask for ma both; mx is filtered out. *)
TwoBatches == c1 :> <<ma>> @@ c2 :> <<mb, mx, ma>>

(* One batch of one message and one of two; my has no route. *)
SmallBatches == c1 :> <<ma>> @@ c2 :> <<mb, my>>

=============================================================================
