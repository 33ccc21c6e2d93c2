--------------------------- MODULE MCLearningStore ---------------------------
(***************************************************************************)
(* A small instance of the store, by itself or under the runtime: one      *)
(* context, whose predictor set can be smaller than the number of          *)
(* candidates, and a slab of two records.                                  *)
(***************************************************************************)
EXTENDS RuntimeOverStore

CONSTANT c1

MCContexts == {c1}
MCSetOf == [c \in MCContexts |-> 1]

(* The store under any caller: the runtime never opens.                    *)
StoreAlone ==
  LayersInit /\ [][Next /\ UNCHANGED <<runtimeVars, runtimeCall>>]_layers
=============================================================================
