--------------------------- MODULE MCPrefillBudget ---------------------------
(* Values for the functions of PrefillBudget's constants.                  *)
EXTENDS PrefillBudget

MixedPrompts == [r \in Req |-> IF r = "long" THEN 11 ELSE IF r = "mid" THEN 6 ELSE 2]
=============================================================================
