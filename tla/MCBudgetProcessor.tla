------------------------- MODULE MCBudgetProcessor --------------------------
(* TLC instances of BudgetProcessor: costs of half a cent and more, so that *)
(* every flush may have a fraction to drop.                                *)
EXTENDS BudgetProcessor
=============================================================================
