--------------------------- MODULE MCPatchFlow ---------------------------
EXTENDS PatchFlow

\* Two findings are in one file; one is asked for twice, by its own branch and
\* by the caller's, who names main.  Identifiers that start alike share a branch.
Files    == [f \in Finding |-> IF f = "users_get" THEN "users.py" ELSE "orders.py"]
Asked    == [r \in Request |-> CASE r = 2 -> "orders_list" [] r = 3 -> "users_get"
                                 [] OTHER -> "orders_get"]
Branches == [r \in Request |-> CASE r = 2 -> "fix_other" [] r = 4 -> "main"
                                 [] OTHER -> "fix_orders"]
===========================================================================
