-------------------------------- MODULE Access --------------------------------
(* The permission table: web/lib/authorize.ts.                                *)
EXTENDS Naturals

Ranked == {"VIEWER", "MEMBER", "ADMIN", "OWNER"}
Weight == [VIEWER |-> 0, MEMBER |-> 1, ADMIN |-> 2, OWNER |-> 3]
Stranger == "none"             \* principal.role is null

Owners_ == {"workspace:delete"}
Admins_ == {"workspace:update", "member:invite", "member:remove", "member:changeRole",
            "apiKey:manage", "quota:manage", "auditLog:view", "project:delete", "share:revoke"}
Members_ == {"project:create", "program:create", "run:start", "suite:create", "suite:run", "share:create"}
Viewers_ == {"run:view", "trace:view", "analytics:view"}
OwnOnly == {"run:delete", "program:delete"}

\* The least role for an action; an action that is not in the table has none.
Minimum(action) ==
  CASE action \in Owners_ -> "OWNER"
    [] action \in Admins_ -> "ADMIN"
    [] action \in Members_ -> "MEMBER"
    [] action \in Viewers_ -> "VIEWER"
    [] OTHER -> Stranger

Reaches(role, least) == role # Stranger /\ least # Stranger /\ Weight[role] >= Weight[least]

\* authorize(principal, action, resource); mine: the caller made the resource.
Authorize(role, action, mine) ==
  IF action \in OwnOnly
    THEN Reaches(role, "ADMIN") \/ (role = "MEMBER" /\ mine)
    ELSE Reaches(role, Minimum(action))
=============================================================================
