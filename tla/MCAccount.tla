------------------------------ MODULE MCAccount ------------------------------
EXTENDS Account, TLC

CONSTANTS a, b, us, eu

Plan(p, q, n) == [ops |-> a :> p @@ b :> q, logins |-> n]

MCPlans == { Plan({"login"}, {"read"}, 2),
             Plan({"code"}, {"read", "manage", "batch"}, 2),
             Plan({"code"}, {"logout"}, 2),
             Plan({"code"}, {"bootstrap"}, 1),
             Plan({"code", "mail", "publish"}, {"publish"}, 1),
             Plan({"login"}, {"register"}, 1) }

MCDomains == <<{eu, None}, {us}>>
=============================================================================
