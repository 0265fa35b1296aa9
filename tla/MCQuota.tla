------------------------------ MODULE MCQuota ------------------------------
(* Small tenants for Quota: two or three metrics, limits of two or three. *)
EXTENDS Quota, TLC

CONSTANTS p1, p2, p3, s1, s2

OneServer == [p \in {p1, p2, p3} |-> s1]
TwoServers == (p1 :> s1) @@ (p2 :> s1) @@ (p3 :> s2)

\* Nothing of the second metric, of the third, or some of everything.
MCSpecs == {<<1, 1, 2>>, <<1, 0, 1>>, <<1, 2, 0>>}
SmallSpecs == {<<1, 1>>, <<1, 2>>, <<2, 0>>}
MCPlans == {<<2, 0, 3>>, <<3, 0, 2>>}
OnePlan == {<<3, 2>>}
Upgrade == {<<1, 1>>, <<3, 3>>}
ToUnlimited == {<<1, 1>>, <<0, 1>>}
SmallPlan == {<<1, 1>>}
=============================================================================
