----------------------------- MODULE MCRequests -----------------------------
(***************************************************************************)
(* A small instance of Requests, for TLC.                                  *)
(***************************************************************************)
EXTENDS Requests, TLC

\* Three entries, of which two fall in one microsecond, and a SIEM destination.
MCClock == <<1, 2, 3>>

\* Two notifications of one user, another user who marks them too.
MCOwnerOf == [e \in {"e1", "e2"} |-> "u1"]

\* A superadmin's and a viewer's key, with and without scopes.
MCKeyUser == "k1" :> "root" @@ "k2" :> "bob"
MCRolesOf == "root" :> {"superadmin"} @@ "bob" :> {"viewer"}
MCPermsOf == "superadmin" :> {"*"} @@ "viewer" :> {"read"}

\* Three requests on two servers over one database, two metrics.
MCServerOf == "p1" :> "s1" @@ "p2" :> "s1" @@ "p3" :> "s2"
MCSpecs == {<<1, 1>>, <<1, 2>>, <<2, 0>>}
MCQuotaPlans == {<<3, 2>>}

\* Two volumes that share a name.
MCNameOf == [v \in {"v1", "v2"} |-> "x"]

\* A threshold that samples meet.
MCThresholds == "t1" :> [op |-> "gte", value |-> 2]

\* Two hosts with one token.
MCTokenOf == [h \in {"h1", "h2"} |-> {"k1"}]
=============================================================================
