---------------------------- MODULE MCServerSync ----------------------------
(* Instances of ServerSync: an order taken at the site and edited, paid and *)
(* voided on both sides, beside one taken at the central server.            *)
EXTENDS ServerSync, TLC

CONSTANTS a, b

MCHome == (a :> "site") @@ (b :> "central")
HomeCentral == b :> "central"

MCChanges == ({"site"} \X {a} \X {"create", "edit", "pay"})
             \cup ({"central"} \X {a} \X {"edit", "void", "pay"})
             \cup {<<"central", b, "create">>}
Edits == {<<"central", b, "create">>} \cup (Sides \X {b} \X {"edit"})

MCNumbers == [s \in Sides |-> IF s = "site" THEN 2 ELSE 3]

\* The site's clock is behind.
SiteLags == [s \in Sides |-> IF s = "site" THEN 2 ELSE 0]
=============================================================================
