----------------------------- MODULE MCAreaTools -----------------------------
(* One client, whose requests follow each other through the cache.  A page *)
(* of wells that are all, in part, or not at all within the radius, and a  *)
(* second page that ends the walk, or leads back; a walk may start at      *)
(* either.  The limits are below and at the number of wells.               *)
EXTENDS AreaTools

CONSTANTS u1, u2, a, b, d, e

MCSites ==
    {[u \in Urls |-> CASE u = u1 -> [features |-> first, next |-> links[1]]
                       [] u = u2 -> [features |-> <<d>>, next |-> links[2]]] :
        first \in {<<e, NoId, b>>, <<a, e, b>>, <<a>>},
        links \in {<<None, None>>, <<u2, None>>, <<u2, u1>>}}
MCFirst == [area \in Areas |-> IF area = "near" THEN u1 ELSE u2]
MCWells == [f \in Ids \cup {NoId} |->
               CASE f = b -> "outside" [] f \in {a, d} -> "inside" [] OTHER -> "unknown"]

\* All ways to name an area (a radius of zero with coordinates only), with a good
\* format and filter or with one that is bad.
MCRequests ==
    {r \in Request : /\ r.format = "csv" \/ (r.format = "xlsx" /\ r.tool = "export")
                     /\ r.filter = "valid" \/ (r.box /\ r.format = "csv")
                     /\ r.radius = "zero" => r.point = "both"}
=============================================================================
