---------------------------- MODULE MCSearchWells ----------------------------
(* Pages of two or three wells and a last one of one, in chains and in two *)
(* loops.  The limit of 3 cuts the second page of a walk in two, unless    *)
(* that page repeats a well of the first: then it ends with the page.      *)
EXTENDS SearchWells

CONSTANTS u1, u2, u3, a, b, d, e

Site(second, n1, n2, n3) ==
    [u \in Urls |-> CASE u = u1 -> [features |-> <<a, b>>, next |-> n1]
                      [] u = u2 -> [features |-> second, next |-> n2]
                      [] u = u3 -> [features |-> <<NoId>>, next |-> n3]]
MCSites == UNION {{Site(second, u2, u3, None), Site(second, u2, None, None),
                   Site(second, u2, u1, None), Site(second, u3, u3, u2)}
                     : second \in {<<e, d, b>>, <<b, e>>}}
MCWells == [f \in Ids \cup {NoId} |->
               CASE f = b -> "outside" [] f = e -> "unknown" [] OTHER -> "inside"]
MCFirst == [area \in Areas |-> u1]

\* Requests that are good but for one argument, or that name an address.
Good == [address |-> FALSE, point |-> "both", radius |-> "good", box |-> "none",
         sort |-> "valid", filter |-> "valid"]
MCRequests ==
    {Good, [Good EXCEPT !.radius = "none"], [Good EXCEPT !.radius = "none", !.box = "good"],
     [Good EXCEPT !.point = "half"], [Good EXCEPT !.radius = "bad"], [Good EXCEPT !.box = "bad"],
     [Good EXCEPT !.sort = "bad field"], [Good EXCEPT !.sort = "bad direction"],
     [Good EXCEPT !.filter = "invalid"]}
    \cup {[Good EXCEPT !.address = TRUE, !.point = place[1], !.radius = place[2]] :
             place \in {<<"none", "none">>, <<"none", "good">>, <<"both", "good">>}}
=============================================================================
