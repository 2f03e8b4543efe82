----------------------------- MODULE MCGetItems -----------------------------
(* GetItems on three pages, linked as a chain, as loops of three, two and  *)
(* one page, and with two pages that lead to a third.  The first two pages *)
(* overlap in feature b, and a limit of 3 falls between and inside pages.  *)
EXTENDS GetItems

CONSTANTS u1, u2, u3, a, b, d

Links(n1, n2, n3) == [u \in Urls |-> CASE u = u1 -> n1 [] u = u2 -> n2 [] u = u3 -> n3]
Graphs == {Links(u2, u3, None), Links(u2, u3, u1), Links(u2, u3, u2), Links(u1, u3, u3),
           Links(u3, u3, None)}
MCSites ==
    {[u \in Urls |-> [features |-> CASE u = u1 -> <<a, b>>
                                     [] u = u2 -> <<b, NoId>>
                                     [] u = u3 -> <<NoId, d>>,
                      next |-> links[u]]] : links \in Graphs}
=============================================================================
