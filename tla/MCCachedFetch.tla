---------------------------- MODULE MCCachedFetch ----------------------------
(* Two callers with reports of two keys, which are two documents, two      *)
(* identifiers of a well, or an identifier and its layers.  An identifier  *)
(* names no well in the first answer SGU has for one, in its second for    *)
(* the other.                                                              *)
EXTENDS CachedFetch

CONSTANTS k1, k2

MCReports == {Documents(<<k1, k2>>), Well(<<k1, k2>>, <<>>), WellByFid(k1, <<k2>>)}
MCTTL == [k \in Keys |-> 1]
MCEmpty == {<<k1, 1>>, <<k2, 2>>}
=============================================================================
