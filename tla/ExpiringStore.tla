--------------------------- MODULE ExpiringStore ---------------------------
(***************************************************************************)
(* What every keyed store of the server promises its callers: the TTL      *)
(* caches, the continuation tokens and the exports.  A store may forget an *)
(* entry whenever it likes, and it may always answer "nothing there"; but  *)
(* what it does hand out is the value last put under that key, and only    *)
(* before that value's deadline.                                           *)
(***************************************************************************)
EXTENDS Integers

CONSTANTS Keys,      \* what entries are looked up by
          Values,    \* what is stored
          None       \* "absent": neither a key, nor a value, nor an entry

VARIABLES held,      \* held[k]: the entry under k, or None
          clock,     \* the time the deadlines are compared with
          answer     \* the latest lookup and its outcome, NoAnswer after another step

vars == <<held, clock, answer>>

Entry == [value : Values, expires : Int]
NoAnswer == [key |-> None, value |-> None]
Answer == [key : Keys, value : Values \cup {None}] \cup {NoAnswer}

TypeOK == /\ held \in [Keys -> Entry \cup {None}]
          /\ clock \in Int
          /\ answer \in Answer

Init == /\ held = [k \in Keys |-> None]
        /\ clock \in Int
        /\ answer = NoAnswer

\* Entries other than those of K may disappear, and nothing else happens to them.
OthersMayGo(K) == \A k \in Keys \ K : held'[k] \in {held[k], None}

\* The entry put carries the deadline its owner chose, which is never extended.
\* Preparing what is put may take time.
Put(k, v) ==
    /\ held' \in [Keys -> Entry \cup {None}]
    /\ held'[k] # None
    /\ held'[k].value = v
    /\ OthersMayGo({k})
    /\ answer' = NoAnswer
    /\ clock' \in Int

Serve(k) ==
    /\ held[k] # None
    /\ clock < held[k].expires
    /\ answer' = [key |-> k, value |-> held[k].value]

Miss(k) == answer' = [key |-> k, value |-> None]

Lookup(k) ==
    /\ Serve(k) \/ Miss(k)
    /\ held' \in [Keys -> Entry \cup {None}]
    /\ OthersMayGo({})
    /\ UNCHANGED clock

Forget ==
    /\ held' \in [Keys -> Entry \cup {None}]
    /\ OthersMayGo({})
    /\ answer' = NoAnswer
    /\ UNCHANGED clock

Pass ==
    /\ clock' \in Int
    /\ UNCHANGED <<held, answer>>

Next == \/ \E k \in Keys : Lookup(k)
        \/ \E k \in Keys, v \in Values : Put(k, v)
        \/ Forget
        \/ Pass

Spec == Init /\ [][Next]_vars
=============================================================================
