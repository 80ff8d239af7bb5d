----------------------------- MODULE MCSessions -----------------------------
(* An instance of Sessions for TLC: one browser, two calls that belong to    *)
(* one tab or to two.                                                        *)
EXTENDS Sessions, TLC

CONSTANTS c1, c2, t1, t2, b1

OneTabOrTwo == {[c \in Calls |-> t1], (c1 :> t1) @@ (c2 :> t2)}

OneBrowser == [t \in Tabs |-> b1]
=============================================================================
