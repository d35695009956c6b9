---------------------------- MODULE NameRegistry ----------------------------
(***************************************************************************)
(* What the server promises about user names, whatever happens inside it:  *)
(* a name goes to a connection when nobody holds it, or when the one who   *)
(* holds it is lost; nobody else ever loses his name to another player.    *)
(***************************************************************************)
CONSTANTS Name, Conn

VARIABLES
  holds,   \* pairs of a name and a connection that holds it
  lost     \* the connections that can be taken over

vars == <<holds, lost>>

Init == holds = {} /\ lost = {}

HeldByOthers(p) == {h \in holds : h[2] # p}

\* A connection registers: it gives up the name it had.
Take(n, p) ==
  /\ \A h \in holds : h[1] # n
  /\ holds' = HeldByOthers(p) \cup {<<n, p>>}
  /\ UNCHANGED lost

\* A connection comes back under the name of a lost one.  One of the two holds
\* it afterwards, and the other one holds nothing.
TakeOver(n, p, old) ==
  /\ old \in lost /\ <<n, old>> \in holds
  /\ \/ holds' \subseteq (HeldByOthers(p) \ {<<n, old>>}) \cup {<<n, p>>}
     \/ holds' \subseteq HeldByOthers(p)
  /\ UNCHANGED lost

\* Connections end, and some become lost.
Release ==
  /\ holds' \subseteq holds
  /\ lost \subseteq lost'

Next ==
  \/ Release
  \/ \E n \in Name, p \in Conn : Take(n, p) \/ \E old \in Conn : TakeOver(n, p, old)

Spec == Init /\ [][Next]_vars
=============================================================================
