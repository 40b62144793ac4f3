---------------------------- MODULE ReplicatedLog ----------------------------
(***************************************************************************)
(* What the replicas of a group promise together, whatever the network     *)
(* does and however the entries travel: a replica only ever holds entries  *)
(* that some replica issued, each with all that comes before it in the     *)
(* hash chain; it issues an entry after everything it holds; what it has   *)
(* it keeps, until it is restarted, and then it has what it last saved.    *)
(*                                                                         *)
(* An entry is a record with at least an id, the id `prev` of the entry it *)
(* comes after, a clock and a type.                                        *)
(***************************************************************************)
EXTENDS Naturals

CONSTANT Replica

VARIABLES
  issued,   \* every entry issued so far
  log,      \* log[r]: what replica r holds
  saved     \* saved[r]: what it would hold after a restart

vars == <<issued, log, saved>>

\* With an entry comes the one it follows, which has a smaller clock.
Closed(S) ==
  \A e \in S : e.type # "Genesis" => \E f \in S : f.id = e.prev /\ f.clock < e.clock

Init ==
  /\ issued = {}
  /\ log    = [r \in Replica |-> {}]
  /\ saved  = [r \in Replica |-> {}]

\* A step that changes what r holds may save it as well, and one that does not
\* may still save.
Save(r) == saved' = saved \/ saved' = [saved EXCEPT ![r] = log'[r]]

\* The first entry of all, or one after another entry of r and with a clock
\* beyond everything r holds.
Issue(r) ==
  /\ \E e \in issued' \ issued :
       /\ issued' = issued \cup {e}
       /\ \A f \in issued : f.id # e.id
       /\ \A f \in log[r] : f.clock < e.clock
       /\ IF e.type = "Genesis" THEN issued = {} ELSE \E f \in log[r] : f.id = e.prev
       /\ log' = [log EXCEPT ![r] = @ \cup {e}]
  /\ Save(r)

\* Nothing, one entry or many that others issued.
Learn(r) ==
  /\ \E S \in SUBSET issued :
       /\ Closed(log[r] \cup S)
       /\ log' = [log EXCEPT ![r] = @ \cup S]
  /\ Save(r)
  /\ UNCHANGED issued

Restart(r) ==
  /\ log' = [log EXCEPT ![r] = saved[r]]
  /\ UNCHANGED <<issued, saved>>

Leave(r) ==
  /\ log' = [log EXCEPT ![r] = {}]
  /\ saved' = [saved EXCEPT ![r] = {}]
  /\ UNCHANGED issued

Next == \E r \in Replica : Issue(r) \/ Learn(r) \/ Restart(r) \/ Leave(r)

Spec == Init /\ [][Next]_vars
=============================================================================
