------------------------------ MODULE Accounts ------------------------------
(***************************************************************************)
(* GroupDetail over the storage of its group: entries arrive (Corrections) *)
(* while the page shows the balances and the payments (SettlementLoop) of  *)
(* the entries it has read, and a payment is marked as paid.  The page     *)
(* reads the entries when it is opened and after what is done on it, not   *)
(* when one arrives.                                                       *)
(***************************************************************************)
EXTENDS Corrections, SettlementLoop

CONSTANTS
  MaxBalance,   \* bound: what a member is owed or owes at first
  MaxLate,      \* bound: MaxEntries in a group with expenses at first
  MaxBehind,    \* bound: entries the page, once open, is behind
  MaxPaid       \* bound: entries when the last payment is marked

ASSUME AccountsAssumption ==
  /\ MaxBalance \in Nat /\ MaxLate \in Nat
  /\ MaxBehind \in Nat /\ MaxPaid \in Nat

VARIABLES
  shown,   \* the entries the page has read
  limit    \* bound: entries when the last one arrives

vars == <<entries, shown, limit, loop>>

\* Expenses that leave the members with balances b: with each of the others
\* one that it or First has paid for the other.
First == CHOOSE m \in Member : Rank[m] = 1

Opening(b) ==
  LET Others == { m \in Member \ {First} : b[m] # 0 }
      Id(m)  == Cardinality({ x \in Others : Rank[x] <= Rank[m] })
  IN { [id |-> Id(m), prev |-> NoHash, clock |-> Id(m) - 1, ts |-> 1,
        type |-> "ExpenseCreated", dev |-> 1,
        payload |-> IF b[m] > 0 THEN Settlement(m, First, b[m])
                    ELSE Settlement(First, m, -b[m])] : m \in Others }

Init ==
  /\ \E b \in [Member -> -MaxBalance .. MaxBalance] :
       SumFunction(b) = 0 /\ entries = Opening(b)
  /\ limit = IF entries = {} THEN MaxEntries ELSE MaxLate
  /\ shown = {}
  /\ LoopInit

\* What arrives does not change the page.
arrival ==
  /\ Done /\ NextId <= limit /\ (shown = {} \/ Cardinality(entries \ shown) < MaxBehind)
  /\ Arrival
  /\ UNCHANGED <<shown, limit, loop>>

\* refresh of GroupDetail, and the rendering that follows.
show(S) == shown' = S /\ begin(computeBalances(S))

refresh == Done /\ show(entries) /\ UNCHANGED <<entries, limit>>

\* An iteration of the loop, while the page is rendered.
render == pay /\ UNCHANGED <<entries, shown, limit>>

Latest == CHOOSE e \in entries : IsLatest(e, entries)

\* handleSettleUp: what the page proposes is appended to what the storage holds
\* by then, and the page reads it again.
handleSettleUp(s) ==
  /\ Done /\ NextId <= MaxPaid
  /\ LET e == [id |-> NextId, prev |-> Latest.id, clock |-> Latest.clock + 1, ts |-> 1,
               type |-> "ExpenseCreated", dev |-> 1,
               payload |-> Settlement(s.from, s.to, s.amount)]
     IN /\ entries' = entries \cup {e}
        /\ show(entries \cup {e})
  /\ UNCHANGED limit

Next ==
  \/ arrival \/ refresh \/ render
  \/ \E s \in ToSet(settlements) : handleSettleUp(s)

Spec == Init /\ [][Next]_vars /\ WF_vars(render)

-----------------------------------------------------------------------------
\* Marking a payment as paid on a page that is up to date brings its two
\* members closer to zero and nobody further away or past it, in whatever order
\* the payments are marked.  (There may then be as many payments to propose as
\* before, and on a page that is behind, what has been paid can be paid again.)
PaidApproaches ==
  [][\A s \in ToSet(settlements) :
       handleSettleUp(s) /\ shown = entries =>
         LET b == computeBalances(entries)
             c == computeBalances(entries')
         IN /\ b[s.from] < c[s.from] /\ c[s.from] <= 0
            /\ b[s.to] > c[s.to] /\ c[s.to] >= 0
            /\ \A m \in Member \ {s.from, s.to} : c[m] = b[m]]_vars
=============================================================================
