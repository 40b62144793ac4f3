------------------------------ MODULE Balance ------------------------------
(***************************************************************************)
(* What the entries of a group say about money: the expenses in effect,    *)
(* who is owed how much, and the payments that settle it.  A module of     *)
(* pure functions, like packages/core/src/balance.ts.                      *)
(***************************************************************************)
EXTENDS Ledger

-----------------------------------------------------------------------------
(***************************************************************************)
(* The expenses in effect.  `root` is the map of the code from a           *)
(* correction, or the voiding of one, to what it corrects; the loop of the *)
(* code follows it to the end, which takes at most one step per key.       *)
(***************************************************************************)
Original(id, root) ==
  LET at[n \in 0 .. Cardinality(DOMAIN root)] ==
        IF n = 0 THEN id
        ELSE IF at[n - 1] \in DOMAIN root THEN root[at[n - 1]] ELSE at[n - 1]
  IN  at[Cardinality(DOMAIN root)]

Put(f, k, v) == [x \in DOMAIN f \cup {k} |-> IF x = k THEN v ELSE f[x]]

\* Mutant: a voiding or a correction of a correction is not followed to the
\* expense that was corrected.
TakeEffectUnresolved(e, eff) ==
  CASE e.type = "ExpenseCreated" ->
         [eff EXCEPT !.expenses = Put(@, e.id, e.payload)]
    [] e.type = "ExpenseCorrection" ->
         [eff EXCEPT !.expenses = Put(@, e.payload.ref, e.payload.corrected)]
    [] e.type = "ExpenseVoided" ->
         [eff EXCEPT !.expenses = Restrict(@, DOMAIN @ \ {e.payload.ref})]
    [] OTHER -> eff

TakeEffect(e, eff) ==
  LET original == Original(e.payload.ref, eff.root) IN
  CASE e.type = "ExpenseCreated" ->
         [eff EXCEPT !.expenses = Put(@, e.id, e.payload)]
    [] e.type = "ExpenseCorrection" ->
         [expenses |-> Put(eff.expenses, original, e.payload.corrected),
          root     |-> Put(eff.root, e.id, original)]
    [] e.type = "ExpenseVoided" ->
         [expenses |-> Restrict(eff.expenses, DOMAIN eff.expenses \ {original}),
          root     |-> Put(eff.root, e.id, original)]
    [] OTHER -> eff

getEffectiveExpenses(S) ==
  MapThenFoldSet(TakeEffect, [expenses |-> <<>>, root |-> <<>>], LAMBDA e : e,
                 LAMBDA T : CHOOSE e \in T : IsLatest(e, T), S).expenses

-----------------------------------------------------------------------------
(***************************************************************************)
(* Balances: positive for a member who is owed.                            *)
(***************************************************************************)
\* Mutant: the payer's own share is not deducted.
CreditInFull(x, m) ==
  IF m = x.payer THEN x.amount
  ELSE IF m \in DOMAIN x.splits THEN -x.splits[m] ELSE 0

Credit(x, m) ==
  (IF m = x.payer THEN x.amount ELSE 0)
    - (IF m \in DOMAIN x.splits THEN x.splits[m] ELSE 0)

computeBalances(S) ==
  LET X == getEffectiveExpenses(S) IN
  [m \in Member |-> SumFunction([i \in DOMAIN X |-> Credit(X[i], m)])]

-----------------------------------------------------------------------------
(***************************************************************************)
(* Settlements.  The code lines the debtors up by what they owe and the    *)
(* creditors by what they are owed, the largest first, and pays along both *)
(* lines.  A member then stands for a stretch of its line, and pays, or is *)
(* paid by, those whose stretches overlap with its own.  (Where two        *)
(* balances are equal the code keeps the order of its map; any fixed order *)
(* does here.)                                                             *)
(***************************************************************************)
Rank == CHOOSE f \in [Member -> 1 .. Cardinality(Member)] : IsInjective(f)

Debtors(b)   == { m \in Member : b[m] < 0 }
Creditors(b) == { m \in Member : b[m] > 0 }

Size(b, m) == IF b[m] < 0 THEN -b[m] ELSE b[m]

\* The members of line Q ahead of m.
Ahead(b, Q, m) ==
  { x \in Q : \/ Size(b, x) > Size(b, m)
              \/ Size(b, x) = Size(b, m) /\ Rank[x] < Rank[m] }

Start(b, Q, m)  == SumFunctionOnSet([x \in Member |-> Size(b, x)], Ahead(b, Q, m))
End(b, Q, m) == Start(b, Q, m) + Size(b, m)

Overlap(from, to, start, end) ==
  (IF to < end THEN to ELSE end) - (IF from > start THEN from ELSE start)

computeSettlements(b) ==
  { s \in { [from |-> f, to |-> t,
             amount |-> Overlap(Start(b, Debtors(b), f), End(b, Debtors(b), f),
                                Start(b, Creditors(b), t), End(b, Creditors(b), t))]
            : f \in Debtors(b), t \in Creditors(b) } : s.amount > 0 }

\* Mutant: the creditor is entered as the one who paid.
SettlementReversed(from, to, amount) ==
  [amount |-> amount, payer |-> to, splits |-> [m \in {from} |-> amount]]

\* A settlement is an expense that the debtor pays and the creditor consumes.
Settlement(from, to, amount) ==
  [amount |-> amount, payer |-> from, splits |-> [m \in {to} |-> amount]]
=============================================================================
