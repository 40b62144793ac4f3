--------------------------- MODULE SettlementLoop ---------------------------
(***************************************************************************)
(* computeSettlements of packages/core/src/balance.ts, one iteration of    *)
(* its loop per step.  Accounts runs it on the balances of a group.        *)
(***************************************************************************)
EXTENDS Balance, SequencesExt

VARIABLES
  balances,     \* the input
  debtors,      \* the two lines, with what each is left to pay or to be paid
  creditors,
  di, ci,       \* the positions in the lines
  settlements   \* the payments so far

loop == <<balances, debtors, creditors, di, ci, settlements>>

\* Mutant: the lines are not sorted.
LineUnsorted(b, Q) == SetToSeq({ [pubkey |-> m, amount |-> Size(b, m)] : m \in Q })

\* The members of Q, the largest balance first: each in the place behind all
\* that are ahead of it.
Line(b, Q) ==
  [n \in 1 .. Cardinality(Q) |->
     LET m == CHOOSE x \in Q : Cardinality(Ahead(b, Q, x)) = n - 1
     IN  [pubkey |-> m, amount |-> Size(b, m)]]

LoopInit ==
  /\ balances = [m \in Member |-> 0]
  /\ debtors = <<>> /\ creditors = <<>>
  /\ di = 1 /\ ci = 1
  /\ settlements = <<>>

begin(b) ==
  /\ balances' = b
  /\ debtors' = Line(b, Debtors(b))
  /\ creditors' = Line(b, Creditors(b))
  /\ di' = 1 /\ ci' = 1
  /\ settlements' = <<>>

Done == di > Len(debtors) \/ ci > Len(creditors)

\* Mutants: a rest of one unit is taken for a rounding error; the comparison
\* is wrong.
AdvancedTooSoon(line, i) == IF line[i].amount <= 1 THEN i + 1 ELSE i
AdvancedNever(line, i) == IF line[i].amount < 0 THEN i + 1 ELSE i

\* Past the member at the front once nothing is left.
Advanced(line, i) == IF line[i].amount = 0 THEN i + 1 ELSE i

pay ==
  /\ ~Done
  /\ LET debtor   == debtors[di]
         creditor == creditors[ci]
         amount   == IF debtor.amount < creditor.amount THEN debtor.amount ELSE creditor.amount
     IN /\ settlements' = IF amount > 0
                          THEN Append(settlements, [from |-> debtor.pubkey, to |-> creditor.pubkey,
                                                    amount |-> amount])
                          ELSE settlements
        /\ debtors' = [debtors EXCEPT ![di].amount = @ - amount]
        /\ creditors' = [creditors EXCEPT ![ci].amount = @ - amount]
        /\ di' = Advanced(debtors', di)
        /\ ci' = Advanced(creditors', ci)
  /\ UNCHANGED balances

-----------------------------------------------------------------------------
\* Each payment is the overlap of the two members' stretches of their lines,
\* which is how the rest of the model states what the loop computes.
PaysOverlaps ==
  Done => /\ ToSet(settlements) = computeSettlements(balances)
          /\ Len(settlements) = Cardinality(computeSettlements(balances))

\* What the payments, once they are entered, are to a member.
Entered(m) ==
  SumFunction([i \in DOMAIN settlements |->
                 LET s == settlements[i] IN Credit(Settlement(s.from, s.to, s.amount), m)])

\* When the loop is over, the payments as the page enters them bring everyone
\* to zero, and they are fewer than the members.
SettlesAll ==
  Done => /\ \A m \in Member : balances[m] + Entered(m) = 0
          /\ settlements # <<>> => Len(settlements) < Cardinality(Member)

\* The loop ends.
Returns == []<>Done
=============================================================================
