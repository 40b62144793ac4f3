---------------------------- MODULE Corrections ----------------------------
(***************************************************************************)
(* The expenses of a storage in which expenses, corrections and voidings   *)
(* arrive from several devices, each after what it refers to but otherwise *)
(* in any order, and what getEffectiveExpenses and computeBalances make of *)
(* them after every arrival.  Accounts adds the page that shows them.      *)
(***************************************************************************)
EXTENDS Balance

CONSTANTS
  Payer,        \* bound: who pays what arrives
  Sharer,       \* bound: who share it
  MaxEntries,   \* bound: entries when the last one arrives
  MaxClock      \* bound: their clocks

ASSUME CorrectionsAssumption ==
  Payer \cup Sharer \subseteq Member /\ MaxEntries \in Nat /\ MaxClock \in Nat

VARIABLE entries   \* the entries in storage

NextId == Cardinality(entries) + 1

\* An expense, told apart from others by its amount.
Shared(payer) ==
  [amount |-> Cardinality(Sharer) * NextId, payer |-> payer,
   splits |-> [m \in Sharer |-> NextId]]

\* The clock of the entry with this id: a device that refers to an entry has
\* it, and issues a larger clock.
ClockOf(id) == (CHOOSE f \in entries : f.id = id).clock

arrive(type, payload, after) ==
  \E clock \in after + 1 .. MaxClock, dev \in Device :
    LET e == [id |-> NextId, prev |-> NoHash, clock |-> clock, ts |-> 1,
              type |-> type, dev |-> dev, payload |-> payload]
    IN /\ \A f \in entries : ~ (f.clock = clock /\ f.dev = dev)
       /\ entries' = entries \cup {e}

expenseArrives ==
  \E m \in Payer : arrive("ExpenseCreated", Shared(m), -1)

\* What validateCorrection and validateVoided let through.
Referable == { f.id : f \in { g \in entries : RefersToExpense(g.id, entries) } }

correctionArrives ==
  \E m \in Payer, ref \in Referable :
    arrive("ExpenseCorrection", [ref |-> ref, corrected |-> Shared(m)], ClockOf(ref))

voidingArrives ==
  \E ref \in Referable : arrive("ExpenseVoided", [ref |-> ref], ClockOf(ref))

Arrival == expenseArrives \/ correctionArrives \/ voidingArrives

-----------------------------------------------------------------------------
(***************************************************************************)
(* The last word on an expense: of it and of all that goes back to it, the *)
(* entry that is last in the total order, whatever arrived last.           *)
(***************************************************************************)
Expenses == { e.id : e \in { f \in entries : f.type = "ExpenseCreated" } }

Root ==
  LET root[id \in 1 .. Cardinality(entries)] ==
        IF id \in Expenses THEN id
        ELSE root[(CHOOSE e \in entries : e.id = id).payload.ref]
  IN  root

GoesBackTo(id) == LET root == Root IN { e \in entries : root[e.id] = id }

LastWord(id) == CHOOSE e \in GoesBackTo(id) : IsLatest(e, GoesBackTo(id))

\* An expense is in effect as the last word on it states it, and not at all
\* when that is a voiding (getEffectiveExpenses).
LastWordCounts ==
  LET effective == getEffectiveExpenses(entries)
  IN /\ DOMAIN effective = { id \in Expenses : LastWord(id).type # "ExpenseVoided" }
     /\ \A id \in DOMAIN effective :
          effective[id] = IF LastWord(id).type = "ExpenseCreated" THEN LastWord(id).payload
                          ELSE LastWord(id).payload.corrected

\* "Invariant: sum of all balances === 0", through any corrections and voidings
\* (computeBalances).
BalancesCancel == SumFunction(computeBalances(entries)) = 0
=============================================================================
