----------------------------- MODULE ClockProofs -----------------------------
(***************************************************************************)
(* As long as no device is reloaded, no group deleted and no edit left     *)
(* while it is under way, no device issues a clock twice, and whatever the *)
(* relay refuses to store it already has.  (A device may forget what it    *)
(* has issued when it is reloaded or the group deleted.)                   *)
(*                                                                         *)
(* The invariant says why.  A device holds every entry it has issued, so   *)
(* one that is later than all it holds is later than all it has issued.    *)
(* The second entry of an edit has a clock that was foreseen, so nothing   *)
(* else may be issued meanwhile: its user has to stay on the page (the run *)
(* edit_cancelled shows what happens otherwise).                           *)
(***************************************************************************)
EXTENDS SplitLedgerProofs

\* A user is on one page, and stays there as long as an edit is under way.
OnePage ==
  \A d \in Device :
    /\ editing[d] # {} => /\ PatientUsers /\ page[d] = NoPage
                         /\ joining[d] = "no" /\ ledger[d] # {}
    /\ page[d] # NoPage => joining[d] = "no"
    /\ \A x, y \in editing[d] : x = y

Foreseen ==
  \A d \in Device : \A x \in editing[d] :
    \A e \in created : e.dev = d => e.clock < x.clock

ClockInv ==
  /\ LinkedInv
  /\ \A e \in created : e \in ledger[e.dev]
  /\ ClocksDistinct
  /\ OnePage
  /\ Foreseen

-----------------------------------------------------------------------------
(* The two kinds of steps.                                                 *)

LEMMA CreatedFields ==
  ASSUME LinkedInv, NEW e \in created
  PROVE  e.clock \in Nat /\ e.dev \in Device
  BY EntryFields DEF LinkedInv, StorageTypeOK

\* A step that issues nothing and forgets nothing.
LEMMA KeptClocks ==
  ASSUME ClockInv, LinkedInv', created' = created,
         \A x \in Device : ledger[x] \subseteq ledger'[x],
         \A x \in Device : \A y \in editing'[x] :
           \E z \in editing[x] : y.clock = z.clock,
         OnePage'
  PROVE  ClockInv'
  <1>1. \A e \in created' : e \in ledger'[e.dev]
    BY CreatedFields DEF ClockInv
  <1>2. ClocksDistinct' /\ Foreseen'
    BY DEF ClockInv, ClocksDistinct, Foreseen
  <1> QED BY <1>1, <1>2 DEF ClockInv

\* A step in which d issues an entry later than all it has issued.
LEMMA IssuedClock ==
  ASSUME ClockInv, LinkedInv', NEW d \in Device, NEW e,
         created' = created \cup {e}, ledger' = [ledger EXCEPT ![d] = @ \cup {e}],
         e.dev = d, e.clock \in Nat,
         \A f \in created : f.dev = d => f.clock < e.clock,
         \A x \in Device : \A y \in editing'[x] :
           IF x = d THEN /\ e.clock < y.clock
                         /\ \A f \in created : f.dev = d => f.clock < y.clock
           ELSE y \in editing[x],
         OnePage'
  PROVE  ClockInv'
  <1>1. ledger \in [Device -> SUBSET created]
    BY DEF ClockInv, LinkedInv, StorageTypeOK
  <1>2. \A f \in created' : f \in ledger'[f.dev]
    BY <1>1, CreatedFields DEF ClockInv
  <1>3. ClocksDistinct'
    <2> SUFFICES ASSUME NEW f \in created', NEW g \in created',
                        f.dev = g.dev, f.clock = g.clock
                 PROVE  f = g
      BY DEF ClocksDistinct
    <2>1. CASE f \in created /\ g \in created
      BY <2>1 DEF ClockInv, ClocksDistinct
    <2>2. CASE f = e /\ g \in created
      <3>1. g.clock \in Nat /\ g.clock < e.clock
        BY <2>2, CreatedFields DEF ClockInv
      <3> QED BY <2>2, <3>1
    <2>3. CASE f \in created /\ g = e
      <3>1. f.clock \in Nat /\ f.clock < e.clock
        BY <2>3, CreatedFields DEF ClockInv
      <3> QED BY <2>3, <3>1
    <2>4. CASE f = e /\ g = e
      BY <2>4
    <2> QED BY <2>1, <2>2, <2>3, <2>4
  <1>4. Foreseen'
    <2> SUFFICES ASSUME NEW x \in Device, NEW y \in editing'[x],
                        NEW f \in created', f.dev = x
                 PROVE  f.clock < y.clock
      BY DEF Foreseen
    <2>1. CASE x = d
      BY <2>1
    <2>2. CASE x # d
      BY <2>2 DEF ClockInv, Foreseen
    <2> QED BY <2>1, <2>2
  <1> QED BY <1>2, <1>3, <1>4 DEF ClockInv

\* An entry built on the last of the ledger is later than all its device issued.
LEMMA BuiltClock ==
  ASSUME ClockInv, NEW d \in Device, NEW last \in ledger[d], IsLatest(last, ledger[d]),
         NEW ts, NEW type, NEW payload, NEW e, e = buildEntry(d, last, ts, type, payload)
  PROVE  /\ e.dev = d /\ e.clock \in Nat /\ e.clock = last.clock + 1 /\ last.clock \in Nat
         /\ \A f \in created : f.dev = d => f.clock < e.clock
  <1>1. \A f \in ledger[d] : f.clock < e.clock
    BY BuiltIsLatest DEF ClockInv
  <1>2. last.clock \in Nat
    BY CreatedFields DEF ClockInv, LinkedInv, StorageTypeOK
  <1> QED BY <1>1, <1>2 DEF ClockInv, buildEntry

LEMMA WriteClock ==
  ASSUME ClockInv, NEW d \in Device, NEW type, NEW payload, NEW S,
         WriteAmid(d, type, payload, S)
  PROVE  \E e : /\ created' = created \cup {e}
                /\ ledger' = [ledger EXCEPT ![d] = @ \cup {e}]
                /\ editing' = [editing EXCEPT ![d] = Following(S, e)]
                /\ e.dev = d /\ e.clock \in Nat
                /\ \A f \in created : f.dev = d => f.clock < e.clock
                /\ \E last \in ledger[d] : /\ IsLatest(last, ledger[d])
                                           /\ e.clock = last.clock + 1
  <1>1. PICK last \in ledger[d], ts \in Stamp :
          /\ IsLatest(last, ledger[d])
          /\ Broadcast(d, buildEntry(d, last, ts, type, payload), S)
    BY DEF WriteAmid
  <1> DEFINE e == buildEntry(d, last, ts, type, payload)
  <1>2. /\ e.dev = d /\ e.clock \in Nat /\ e.clock = last.clock + 1
        /\ \A f \in created : f.dev = d => f.clock < e.clock
    BY <1>1, BuiltClock
  <1> HIDE DEF e
  <1>3. /\ created' = created \cup {e} /\ ledger' = [ledger EXCEPT ![d] = @ \cup {e}]
        /\ editing' = [editing EXCEPT ![d] = Following(S, e)]
    BY <1>1 DEF Broadcast, appendEntry, e
  <1> QED BY <1>1, <1>2, <1>3

-----------------------------------------------------------------------------
(* The handlers that issue.                                                *)

\* A user who may open a page has no edit under way.
LEMMA FreeOfEdits ==
  ASSUME ClockInv, NEW d \in Device, Free(d) \/ page[d] # NoPage \/ joining[d] # "no"
  PROVE  editing[d] = {}
  BY DEF ClockInv, OnePage, Free

LEMMA NoneFollow ==
  ASSUME ClockInv, NEW d \in Device, editing[d] = {}, NEW e,
         editing' = [editing EXCEPT ![d] = Following(editing[d], e)]
  PROVE  editing' = editing
  <1>1. Following(editing[d], e) = {}
    BY DEF Following
  <1>2. editing \in [Device -> SUBSET Edit]
    BY DEF ClockInv, LinkedInv, StorageTypeOK
  <1> QED BY <1>1, <1>2

\* One that issues while its device edits nothing.
LEMMA WritesOne ==
  ASSUME ClockInv, LinkedInv', NEW d \in Device, NEW e,
         created' = created \cup {e}, ledger' = [ledger EXCEPT ![d] = @ \cup {e}],
         e.dev = d, e.clock \in Nat,
         \A f \in created : f.dev = d => f.clock < e.clock,
         editing[d] = {}, editing' = editing,
         page' = page \/ page' = [page EXCEPT ![d] = NoPage],
         joining' = joining \/ joining' = [joining EXCEPT ![d] = "no"]
  PROVE  ClockInv'
  <1>1. /\ ledger \in [Device -> SUBSET created]
        /\ page \in [Device -> Page]
        /\ joining \in [Device -> {"no", "asked", "synced"}]
    BY DEF ClockInv, LinkedInv, StorageTypeOK
  <1>2. OnePage'
    <2> SUFFICES ASSUME NEW x \in Device
                 PROVE  /\ editing'[x] # {} => /\ PatientUsers /\ page'[x] = NoPage
                                               /\ joining'[x] = "no" /\ ledger'[x] # {}
                        /\ page'[x] # NoPage => joining'[x] = "no"
                        /\ \A y, z \in editing'[x] : y = z
      BY DEF OnePage
    <2>1. page'[x] \in {page[x], NoPage} /\ joining'[x] \in {joining[x], "no"}
      BY <1>1
    <2>2. ledger[x] \subseteq ledger'[x]
      BY <1>1
    <2> QED BY <2>1, <2>2 DEF ClockInv, OnePage
  <1> QED BY <1>2, IssuedClock

LEMMA WritersClock ==
  ASSUME ClockInv, LinkedInv', NEW d \in Device,
         \/ joinGroup(d) \/ addExpense(d)
         \/ removeMember(d) \/ authorizeDevice(d) \/ revokeDevice(d)
  PROVE  ClockInv'
  <1>1. \E type, payload : WriteAmid(d, type, payload, editing[d])
    BY DEF joinGroup, addExpense, removeMember, authorizeDevice, revokeDevice, Write
  <1>2. PICK e : /\ created' = created \cup {e}
                 /\ editing' = [editing EXCEPT ![d] = Following(editing[d], e)]
                 /\ ledger' = [ledger EXCEPT ![d] = @ \cup {e}]
                 /\ e.dev = d /\ e.clock \in Nat
                 /\ \A f \in created : f.dev = d => f.clock < e.clock
    BY <1>1, WriteClock
  <1>3. editing[d] = {} /\ editing' = editing
    <2>1. editing[d] = {}
      BY FreeOfEdits DEF joinGroup, addExpense, removeMember, authorizeDevice, revokeDevice
    <2> QED BY <1>2, <2>1, NoneFollow
  <1>4. /\ page' = page \/ page' = [page EXCEPT ![d] = NoPage]
        /\ joining' = joining \/ joining' = [joining EXCEPT ![d] = "no"]
    BY DEF joinGroup, addExpense, removeMember, authorizeDevice, revokeDevice, Close
  <1> QED BY <1>2, <1>3, <1>4, WritesOne

LEMMA BuildersClock ==
  ASSUME ClockInv, LinkedInv', NEW d \in Device, settleUp(d) \/ completeRecovery(d)
  PROVE  ClockInv'
  <1>1. PICK last, ts, type, payload :
          /\ last \in ledger[d] /\ IsLatest(last, ledger[d])
          /\ appendEntry(d, buildEntry(d, last, ts, type, payload), editing[d])
    <2>1. CASE settleUp(d)
      BY <2>1 DEF settleUp
    <2>2. CASE completeRecovery(d)
      BY <2>2 DEF completeRecovery
    <2> QED BY <2>1, <2>2
  <1> DEFINE e == buildEntry(d, last, ts, type, payload)
  <1>2. /\ e.dev = d /\ e.clock \in Nat
        /\ \A f \in created : f.dev = d => f.clock < e.clock
    BY <1>1, BuiltClock
  <1> HIDE DEF e
  <1>3. /\ created' = created \cup {e} /\ ledger' = [ledger EXCEPT ![d] = @ \cup {e}]
        /\ editing' = [editing EXCEPT ![d] = Following(editing[d], e)]
    BY <1>1 DEF appendEntry, e
  <1>4. editing[d] = {} /\ UNCHANGED <<page, editing, joining>>
    <2>1. Free(d) /\ UNCHANGED <<page, joining>>
      BY DEF settleUp, completeRecovery
    <2>2. editing[d] = {}
      BY <2>1, FreeOfEdits
    <2> QED BY <1>3, <2>1, <2>2, NoneFollow
  <1> QED BY <1>2, <1>3, <1>4, WritesOne

LEMMA createGroupClock ==
  ASSUME ClockInv, LinkedInv', NEW d \in Device, createGroup(d)
  PROVE  ClockInv'
  <1> DEFINE g(ts) == [id |-> 1, prev |-> NoHash, clock |-> 0, ts |-> ts,
                       type |-> "Genesis", dev |-> d,
                       payload |-> [member |-> Owner[d]]]
  <1>1. PICK ts \in Stamp : created' = {g(ts)} /\ ledger' = [ledger EXCEPT ![d] = {g(ts)}]
    BY DEF createGroup
  <1> DEFINE e == g(ts)
  <1>2. e.dev = d /\ e.clock \in Nat
    OBVIOUS
  <1> HIDE DEF e
  <1>3. /\ created = {} /\ ledger[d] = {}
        /\ page' = page /\ editing' = editing /\ joining' = joining
    BY DEF createGroup, ClockInv, LinkedInv, StorageTypeOK
  <1>4. editing[d] = {}
    BY <1>3 DEF ClockInv, OnePage
  <1>5. created' = created \cup {e} /\ ledger' = [ledger EXCEPT ![d] = @ \cup {e}]
    BY <1>1, <1>3 DEF e
  <1>6. \A f \in created : f.dev = d => f.clock < e.clock
    BY <1>3
  <1> QED BY <1>2, <1>3, <1>4, <1>5, <1>6, WritesOne

\* The voiding, and the clock foreseen for the expense that takes its place.
LEMMA editExpenseClock ==
  ASSUME "edit" \in Ops => PatientUsers,
         ClockInv, LinkedInv', NEW d \in Device, editExpense(d)
  PROVE  ClockInv'
  <1> DEFINE begun(v, l) == [latest  |-> l.id,
                             clock   |-> EditClock(l),
                             payer   |-> v.payload.payer,
                             members |-> page[d].members,
                             waits   |-> ChainValid(ledger'[d])]
  <1>13. PICK v \in ledger[d], last \in ledger[d] :
           /\ IsLatest(last, ledger[d])
           /\ WriteAmid(d, "ExpenseVoided", [ref |-> v.id], editing[d] \cup {begun(v, last)})
    BY DEF editExpense
  <1> DEFINE x == begun(v, last)
  <1>1. /\ last \in ledger[d] /\ IsLatest(last, ledger[d])
        /\ WriteAmid(d, "ExpenseVoided", [ref |-> v.id], editing[d] \cup {x})
        /\ x.clock = EditClock(last)
    BY <1>13
  <1> HIDE DEF x
  <1>2. PICK e : /\ created' = created \cup {e}
                 /\ ledger' = [ledger EXCEPT ![d] = @ \cup {e}]
                 /\ editing' = [editing EXCEPT ![d] = Following(editing[d] \cup {x}, e)]
                 /\ e.dev = d /\ e.clock \in Nat
                 /\ \A f \in created : f.dev = d => f.clock < e.clock
                 /\ \E l \in ledger[d] : e.clock = l.clock + 1
    BY <1>1, WriteClock
  <1>3. \A f \in ledger[d] : f.clock \in Nat /\ f.clock <= last.clock
    <2>1. \A f \in ledger[d] : f.clock \in Nat
      BY CreatedFields DEF ClockInv, LinkedInv, StorageTypeOK
    <2> QED BY <1>1, <2>1 DEF IsLatest, Before
  <1>4. /\ page \in [Device -> Page] /\ editing \in [Device -> SUBSET Edit]
        /\ ledger \in [Device -> SUBSET created]
        /\ editing' \in [Device -> SUBSET Edit]
    BY DEF ClockInv, LinkedInv, StorageTypeOK
  <1>5. page[d] # NoPage /\ page' = [page EXCEPT ![d] = NoPage] /\ joining' = joining
        /\ PatientUsers
    BY DEF editExpense, Close
  <1>6. editing[d] = {}
    BY <1>5, FreeOfEdits
  <1> DEFINE y == [x EXCEPT !.latest = e.id]
  <1>7. editing'[d] = {y}
    BY <1>2, <1>4, <1>6 DEF Following
  <1> HIDE DEF y
  <1>8. y.clock = last.clock + 2
    <2>1. y \in Edit
      BY <1>4, <1>7
    <2>2. y.clock = x.clock
      BY <2>1 DEF y, Edit
    <2> QED BY <1>1, <2>2 DEF EditClock
  <1>9. e.clock < y.clock
    BY <1>1, <1>2, <1>3, <1>8
  <1>10. \A f \in created : f.dev = d => f.clock < y.clock
    <2>1. y.clock \in Nat
      BY <1>1, <1>3, <1>8
    <2> QED BY <1>2, <1>9, <2>1, CreatedFields DEF ClockInv
  <1>11. \A z \in Device \ {d} : editing'[z] = editing[z]
    BY <1>2, <1>4
  <1>12. OnePage'
    <2> SUFFICES ASSUME NEW z \in Device
                 PROVE  /\ editing'[z] # {} => /\ PatientUsers /\ page'[z] = NoPage
                                               /\ joining'[z] = "no" /\ ledger'[z] # {}
                        /\ page'[z] # NoPage => joining'[z] = "no"
                        /\ \A a, b \in editing'[z] : a = b
      BY DEF OnePage
    <2>1. CASE z = d
      BY <1>2, <1>4, <1>5, <1>7, <2>1 DEF ClockInv, OnePage
    <2>2. CASE z # d
      BY <1>2, <1>4, <1>5, <1>11, <2>2 DEF ClockInv, OnePage
    <2> QED BY <2>1, <2>2
  <1> QED BY <1>2, <1>7, <1>9, <1>10, <1>11, <1>12, IssuedClock

LEMMA finishEditClock ==
  ASSUME ClockInv, LinkedInv', NEW d \in Device, finishEdit(d)
  PROVE  ClockInv'
  <1>1. editing \in [Device -> SUBSET Edit] /\ ledger \in [Device -> SUBSET created]
    BY DEF ClockInv, LinkedInv, StorageTypeOK
  <1> DEFINE g(y, t) == [id |-> Cardinality(created) + 1, prev |-> y.latest,
                          clock |-> y.clock, ts |-> t,
                          type |-> "ExpenseCreated", dev |-> d,
                          payload |-> NewExpense(y.payer, y.members)]
  <1>9. PICK x \in editing[d], ts \in Stamp : Broadcast(d, g(x, ts), editing[d] \ {x})
    BY DEF finishEdit
  <1> DEFINE e == g(x, ts)
  <1>2. appendEntry(d, e, editing[d] \ {x}) /\ e.dev = d /\ e.clock = x.clock
    BY <1>9 DEF Broadcast
  <1> HIDE DEF e
  <1>3. created' = created \cup {e} /\ ledger' = [ledger EXCEPT ![d] = @ \cup {e}]
    BY <1>2 DEF appendEntry
  <1>4. e.clock \in Nat /\ \A f \in created : f.dev = d => f.clock < e.clock
    BY <1>1, <1>2 DEF Edit, ClockInv, Foreseen
  <1>5. editing' = [editing EXCEPT ![d] = {}] /\ UNCHANGED <<page, joining>>
    <2>1. editing[d] \ {x} = {}
      BY <1>2 DEF ClockInv, OnePage
    <2>2. Following(editing[d] \ {x}, e) = {}
      BY <2>1 DEF Following
    <2> QED BY <1>2, <2>2 DEF appendEntry, finishEdit
  <1>6. OnePage'
    <2> SUFFICES ASSUME NEW z \in Device
                 PROVE  /\ editing'[z] # {} => /\ PatientUsers /\ page'[z] = NoPage
                                               /\ joining'[z] = "no" /\ ledger'[z] # {}
                        /\ page'[z] # NoPage => joining'[z] = "no"
                        /\ \A v, w \in editing'[z] : v = w
      BY DEF OnePage
    <2>1. editing'[z] \subseteq editing[z] /\ ledger[z] \subseteq ledger'[z]
      BY <1>1, <1>3, <1>5
    <2> QED BY <1>5, <2>1 DEF ClockInv, OnePage
  <1>7. \A z \in Device : \A y \in editing'[z] : z # d /\ y \in editing[z]
    BY <1>1, <1>5
  <1> QED BY <1>2, <1>3, <1>4, <1>6, <1>7, IssuedClock

-----------------------------------------------------------------------------
(* The others.                                                             *)

\* The edits under way keep their clocks when they follow another entry or go on.
LEMMA GoingOn ==
  ASSUME ClockInv, NEW d \in Device,
         \/ \E e : editing' = [editing EXCEPT ![d] = Following(@, e)]
         \/ editing' = [editing EXCEPT ![d] = Resumed(@)]
         \/ \E x \in editing[d] : editing' = [editing EXCEPT ![d] = @ \ {x}]
         \/ editing' = editing
  PROVE  /\ \A x \in Device : \A y \in editing'[x] : \E z \in editing[x] : y.clock = z.clock
         /\ \A x \in Device : editing'[x] # {} => editing[x] # {}
         /\ \A x \in Device : \A y, z \in editing'[x] : y = z
  <1>1. editing \in [Device -> SUBSET Edit]
    BY DEF ClockInv, LinkedInv, StorageTypeOK
  <1>2. \A x \in Device : \A y, z \in editing[x] : y = z
    BY DEF ClockInv, OnePage
  <1>3. CASE \E e : editing' = [editing EXCEPT ![d] = Following(@, e)]
    <2>1. PICK e : editing' = [editing EXCEPT ![d] = Following(@, e)]
      BY <1>3
    <2> DEFINE after(z) == [z EXCEPT !.latest = e.id]
    <2>2. editing'[d] = { after(z) : z \in editing[d] }
      BY <1>1, <2>1 DEF Following
    <2>3. \A z \in editing[d] : after(z).clock = z.clock
      BY <1>1 DEF Edit
    <2> HIDE DEF after
    <2>4. \A x \in Device \ {d} : editing'[x] = editing[x]
      BY <1>1, <2>1
    <2>5. \A y \in editing'[d] : \E z \in editing[d] : y.clock = z.clock
      BY <2>2, <2>3
    <2>6. \A y, z \in editing'[d] : y = z
      BY <1>2, <2>2
    <2> QED BY <1>2, <2>4, <2>5, <2>6
  <1>4. CASE editing' = [editing EXCEPT ![d] = Resumed(@)]
    <2> DEFINE after(z) == [z EXCEPT !.waits = FALSE]
    <2>2. editing'[d] = { after(z) : z \in editing[d] }
      BY <1>1, <1>4 DEF Resumed
    <2>3. \A z \in editing[d] : after(z).clock = z.clock
      BY <1>1 DEF Edit
    <2> HIDE DEF after
    <2>4. \A x \in Device \ {d} : editing'[x] = editing[x]
      BY <1>1, <1>4
    <2>5. \A y \in editing'[d] : \E z \in editing[d] : y.clock = z.clock
      BY <2>2, <2>3
    <2>6. \A y, z \in editing'[d] : y = z
      BY <1>2, <2>2
    <2> QED BY <1>2, <2>4, <2>5, <2>6
  <1>5. CASE \/ \E x \in editing[d] : editing' = [editing EXCEPT ![d] = @ \ {x}]
             \/ editing' = editing
    <2>1. \A x \in Device : editing'[x] \subseteq editing[x]
      BY <1>1, <1>5
    <2> QED BY <1>2, <2>1
  <1> QED BY <1>3, <1>4, <1>5

LEMMA ReceiversClock ==
  ASSUME ClockInv, LinkedInv', NEW d \in Device,
         processIncomingEntry(d) \/ initialSync(d)
  PROVE  ClockInv'
  <1>1. /\ ledger \in [Device -> SUBSET created]
        /\ page \in [Device -> Page]
        /\ joining \in [Device -> {"no", "asked", "synced"}]
    BY DEF ClockInv, LinkedInv, StorageTypeOK
  <1>2. CASE initialSync(d)
    <2>1. /\ created' = created /\ page' = page
          /\ joining' = [joining EXCEPT ![d] = IF @ = "asked" THEN "synced" ELSE @]
          /\ \E S : ledger' = [ledger EXCEPT ![d] = ledger[d] \cup S]
      <3>1. \E S : ledger' = [ledger EXCEPT ![d] = ledger[d] \cup S]
        <4> DEFINE S == Head(inbox[d]).entries
        <4>1. ledger' = [ledger EXCEPT ![d] =
                           IF ChainValid(S) THEN ledger[d] \cup S ELSE ledger[d]]
          BY <1>2 DEF initialSync
        <4> HIDE DEF S
        <4>2. ledger[d] = ledger[d] \cup {}
          OBVIOUS
        <4> QED BY <4>1, <4>2
      <3> QED BY <1>2, <3>1 DEF initialSync
    <2>2. \A x \in Device : ledger[x] \subseteq ledger'[x]
      BY <1>1, <2>1
    <2>3. \A x \in Device : joining[x] = "no" => joining'[x] = "no"
      BY <1>1, <2>1
    <2>4. editing' = editing \/ \E e : editing' = [editing EXCEPT ![d] = Following(@, e)]
      BY <1>2 DEF initialSync
    <2>5. /\ \A x \in Device : \A y \in editing'[x] : \E z \in editing[x] : y.clock = z.clock
          /\ \A x \in Device : editing'[x] # {} => editing[x] # {}
          /\ \A x \in Device : \A y, z \in editing'[x] : y = z
      BY <2>4, GoingOn
    <2>6. OnePage'
      BY <2>1, <2>2, <2>3, <2>5 DEF ClockInv, OnePage
    <2> QED BY <2>1, <2>2, <2>5, <2>6, KeptClocks
  <1>3. CASE processIncomingEntry(d)
    <2>1. created' = created /\ joining' = joining
      BY <1>3 DEF processIncomingEntry
    <2>2. \/ \E e, st, L :
               /\ ledger' = [ledger EXCEPT ![d] = ledger[d] \cup {e}]
               /\ page' = [page EXCEPT ![d] = PageAfter(@, st, L)]
               /\ editing' = [editing EXCEPT ![d] = Following(@, e)]
          \/ UNCHANGED <<ledger, page, editing>>
      <3>1. PICK e : \/ /\ ledger' = [ledger EXCEPT ![d] = ledger[d] \cup {e}]
                        /\ page' = [page EXCEPT ![d] =
                             PageAfter(@, applyEntry(e, cache[d]), ledger[d] \cup {e})]
                        /\ editing' = [editing EXCEPT ![d] = Following(@, e)]
                     \/ UNCHANGED <<ledger, page, editing>>
        BY <1>3 DEF processIncomingEntry
      <3> DEFINE st == applyEntry(e, cache[d])
                 L  == ledger[d] \cup {e}
      <3>2. \/ /\ ledger' = [ledger EXCEPT ![d] = ledger[d] \cup {e}]
               /\ page' = [page EXCEPT ![d] = PageAfter(@, st, L)]
               /\ editing' = [editing EXCEPT ![d] = Following(@, e)]
            \/ UNCHANGED <<ledger, page, editing>>
        BY <3>1
      <3> HIDE DEF st, L
      <3> QED BY <3>2
    <2>3. \A x \in Device : ledger[x] \subseteq ledger'[x]
      BY <1>1, <2>2
    <2>4. \A x \in Device : page[x] = NoPage => page'[x] = NoPage
      <3>1. \A st, L : PageAfter(NoPage, st, L) = NoPage
        BY DEF PageAfter, NoPage
      <3>2. page' = page \/ \E st, L : page' = [page EXCEPT ![d] = PageAfter(@, st, L)]
        BY <2>2
      <3> QED BY <1>1, <3>1, <3>2
    <2>5. editing' = editing \/ \E e : editing' = [editing EXCEPT ![d] = Following(@, e)]
      BY <2>2
    <2>6. /\ \A x \in Device : \A y \in editing'[x] : \E z \in editing[x] : y.clock = z.clock
          /\ \A x \in Device : editing'[x] # {} => editing[x] # {}
          /\ \A x \in Device : \A y, z \in editing'[x] : y = z
      BY <2>5, GoingOn
    <2>7. OnePage'
      BY <2>1, <2>3, <2>4, <2>6 DEF ClockInv, OnePage
    <2> QED BY <2>1, <2>3, <2>6, <2>7, KeptClocks
  <1> QED BY <1>2, <1>3

LEMMA OthersClock ==
  ASSUME ClockInv, LinkedInv', NEW d \in Device,
         \/ syncGroupFromRelay(d) \/ joinGroupFails(d) \/ viewGroup(d) \/ openAddExpense(d)
         \/ syncWithRelayDone(d) \/ refreshAgain(d) \/ backgroundSync(d)
         \/ connect(d) \/ connectFails(d) \/ reconnect(d) \/ disconnect(d) \/ editFails(d)
  PROVE  ClockInv'
  <1>1. UNCHANGED <<created, ledger>>
    BY DEF syncGroupFromRelay, joinGroupFails, viewGroup, openAddExpense, syncWithRelayDone,
           refreshAgain, backgroundSync, connect, connectFails, reconnect, disconnect,
           editFails, device
  <1>4. /\ \A x \in Device : \A y \in editing'[x] : \E z \in editing[x] : y.clock = z.clock
        /\ \A x \in Device : editing'[x] # {} => editing[x] # {}
        /\ \A x \in Device : \A y, z \in editing'[x] : y = z
    <2>1. \/ editing' = [editing EXCEPT ![d] = Resumed(@)]
          \/ \E x \in editing[d] : editing' = [editing EXCEPT ![d] = @ \ {x}]
          \/ editing' = editing
      BY DEF syncGroupFromRelay, joinGroupFails, viewGroup, openAddExpense, syncWithRelayDone,
             refreshAgain, backgroundSync, connect, connectFails, reconnect, disconnect,
             editFails, device
    <2> QED BY <2>1, GoingOn
  <1>2. /\ page \in [Device -> Page]
        /\ joining \in [Device -> {"no", "asked", "synced"}]
    BY DEF ClockInv, LinkedInv, StorageTypeOK
  <1>3. OnePage'
    <2>1. CASE syncGroupFromRelay(d)
      <3>1. /\ page' = page /\ page[d] = NoPage /\ editing[d] = {}
            /\ \A x \in Device \ {d} : joining'[x] = joining[x]
        BY <1>2, <2>1, FreeOfEdits DEF syncGroupFromRelay, Free
      <3> QED BY <1>1, <1>4, <3>1 DEF ClockInv, OnePage
    <2>2. CASE openAddExpense(d)
      <3>1. /\ joining' = joining /\ editing[d] = {} /\ joining[d] = "no"
            /\ \A x \in Device \ {d} : page'[x] = page[x]
        BY <1>2, <2>2, FreeOfEdits DEF openAddExpense, Free
      <3> QED BY <1>1, <1>4, <3>1 DEF ClockInv, OnePage
    <2>3. CASE ~(syncGroupFromRelay(d) \/ openAddExpense(d))
      <3>1. \/ joining' = joining
            \/ joining' = [joining EXCEPT ![d] = "no"]
            \/ joining' = [joining EXCEPT ![d] = IF @ = "asked" THEN "synced" ELSE @]
        BY <2>3 DEF joinGroupFails, viewGroup, syncWithRelayDone, refreshAgain,
             backgroundSync, connect, connectFails, reconnect, disconnect, editFails, device
      <3>2. \A x \in Device : joining[x] = "no" => joining'[x] = "no"
        BY <1>2, <3>1
      <3>3. ASSUME refreshAgain(d) PROVE \A x \in Device : page[x] = NoPage => page'[x] = NoPage
        <4>1. page' = [page EXCEPT ![d].live = @ /\ ~ChainValid(ledger[d])]
          BY <3>3 DEF refreshAgain
        <4> DEFINE b == page[d].live /\ ~ChainValid(ledger[d])
                   k == [page[d] EXCEPT !.live = b]
        <4>2. page' = [page EXCEPT ![d] = k]
          BY <4>1
        <4>3. page[d] = NoPage => b = FALSE
          <5>1. page[d] = NoPage => page[d].live = FALSE
            BY DEF NoPage
          <5> QED BY <5>1, Zenon
        <4> HIDE DEF b
        <4>4. page[d] = NoPage => k = NoPage
          <5> SUFFICES ASSUME page[d] = NoPage PROVE k = NoPage
            OBVIOUS
          <5>1. page[d] \in Page
            BY <1>2
          <5>2. page[d].members = {} /\ b = FALSE
            BY <4>3 DEF NoPage
          <5>3. k \in Page /\ k.members = page[d].members /\ k.live = FALSE
            BY <5>1, <5>2 DEF Page
          <5> HIDE DEF k
          <5> QED BY <5>2, <5>3 DEF Page, NoPage
        <4> HIDE DEF k
        <4> QED BY <1>2, <4>2, <4>4
      <3>4. \A x \in Device : page[x] = NoPage => page'[x] = NoPage
        BY <2>3, <3>3 DEF joinGroupFails, viewGroup, syncWithRelayDone, backgroundSync,
             connect, connectFails, reconnect, disconnect, editFails, device
      <3> QED BY <1>1, <1>4, <3>2, <3>4 DEF ClockInv, OnePage
    <2> QED BY <2>1, <2>2, <2>3
  <1> QED BY <1>1, <1>3, <1>4, KeptClocks

LEMMA NextClock ==
  ASSUME Faults \cap {"reload", "delete"} = {}, "edit" \in Ops => PatientUsers
  PROVE  ClockInv /\ [Next]_vars => ClockInv'
  <1> SUFFICES ASSUME ClockInv, [Next]_vars PROVE ClockInv'
    OBVIOUS
  <1>1. LinkedInv'
    BY NextLinked DEF ClockInv
  <1>2. ASSUME NEW d \in Device, Step(d) PROVE ClockInv'
    <2>1. ~reload(d) /\ ~deleteGroup(d)
      BY DEF reload, deleteGroup, Fault
    <2> QED BY <1>1, <1>2, <2>1, createGroupClock, WritersClock, BuildersClock,
               editExpenseClock, finishEditClock, ReceiversClock, OthersClock DEF Step
  <1>3. CASE pruneOldEntries \/ UNCHANGED vars
    <2>1. UNCHANGED <<created, ledger, editing, page, joining>>
      BY <1>3 DEF pruneOldEntries, device, vars
    <2>2. OnePage'
      BY <2>1 DEF ClockInv, OnePage
    <2> QED BY <1>1, <2>1, <2>2, KeptClocks
  <1> QED BY <1>2, <1>3 DEF Next

LEMMA InitClock == Init => ClockInv
  <1> SUFFICES ASSUME Init PROVE ClockInv
    OBVIOUS
  <1>1. LinkedInv
    BY InitLinked
  <1>2. ClocksDistinct /\ OnePage /\ Foreseen /\ created = {}
    BY DEF Init, ClocksDistinct, OnePage, Foreseen
  <1> QED BY <1>1, <1>2 DEF ClockInv

-----------------------------------------------------------------------------
\* No device issues a clock twice, whoever edits, is removed, loses the
\* connection or misses an entry, unless it forgets what it has issued or its
\* user writes something else while an edit awaits its voiding.
THEOREM ClocksNeverReused ==
  ASSUME Faults \cap {"reload", "delete"} = {}, "edit" \in Ops => PatientUsers
  PROVE  Spec => []ClocksDistinct
  <1>1. ClockInv => ClocksDistinct
    BY DEF ClockInv
  <1> QED BY InitClock, NextClock, <1>1, PTL DEF Spec

\* Then an entry the relay refuses under UNIQUE(group, clock, sender) is the
\* one it has, as handlePublishEntry says of it.
THEOREM DuplicatesOnly ==
  ASSUME Faults \cap {"reload", "delete"} = {}, "edit" \in Ops => PatientUsers
  PROVE  Spec => []RefusedIsDuplicate
  <1>1. ClockInv => RefusedIsDuplicate
    BY DEF ClockInv, LinkedInv, StorageTypeOK, ClocksDistinct, RefusedIsDuplicate
  <1> QED BY InitClock, NextClock, <1>1, PTL DEF Spec
=============================================================================
