------------------------------- MODULE Ledger -------------------------------
(***************************************************************************)
(* The ledger of one group: its entries, their total order, the validation *)
(* of an entry against the entries and the group state that precede it,    *)
(* the application of an entry to the group state and the validation of a  *)
(* whole chain.  packages/core/src/ledger.ts is a module of pure functions *)
(* and so is this one: it has no variables.                                *)
(*                                                                         *)
(* Abstractions.  An entry carries its own hash, `id`.  An id is issued    *)
(* when the entry is built and never issued again, which is what a         *)
(* collision-free hash of the content gives; a link to an entry (`prev`,   *)
(* `ref`) is its id.  Signatures are those of the device named in the      *)
(* entry: every entry of the model was built by its creator's device.      *)
(* Device keys are naturals, ordered as localeCompare orders their text.   *)
(* There is one group, so the group id of an invite always matches.        *)
(***************************************************************************)
EXTENDS Integers, FiniteSets, Folds, Functions

CONSTANTS
  Member,    \* root public keys
  Device,    \* device public keys
  Stamp,     \* timestamps an entry may carry
  Amount     \* amounts and shares, in minor units

ASSUME LedgerAssumption ==
  /\ Device \subseteq Nat
  /\ Stamp \subseteq Nat
  /\ IsFiniteSet(Member) /\ "" \notin Member
  /\ Amount \subseteq Int /\ 0 .. Cardinality(Member) \subseteq Amount

NoHash == 0      \* previousHash = null
NoOne  == ""     \* creatorRootPubkey before the genesis entry

EntryType ==
  { "Genesis", "ExpenseCreated", "ExpenseCorrection", "ExpenseVoided",
    "MemberAdded", "MemberRemoved", "DeviceAuthorized", "DeviceRevoked",
    "RootKeyRotation" }

(***************************************************************************)
(* Payloads.  An expense names the payer and maps the members that share   *)
(* it to their shares.                                                     *)
(***************************************************************************)
Shares  == UNION { [S -> Amount] : S \in SUBSET Member }
Expense == [amount : Amount, payer : Member, splits : Shares]

PayloadOf ==
  [Genesis           |-> [member : Member],
   ExpenseCreated    |-> Expense,
   ExpenseCorrection |-> [ref : Nat, corrected : Expense],
   ExpenseVoided     |-> [ref : Nat],
   MemberAdded       |-> [member : Member, inviter : Member],
   MemberRemoved     |-> [member : Member],
   DeviceAuthorized  |-> [member : Member, device : Device],
   DeviceRevoked     |-> [member : Member, device : Device],
   RootKeyRotation   |-> [member : Member, next : Member, signers : SUBSET Member]]

EntryOf(type) ==
  [id : Nat \ {NoHash}, prev : Nat, clock : Nat, ts : Stamp, type : {type},
   dev : Device, payload : PayloadOf[type]]

Entry ==
  EntryOf("Genesis") \cup EntryOf("ExpenseCreated") \cup EntryOf("ExpenseCorrection")
    \cup EntryOf("ExpenseVoided") \cup EntryOf("MemberAdded") \cup EntryOf("MemberRemoved")
    \cup EntryOf("DeviceAuthorized") \cup EntryOf("DeviceRevoked")
    \cup EntryOf("RootKeyRotation")

(***************************************************************************)
(* The deterministic total order: clock, timestamp, device key, hash.      *)
(***************************************************************************)
Before(e, f) ==
  \/ e.clock < f.clock
  \/ /\ e.clock = f.clock
     /\ \/ e.ts < f.ts
        \/ /\ e.ts = f.ts
           /\ \/ e.dev < f.dev
              \/ e.dev = f.dev /\ e.id < f.id

Preceding(S, e) == { f \in S : Before(f, e) }

\* The last element of orderEntries(S).
IsLatest(e, S) == e \in S /\ \A f \in S \ {e} : Before(f, e)

-----------------------------------------------------------------------------
(***************************************************************************)
(* The group state an entry is validated against.  A member the map of the *)
(* code has no key for is inactive here and has no device: no function of  *)
(* this module can tell the two apart.                                     *)
(***************************************************************************)
GroupState ==
  [members : [Member -> [active : BOOLEAN, devices : SUBSET Device]],
   creator : Member \cup {NoOne},
   clock   : Nat]

createEmptyGroupState ==
  [members |-> [m \in Member |-> [active |-> FALSE, devices |-> {}]],
   creator |-> NoOne,
   clock   |-> 0]

isActiveMember(m, st) == st.members[m].active
ActiveMembers(st) == { m \in Member : isActiveMember(m, st) }

deviceBelongsToMember(d, m, st) ==
  m # NoOne /\ d \in st.members[m].devices

\* The members that list device d.  findDeviceOwner takes the first that
\* joined; two list d only once a root key was rotated, and the first is then
\* the old key, inactive.  Asking that all be active comes to the same.
Owners(d, st) == { m \in Member : d \in st.members[m].devices }

-----------------------------------------------------------------------------
(***************************************************************************)
(* Validation of one entry.                                                *)
(***************************************************************************)
\* Mutant: the previous hash is only asked to be there.
PreviousHashUnknown(e, preceding) ==
  IF e.type = "Genesis" THEN e.prev = NoHash /\ preceding = {} ELSE e.prev # NoHash

\* Mutant: the previous entry is to be the latest one.
PreviousHashLatest(e, preceding) ==
  IF e.type = "Genesis"
  THEN e.prev = NoHash /\ preceding = {}
  ELSE \E f \in preceding : f.id = e.prev /\ \A g \in preceding : g.clock <= f.clock

PreviousHashOK(e, preceding) ==
  IF e.type = "Genesis"
  THEN e.prev = NoHash /\ preceding = {}
  ELSE e.prev # NoHash /\ \E f \in preceding : f.id = e.prev

\* Mutant: a device that nobody lists is let through.
UnknownDeviceAuthorized(e, st) ==
  \/ e.type \in {"Genesis", "MemberAdded"}
  \/ \A m \in Owners(e.dev, st) : isActiveMember(m, st)

validateCreatorAuthorization(e, st) ==
  \/ e.type \in {"Genesis", "MemberAdded"}
  \/ /\ Owners(e.dev, st) # {}
     /\ \A m \in Owners(e.dev, st) : isActiveMember(m, st)

validateExpense(x, st) ==
  /\ x.amount > 0
  /\ isActiveMember(x.payer, st)
  /\ \A m \in DOMAIN x.splits : x.splits[m] >= 0 /\ isActiveMember(m, st)
  /\ SumFunction(x.splits) = x.amount

RefersToExpense(ref, preceding) ==
  \E f \in preceding :
    f.id = ref /\ f.type \in {"ExpenseCreated", "ExpenseCorrection"}

\* floor(active others / 2) + 1 distinct active members other than the one
\* that rotates its key.
Threshold(m, st) == (Cardinality(ActiveMembers(st) \ {m}) \div 2) + 1

validateRotation(p, st) ==
  /\ isActiveMember(p.member, st)
  /\ Cardinality((p.signers \cap ActiveMembers(st)) \ {p.member})
       >= Threshold(p.member, st)

\* The member itself or the creator of the group may remove an active member.
validateMemberRemoved(e, st) ==
  /\ isActiveMember(e.payload.member, st)
  /\ \/ deviceBelongsToMember(e.dev, e.payload.member, st)
     \/ deviceBelongsToMember(e.dev, st.creator, st)

validateDeviceAuthorized(p, st) == isActiveMember(p.member, st)
validateDeviceRevoked(p, st)    == deviceBelongsToMember(p.device, p.member, st)

validatePayload(e, preceding, st) ==
  CASE e.type = "Genesis"        -> TRUE
    [] e.type = "ExpenseCreated" -> validateExpense(e.payload, st)
    [] e.type = "ExpenseCorrection" ->
         /\ RefersToExpense(e.payload.ref, preceding)
         /\ validateExpense(e.payload.corrected, st)
    [] e.type = "ExpenseVoided"  -> RefersToExpense(e.payload.ref, preceding)
    [] e.type = "MemberAdded"    -> /\ ~isActiveMember(e.payload.member, st)
                                    /\ isActiveMember(e.payload.inviter, st)
    [] e.type = "MemberRemoved"    -> validateMemberRemoved(e, st)
    [] e.type = "DeviceAuthorized" -> validateDeviceAuthorized(e.payload, st)
    [] e.type = "DeviceRevoked"    -> validateDeviceRevoked(e.payload, st)
    [] e.type = "RootKeyRotation"  -> validateRotation(e.payload, st)

validateEntry(e, preceding, st) ==
  /\ PreviousHashOK(e, preceding)
  /\ validateCreatorAuthorization(e, st)
  /\ validatePayload(e, preceding, st)

-----------------------------------------------------------------------------
(***************************************************************************)
(* Application of a validated entry.                                       *)
(***************************************************************************)
Joined(d) == [active |-> TRUE, devices |-> {d}]

\* The members after entry e.
MembersAfter(e, ms) ==
  LET p == e.payload IN
  CASE e.type \in {"Genesis", "MemberAdded"} ->
         [ms EXCEPT ![p.member] = Joined(e.dev)]
    [] e.type = "MemberRemoved" ->
         [ms EXCEPT ![p.member].active = FALSE]
    [] e.type = "DeviceAuthorized" ->
         [ms EXCEPT ![p.member].devices = @ \cup {p.device}]
    [] e.type = "DeviceRevoked" ->
         [ms EXCEPT ![p.member].devices = @ \ {p.device}]
    [] e.type = "RootKeyRotation" ->
         [ms EXCEPT ![p.member].active = FALSE,
                    ![p.next] = [active |-> TRUE, devices |-> {}]]
    [] OTHER -> ms

CreatorAfter(e, creator) ==
  CASE e.type = "Genesis" -> e.payload.member
    [] e.type = "RootKeyRotation" /\ creator = e.payload.member -> e.payload.next
    [] OTHER -> creator

\* Mutant: the clock counts the entries before this one.
applyEntryClockBefore(e, st) ==
  [st EXCEPT !.members = MembersAfter(e, @),
             !.creator = CreatorAfter(e, @),
             !.clock   = e.clock - 1]

applyEntry(e, st) ==
  [st EXCEPT !.members = MembersAfter(e, @),
             !.creator = CreatorAfter(e, @),
             !.clock   = IF e.clock > @ THEN e.clock ELSE @]

-----------------------------------------------------------------------------
(***************************************************************************)
(* Validation of a whole chain: every entry, in the total order, against   *)
(* the entries before it and the state they produce.  The code replays the *)
(* valid entries past an invalid one but returns no state then, so the     *)
(* state matters only where every entry before was valid.                  *)
(***************************************************************************)
StateOf(S) ==
  MapThenFoldSet(applyEntry, createEmptyGroupState, LAMBDA e : e,
                 LAMBDA T : CHOOSE e \in T : IsLatest(e, T), S)

\* The entries of S, each with the state it is validated against.
Replay(S) == { <<e, StateOf(Preceding(S, e))>> : e \in S }

ChainValid(S) ==
  \A step \in Replay(S) : validateEntry(step[1], Preceding(S, step[1]), step[2])
=============================================================================
