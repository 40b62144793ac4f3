---------------------------- MODULE MCSplitLedger ----------------------------
(***************************************************************************)
(* Instances of SplitLedger for TLC.                                       *)
(***************************************************************************)
EXTENDS SplitLedgerProperties

\* Each member has a device of their own.
OwnDevice == [d \in Device |-> CASE d = 1 -> "ann" [] d = 2 -> "bob" [] d = 3 -> "cat"]

\* Devices 1 and 3 are both ann's.
SharedDevices == [d \in Device |-> IF d = 2 THEN "bob" ELSE "ann"]

(***************************************************************************)
(* Later in the life of the group: the first device of each member, 1, 2   *)
(* and so on, has created it or joined it, and everything has been         *)
(* delivered and saved.                                                    *)
(***************************************************************************)
Settled == { d \in Device : \A c \in Device : c < d => Owner[c] # Owner[d] }

JoinEntry(d) ==
  [id |-> d, prev |-> d - 1, clock |-> d - 1, ts |-> 1, dev |-> d,
   type |-> IF d = 1 THEN "Genesis" ELSE "MemberAdded",
   payload |-> IF d = 1 THEN [member |-> Owner[1]]
               ELSE [member |-> Owner[d], inviter |-> Owner[1]]]

InGroup(yes, no) == [d \in Device |-> IF d \in Settled THEN yes ELSE no]

InitFormed ==
  /\ created = { JoinEntry(d) : d \in Settled }
  /\ ledger  = InGroup(created, {})
  /\ cache   = InGroup(StateOf(created), NoState)
  /\ disk    = InGroup(created, {})
  /\ page    = [d \in Device |-> NoPage]
  /\ editing = [d \in Device |-> {}]
  /\ refresh = [d \in Device |-> "idle"]
  /\ joining = [d \in Device |-> "no"]
  /\ conn    = InGroup(TRUE, FALSE)
  /\ inbox   = [d \in Device |-> <<>>]
  /\ store   = created
  /\ faults  = 0

SpecFormed == InitFormed /\ [][Next]_vars

FairSpecFormed == SpecFormed /\ Fairness

MembersOf2 == {"ann", "bob"}
\* "cat" has no device where there are two owners: a root key to be generated.
MembersOf3 == {"ann", "bob", "cat"}
=============================================================================
