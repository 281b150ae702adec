-------------------------------- MODULE Custody --------------------------------
(***************************************************************************)
(* Deposit addresses.  A pool address is imported AVAILABLE, a derived one *)
(* is born ASSIGNED; either serves one subject at a time (a trade, or the  *)
(* delivery of one route obligation), cools down after it and then returns *)
(* to the pool or is retired.  The open assignment of an address is the    *)
(* only thing that says whose money arrives there (D-02).                  *)
(***************************************************************************)
EXTENDS Naturals, FiniteSets

CONSTANTS
  Pool,     \* the addresses the custody provider lists
  Derived,  \* the addresses derived from the HD account
  Subjects, \* what an address can be assigned to, once
  Nobody    \* no subject

ASSUME CustodyAssumption ==
  /\ Pool \cap Derived = {} /\ IsFiniteSet(Pool \cup Derived)
  /\ Nobody \notin Subjects

VARIABLES
  status,   \* deposit_address.status, ABSENT before the row exists
  assigned, \* deposit_assignment: the address each subject was ever given
  released  \* the subjects whose assignment has a released_at

custodyVars == <<status, assigned, released>>

-----------------------------------------------------------------------------
Addresses == Pool \cup Derived
Unassigned == "unassigned"

CustodyTypeOK ==
  /\ status \in [Addresses -> {"ABSENT", "AVAILABLE", "ASSIGNED", "COOLDOWN", "RETIRED"}]
  /\ assigned \in [Subjects -> Addresses \cup {Unassigned}]
  /\ released \subseteq {s \in Subjects : assigned[s] # Unassigned}

\* The subjects with an open assignment of an address; the holder is its only one.
Open(a)   == {s \in Subjects \ released : assigned[s] = a}
Holder(a) == IF Open(a) = {} THEN Nobody ELSE CHOOSE s \in Open(a) : TRUE

\* watchedAddresses: the addresses the scanner reads, deposit side.
Watched == {a \in Addresses : status[a] \in {"ASSIGNED", "COOLDOWN"}}

-----------------------------------------------------------------------------
CustodyInit ==
  /\ status = [a \in Addresses |-> "ABSENT"]
  /\ assigned = [s \in Subjects |-> Unassigned]
  /\ released = {}

\* importPoolAddresses: known addresses are skipped, whatever their status.
Import(a) ==
  /\ a \in Pool /\ status[a] = "ABSENT"
  /\ status' = [status EXCEPT ![a] = "AVAILABLE"]
  /\ UNCHANGED <<assigned, released>>

\* An AVAILABLE row locked with SKIP LOCKED, or an index never drawn before.
Issuable(a) == \/ a \in Pool /\ status[a] = "AVAILABLE"
               \/ a \in Derived /\ status[a] = "ABSENT"

\* allocateDepositAddress, allocateObligationDeliveryAddress: one per subject, ever.
Allocate(s, a) ==
  /\ assigned[s] = Unassigned /\ Issuable(a)
  /\ status' = [status EXCEPT ![a] = "ASSIGNED"]
  /\ assigned' = [assigned EXCEPT ![s] = a]
  /\ UNCHANGED released

\* releaseAssignment.
Release(s) ==
  /\ assigned[s] # Unassigned /\ s \notin released
  /\ released' = released \cup {s}
  /\ status' = [status EXCEPT ![assigned[s]] = "COOLDOWN"]
  /\ UNCHANGED assigned

\* releaseCooledDownAddresses, for one address whose cooldown ran out.
CoolDown(a) ==
  /\ status[a] = "COOLDOWN"
  /\ status' = [status EXCEPT ![a] = IF a \in Pool THEN "AVAILABLE" ELSE "RETIRED"]
  /\ UNCHANGED <<assigned, released>>

\* retireDepositAddress.
Retire(a) ==
  /\ status[a] \in {"AVAILABLE", "COOLDOWN"}
  /\ status' = [status EXCEPT ![a] = "RETIRED"]
  /\ UNCHANGED <<assigned, released>>

-----------------------------------------------------------------------------
\* IX043 and deposit_assignment_one_open_per_address, from the commands alone: an
\* address is ASSIGNED exactly while one subject holds it, and two subjects only ever
\* share a pool address, one after the other.
OneHolder ==
  /\ \A a \in Addresses : IF status[a] = "ASSIGNED" THEN Cardinality(Open(a)) = 1 ELSE Open(a) = {}
  /\ \A s, t \in Subjects : s # t /\ assigned[s] = assigned[t] /\ assigned[s] # Unassigned
       => assigned[s] \in Pool /\ {s, t} \cap released # {}
=============================================================================
