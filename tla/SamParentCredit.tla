--------------------------- MODULE SamParentCredit ---------------------------
(***************************************************************************)
(* The transient-memory ledger of the SAM parents (sam_resources.py), one  *)
(* _ByteAdmissionPool (interpolation.py) under one condition.  A parent is *)
(* granted its base and an extra in one acquisition and never waits with a *)
(* part of it; while it works, its tracker scopes borrow banks and its     *)
(* retry groups run on fresh credit of their own, both without waiting.    *)
(* The charge of a parent goes back when its owner has left and the last   *)
(* borrower has settled, in whatever order they do.  Other work reserves   *)
(* plain bytes in the same pool.  The image staging pool and the credit of *)
(* the startup are left out; Base includes the mandatory image debt.       *)
(***************************************************************************)
EXTENDS Integers, FiniteSets, FiniteSetsExt, SequencesExt, Totals

CONSTANTS Parents,
          Children, Lender,    \* retry groups, and the parent that issues each
          Callers, Ask,        \* plain reservations and their bytes
          Base, Mandatory,     \* bytes of a parent; those with an image phase
          Allowance, SdkFloor, \* the identified share of a base, and 2 GiB of it
          MinExtra, MaxExtra,
          MaxBank,             \* MAX_TRACKER_LOOKAHEAD_BYTES
          Headrooms,           \* what the probe of physical memory may answer
          Capacity,            \* of the pool at the start
          Scopes               \* bound: tracker scopes of each lease

ASSUME CreditAssumption ==
  /\ IsFiniteSet(Parents \union Children \union Callers) /\ Parents \intersect Children = {}
  /\ Lender \in [Children -> Parents] /\ Scopes \in [Parents \union Children -> Nat]
  /\ Base \in [Parents -> Nat \ {0}] /\ Ask \in [Callers -> Nat \ {0}]
  /\ Mandatory \subseteq Parents /\ Allowance \in Nat /\ SdkFloor \in Nat /\ MaxBank \in Nat
  /\ MinExtra \in Nat \ {0} /\ MaxExtra \in Nat /\ MinExtra <= MaxExtra
  /\ Headrooms \subseteq Nat /\ Capacity \in Nat \ {0}

VARIABLES
  capacity, inUse,
  emergency,  \* oversize_requested_bytes # 0
  pending,    \* parents with a registered protection
  lease,      \* parent or child -> its lease
  request,    \* child -> state of its one-shot callback
  bank,       \* lease -> the tracker scope that borrows from it
  plain,      \* caller -> its reservation
  stop        \* the cancel event of the SAM context

credit == <<capacity, inUse, emergency, pending, lease, request, bank, plain, stop>>

Leases == Parents \union Children
NoLease == [state |-> "none", base |-> 0, extra |-> 0, charge |-> 0, over |-> FALSE, holds |-> 0]
NoBank == [open |-> FALSE, by |-> {}, lent |-> FALSE, bytes |-> 0, uses |-> 0]

CreditInit ==
  /\ capacity = Capacity /\ inUse = 0 /\ emergency = FALSE /\ pending = {}
  /\ lease = [l \in Leases |-> NoLease]
  /\ request = [c \in Children |-> "none"]
  /\ bank = [l \in Leases |-> NoBank]
  /\ stop = FALSE
  /\ plain = [q \in Callers |-> [state |-> "idle", charge |-> 0, over |-> FALSE]]

AtMost(a, b) == IF a < b THEN a ELSE b
AtLeast0(a) == IF a < 0 THEN 0 ELSE a

-----------------------------------------------------------------------------
(* Protections of waiting parents: they hold capacity back from the others *)
(* and grant nothing.  The capacity never shrinks while the pool lives.    *)

Protection(set) == Total([p \in Parents |-> Base[p] + MinExtra], set)

\* register_sam_parent_protection declines what can never fit beside the others.
Register(p) ==
  /\ p \notin pending /\ Base[p] + MinExtra <= capacity - Protection(pending)
  /\ pending' = pending \union {p}

-----------------------------------------------------------------------------
(* admit_sam_parent_resources: one evaluation of the waiting loop, with    *)
(* the answer h of the probe.                                              *)

Needs(p) == AtMost(Base[p], capacity)
Others(p) == Protection(pending \ {p})

\* The ledger alone: protected by others, in use, or an oversize parent that must be alone.
Blocked(p) ==
  \/ Others(p) > 0 /\ inUse + Needs(p) > capacity - Others(p)
  \/ inUse > 0 /\ inUse + Needs(p) > capacity
  \/ Base[p] > capacity /\ inUse > 0

\* A mandatory image phase cannot fit, even alone: SamMandatoryImageAdmissionError.
Unsupported(p, h) ==
  /\ p \in Mandatory
  /\ \/ Base[p] > capacity
     \/ ~Blocked(p) /\ h < Base[p] /\ inUse = 0

Free(p) == capacity - inUse - Needs(p) - Others(p)
FreeRam(p, h) == AtLeast0(h - Base[p] - inUse) \div 2

\* Memory that others hold denies what the parent could have alone.
BaseBlocked(p, h) ==
  LET fixed == AtMost(Needs(p), Allowance)
  IN fixed > SdkFloor /\ h >= fixed /\ h - inUse < fixed
ExtraBlocked(p, h) ==
  /\ Base[p] + MinExtra <= capacity /\ AtLeast0(h - Base[p]) \div 2 >= MinExtra
  /\ Free(p) < MinExtra \/ FreeRam(p, h) < MinExtra

Waits(p, h) ==
  \/ Blocked(p)
  \/ p \in Mandatory /\ h < Base[p] + inUse
  \/ (inUse > 0 \/ Others(p) > 0) /\ (BaseBlocked(p, h) \/ ExtraBlocked(p, h))

Grant(p, h) ==
  /\ ~Unsupported(p, h) /\ ~Waits(p, h)
  /\ LET offer == Min({MaxExtra, Free(p), FreeRam(p, h)})
         extra == IF Base[p] > capacity \/ offer < MinExtra THEN 0 ELSE offer
     IN /\ lease' = [lease EXCEPT ![p] = [state |-> "live", base |-> Needs(p), extra |-> extra,
                       charge |-> Needs(p) + extra, over |-> Base[p] > capacity, holds |-> 0]]
        /\ inUse' = inUse + Needs(p) + extra
  /\ emergency' = (emergency \/ Base[p] > capacity)
  /\ pending' = pending \ {p}
  /\ UNCHANGED <<capacity, request, bank, plain, stop>>

-----------------------------------------------------------------------------
(* Settlement.                                                             *)

\* Mutant of Due: the owner's exit returns the credit although it is still borrowed.
DueAtExit(ls, l) == ls[l].state = "closed"

Due(ls, l) == ls[l].state = "closed" /\ ls[l].holds = 0

\* _return_parent_credit_if_settled: the lease l of ls, and with a child the hold on its
\* lender, which may be the last one.
Settle(ls, l) ==
  LET child == l \in Children /\ Due(ls, l)
      after == IF child THEN [ls EXCEPT ![Lender[l]].holds = @ - 1] ELSE ls
      gone == {k \in {l} \union (IF child THEN {Lender[l]} ELSE {}) : Due(after, k)}
  IN /\ lease' = [k \in Leases |-> IF k \in gone THEN [after[k] EXCEPT !.state = "returned"]
                                                 ELSE after[k]]
     /\ inUse' = inUse - Total([k \in Leases |-> ls[k].charge], gone)
     /\ emergency' = (emergency /\ \A k \in gone : ~ls[k].over)

\* The owner leaves: its permission ends, its credit may be held on.
Close(l) ==
  /\ lease[l].state = "live" /\ "creator" \notin bank[l].by
  /\ Settle([lease EXCEPT ![l].state = "closed"], l)

\* A request ends with the credit of its child.
Settled(req) == [c \in Children |-> IF lease'[c].state = "returned" THEN "settled" ELSE req[c]]

-----------------------------------------------------------------------------
(* A tracker scope: SamTrackerScopeAdmission.                              *)

\* admit_sam_tracker_scope: whatever is free now, and never a wait; a full ledger before the
\* probe, or a failed probe, means no bytes.
Borrow(l, n, h) ==
  /\ lease[l].state = "live" /\ ~bank[l].open /\ bank[l].uses < Scopes[l]
  /\ n <= Min({MaxBank, AtLeast0(capacity - inUse - Protection(pending)),
               AtLeast0(h - inUse - IF l \in Parents THEN Base[l] - lease[l].base ELSE 0)})
  /\ inUse' = inUse + n
  /\ bank' = [bank EXCEPT ![l] = [NoBank EXCEPT !.open = TRUE,
                                       !.by = {"creator"}, !.bytes = n, !.uses = bank[l].uses + 1]]
  /\ lease' = [lease EXCEPT ![l].holds = @ + 1]
  /\ UNCHANGED <<capacity, emergency, pending, request, plain, stop>>

\* acquire_scope: the scheduler takes its own hold, once.
Acquire(l) ==
  /\ lease[l].state = "live" /\ "creator" \in bank[l].by /\ ~bank[l].lent
  /\ bank' = [bank EXCEPT ![l].by = @ \union {"scheduler"}, ![l].lent = TRUE]
  /\ lease' = [lease EXCEPT ![l].holds = @ + 1]
  /\ UNCHANGED <<capacity, inUse, emergency, pending, request, plain, stop>>

\* The hold goes first: close by the producer, release_scope by the scheduler.
Leave(l, who) ==
  /\ who \in bank[l].by
  /\ bank' = [bank EXCEPT ![l].by = @ \ {who}]
  /\ Settle([lease EXCEPT ![l].holds = @ - 1], l)
  /\ request' = Settled(request)
  /\ UNCHANGED <<capacity, pending, plain, stop>>

\* _return_bank_if_settled, after both have left: the bytes, which outlive the lease.
ReturnBank(l) ==
  /\ bank[l].open /\ bank[l].by = {}
  /\ inUse' = inUse - bank[l].bytes
  /\ bank' = [bank EXCEPT ![l].open = FALSE, ![l].bytes = 0]
  /\ UNCHANGED <<capacity, emergency, pending, lease, request, plain, stop>>

-----------------------------------------------------------------------------
(* A retry group: _RetryChildResources.  Its callback holds the lender from *)
(* the issue on, and the child takes that hold over.                        *)

Demand(c) == AtMost(lease[Lender[c]].base, Allowance) + lease[Lender[c]].extra

\* Mutant of Room: a retry group may take what is kept for a waiting parent.
RoomUnprotected(c) == ~emergency /\ Demand(c) <= capacity - inUse

\* _capacity_reason is absent.
Room(c) == ~emergency /\ Demand(c) <= AtLeast0(capacity - inUse - Protection(pending))

Issue(c) ==
  /\ request[c] = "none" /\ lease[Lender[c]].state = "live"
  /\ request' = [request EXCEPT ![c] = "issued"]
  /\ lease' = [lease EXCEPT ![Lender[c]].holds = @ + 1]
  /\ UNCHANGED <<capacity, inUse, emergency, pending, bank, plain, stop>>

\* _finish_pending: declined or revoked, and never charged.
FinishPending(c) ==
  /\ request' = [request EXCEPT ![c] = "settled"]
  /\ Settle([lease EXCEPT ![Lender[c]].holds = @ - 1], Lender[c])
  /\ UNCHANGED <<capacity, pending, bank, plain, stop>>

Revoke(c) == request[c] = "issued" /\ FinishPending(c)     \* cancel_if_unstarted
Decline(c) == request[c] = "declined" /\ FinishPending(c)

\* The first locked section of _claim, before the probe.
Start(c) ==
  /\ request[c] = "issued"
  /\ request' = [request EXCEPT ![c] = IF ~stop /\ Room(c) THEN "started" ELSE "declined"]
  /\ UNCHANGED <<capacity, inUse, emergency, pending, lease, bank, plain, stop>>

Affordable(c, h) ==
  /\ Room(c)
  /\ h >= inUse + AtMost(lease[Lender[c]].base, Allowance) + 2 * lease[Lender[c]].extra

\* The second section, _try_charge, after the probe answered h.
Charge(c, h) ==
  /\ request[c] = "started" /\ ~stop /\ Affordable(c, h)
  /\ request' = [request EXCEPT ![c] = "active"]
  /\ inUse' = inUse + Demand(c)
  /\ lease' = [lease EXCEPT ![c] = [NoLease EXCEPT !.state = "live", !.charge = Demand(c),
                 !.base = AtMost(lease[Lender[c]].base, Allowance), !.extra = lease[Lender[c]].extra]]
  /\ UNCHANGED <<capacity, emergency, pending, bank, plain, stop>>
Refuse(c, h) ==
  /\ request[c] = "started" /\ (stop \/ ~Affordable(c, h))
  /\ request' = [request EXCEPT ![c] = "declined"]
  /\ UNCHANGED <<capacity, inUse, emergency, pending, lease, bank, plain, stop>>

\* The callback returns; a scope that the scheduler still holds keeps the child's credit.
EndChild(c) ==
  /\ Close(c) /\ request' = Settled(request)
  /\ UNCHANGED <<capacity, pending, bank, plain, stop>>

\* Nothing that runs under the owner of p is left: its producers and its retry groups.
Alone(p) == \A c \in Children : Lender[c] = p => request[c] \in {"none", "settled"}

-----------------------------------------------------------------------------
(* Plain reservations: _ByteAdmissionPool.reserve, which knows no          *)
(* protections and has one lane for a request above the whole capacity.    *)

Reserve(q) ==
  /\ plain[q].state = "idle"
  /\ ~emergency /\ (inUse > 0 => inUse + AtMost(Ask[q], capacity) <= capacity)
  /\ plain' = [plain EXCEPT ![q] = [state |-> "held", charge |-> AtMost(Ask[q], capacity),
                                        over |-> Ask[q] > capacity]]
  /\ inUse' = inUse + AtMost(Ask[q], capacity)
  /\ emergency' = (Ask[q] > capacity)
  /\ UNCHANGED <<capacity, pending, lease, request, bank, stop>>

\* The charge of the grant is returned, whatever the capacity is now.
Unreserve(q) ==
  /\ plain[q].state = "held"
  /\ plain' = [plain EXCEPT ![q].state = "done"]
  /\ inUse' = inUse - plain[q].charge
  /\ emergency' = (emergency /\ ~plain[q].over)
  /\ UNCHANGED <<capacity, pending, lease, request, bank, stop>>

-----------------------------------------------------------------------------
(* Properties of the ledger. *)

Borrowers(l) == Cardinality(bank[l].by) +
  Cardinality({c \in Children : Lender[c] = l /\ request[c] \in {"issued", "started", "declined", "active"}})
Charged == {l \in Leases : lease[l].state \in {"live", "closed"}}
Reserved == {q \in Callers : plain[q].state = "held"}
Oversize == {l \in Charged : lease[l].over} \union {q \in Reserved : plain[q].over}

\* The counter of the pool is the sum of what is out: parents, children, banks and plain
\* reservations; the holds of a lease are its borrowers, and a lease is returned exactly when
\* its owner has left and nobody borrows from it, in every order in which the owner of a parent,
\* the scheduler and the retry groups let go.  (A lender does not leave before its groups have
\* settled, Alone, so that the return of a group is never the last hold on its lender.)  A
\* request above the capacity is flagged, fills the pool and is alone in it.
CreditIsExact ==
  /\ inUse = Total([l \in Leases |-> lease[l].charge], Charged)
             + Total([l \in Leases |-> bank[l].bytes], Leases)
             + Total([q \in Callers |-> plain[q].charge], Reserved)
  /\ \A l \in Leases : /\ lease[l].state \in {"live", "closed"} => lease[l].holds = Borrowers(l)
                       /\ lease[l].state = "closed" => lease[l].holds > 0
                       /\ lease[l].state = "returned" => Borrowers(l) = 0
  /\ inUse <= capacity /\ emergency = (Oversize # {})
  /\ emergency => Cardinality(Charged) + Cardinality(Reserved) = 1 /\ inUse = capacity

\* What is admitted with knowledge of the protections, a parent, a retry group or a bank, never
\* takes capacity that is held for a waiting parent.
ProtectionIsKept ==
  [][inUse' > inUse /\ plain' = plain => inUse' + Protection(pending') <= capacity']_credit
=============================================================================
