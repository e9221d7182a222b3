--------------------------- MODULE SamParentProofs ---------------------------
(***************************************************************************)
(* Proofs about the credit of the SAM parents, for every number of         *)
(* parents, tiles, retry groups and plain reservations and for every size. *)
(* A settlement of a child may settle its lender too; the parts of the     *)
(* ledger therefore take the leases as an argument, so that the lemmas can *)
(* speak of the state between an owner's exit and the return of credit.    *)
(***************************************************************************)
EXTENDS SamParentStaging, DataProofs

-----------------------------------------------------------------------------
(* The inductive invariant. *)

\* What the fields of a lease, a bank and a plain reservation hold.
LeaseSet == [state : {"none", "live", "closed", "returned"}, base : Nat, extra : Nat,
             charge : Nat, over : BOOLEAN, holds : Nat]
BankSet == [open : BOOLEAN, by : SUBSET {"creator", "scheduler"}, lent : BOOLEAN,
            bytes : Nat, uses : Nat]
PlainSet == [state : {"idle", "held", "done"}, charge : Nat, over : BOOLEAN]
Requested == {"none", "issued", "started", "declined", "active", "settled"}
Places == {"away", "checkpoint", "deferred", "ready", "restoring", "asking", "working",
           "finished", "retired", "withdrawn", "failing", "failed"}

\* The types of the variables, as far as the proofs need them.
TypeOK ==
  /\ capacity \in Nat \ {0} /\ inUse \in Nat /\ emergency \in BOOLEAN /\ pending \subseteq Parents
  /\ lease \in [Leases -> LeaseSet] /\ request \in [Children -> Requested]
  /\ bank \in [Leases -> BankSet] /\ plain \in [Callers -> PlainSet]
  /\ place \in [Parents -> Places] /\ denseLimit \in Int

Out(ls) == {l \in Leases : ls[l].state \in {"live", "closed"}}
Held(pl) == {q \in Callers : pl[q].state = "held"}

ChargeOf(ls) == [l \in Leases |-> ls[l].charge]
BytesOf(b) == [l \in Leases |-> b[l].bytes]
PlainOf(pl) == [q \in Callers |-> pl[q].charge]

\* The counter is the sum of what is out.
Balanced(ls, b, pl, used) ==
  used = Total(ChargeOf(ls), Out(ls)) + Total(BytesOf(b), Leases) + Total(PlainOf(pl), Held(pl))

\* An oversize grant is as large as the pool and alone in it; whatever a parent or a caller
\* holds is more than nothing.
Flagged(ls, pl, used, cap, flag) ==
  /\ used <= cap
  /\ \A l \in Out(ls) : (ls[l].over => ls[l].charge = cap /\ flag) /\ (l \in Parents => ls[l].charge > 0)
  /\ \A q \in Held(pl) : (pl[q].over => pl[q].charge = cap /\ flag) /\ pl[q].charge > 0
  /\ flag => /\ used = cap
             /\ \/ \E l \in Leases : Out(ls) = {l} /\ ls[l].over /\ Held(pl) = {}
                \/ \E q \in Callers : Out(ls) = {} /\ Held(pl) = {q} /\ pl[q].over

\* The retry groups whose callback holds the lease p.
Groups(p, r) == {c \in Children : Lender[c] = p /\ r[c] \in {"issued", "started", "declined", "active"}}
Holders(l, b, r) == Cardinality(b[l].by) + Cardinality(Groups(l, r))

\* A lease counts its borrowers, and has none before its grant and after its return.
Holdings(ls, b, r) ==
  \A l \in Leases : /\ ls[l].holds = Holders(l, b, r)
                    /\ ls[l].state \in {"none", "returned"} => ls[l].holds = 0

\* The callback of a retry group is active exactly while its credit is out.
Callbacks(ls, r) ==
  \A c \in Children : /\ r[c] = "active" <=> c \in Out(ls)
                      /\ ls[c].state = "returned" => r[c] = "settled"

\* A lease whose owner has left is held by somebody.
Wanted(ls, S) == \A l \in S : ls[l].state = "closed" => ls[l].holds > 0

\* A closed bank has no holders and no bytes, and the scheduler holds only what was lent.
Banks(b) ==
  \A l \in Leases : /\ ~b[l].open => b[l].by = {} /\ b[l].bytes = 0
                    /\ ~b[l].lent => "scheduler" \notin b[l].by

\* Before its grant a parent has no lease.
Early == {"away", "checkpoint", "deferred", "ready", "restoring", "asking"}
\* A parent that was not granted has no lease yet.
Ungranted == \A p \in Parents : place[p] \in Early => lease[p].state = "none"

\* The inductive invariant.
IInv ==
  /\ TypeOK
  /\ Balanced(lease, bank, plain, inUse) /\ Flagged(lease, plain, inUse, capacity, emergency)
  /\ Holdings(lease, bank, request) /\ Callbacks(lease, request) /\ Wanted(lease, Leases)
  /\ Banks(bank) /\ Ungranted

-----------------------------------------------------------------------------
(* Facts about the parts. *)

\* Everything the ledger counts is finite, and no retry group is a parent.
LEMMA FiniteParts ==
  /\ IsFiniteSet(Parents) /\ IsFiniteSet(Children) /\ IsFiniteSet(Leases) /\ IsFiniteSet(Callers)
  /\ Parents \subseteq Leases /\ Children \subseteq Leases /\ Parents \intersect Children = {}
<1>1. /\ IsFiniteSet(Parents \union Children \union Callers) /\ Parents \intersect Children = {}
  BY CreditAssumption
<1>2. \A T \in SUBSET (Parents \union Children \union Callers) : IsFiniteSet(T)
  BY <1>1, FS_Subset
<1>3. Leases = Parents \union Children
  BY DEF Leases
<1>4. QED
  BY <1>1, <1>2, <1>3

\* Sizes are natural, and no base and no request is empty.
LEMMA Sizes ==
  /\ \A p \in Parents : Base[p] \in Nat \ {0}
  /\ \A q \in Callers : Ask[q] \in Nat \ {0}
  /\ \A c \in Children : Lender[c] \in Parents
  /\ Allowance \in Nat /\ MaxBank \in Nat /\ MinExtra \in Nat \ {0} /\ MaxExtra \in Nat
  /\ Headrooms \subseteq Nat /\ Capacity \in Nat \ {0}
  BY CreditAssumption

\* What is held back for waiting parents is a natural number.
LEMMA ProtectionNat ==
  ASSUME NEW S \in SUBSET Parents
  PROVE  Protection(S) \in Nat
<1> DEFINE amount == [p \in Parents |-> Base[p] + MinExtra]
<1>1. \A p \in S : amount[p] \in Nat
  BY Sizes
<1>2. IsFiniteSet(S)
  BY FiniteParts, FS_Subset
<1> HIDE DEF amount
<1>3. Total(amount, S) \in Nat
  BY <1>1, <1>2, TotalNat
<1>4. QED
  BY <1>3 DEF Protection, amount

\* The three sums of the ledger are natural numbers.
LEMMA SumsNat ==
  ASSUME NEW ls \in [Leases -> LeaseSet], NEW b \in [Leases -> BankSet],
         NEW pl \in [Callers -> PlainSet]
  PROVE  /\ Total(ChargeOf(ls), Out(ls)) \in Nat /\ Total(BytesOf(b), Leases) \in Nat
         /\ Total(PlainOf(pl), Held(pl)) \in Nat
<1>1. IsFiniteSet(Out(ls)) /\ IsFiniteSet(Held(pl))
  BY FiniteParts, FS_Subset DEF Out, Held
<1>2. \A l \in Leases : ChargeOf(ls)[l] \in Nat /\ BytesOf(b)[l] \in Nat
  BY DEF ChargeOf, BytesOf, LeaseSet, BankSet
<1>3. \A q \in Callers : PlainOf(pl)[q] \in Nat
  BY DEF PlainOf, PlainSet
<1>4. Out(ls) \subseteq Leases /\ Held(pl) \subseteq Callers
  BY DEF Out, Held
<1>5. Total(ChargeOf(ls), Out(ls)) \in Nat
  BY <1>1, <1>2, <1>4, TotalNat
<1>6. Total(BytesOf(b), Leases) \in Nat
  BY <1>2, FiniteParts, TotalNat
<1>7. Total(PlainOf(pl), Held(pl)) \in Nat
  BY <1>1, <1>3, <1>4, TotalNat
<1>8. QED
  BY <1>5, <1>6, <1>7

\* When the request of one group changes, only its lender gains or loses a borrower.
LEMMA GroupsChange ==
  ASSUME NEW r \in [Children -> Requested], NEW s \in [Children -> Requested], NEW c \in Children,
         \A k \in Children \ {c} : s[k] = r[k], NEW p \in Leases
  PROVE  /\ IsFiniteSet(Groups(p, r)) /\ Cardinality(Groups(p, r)) \in Nat
         /\ Lender[c] # p => Groups(p, s) = Groups(p, r)
         /\ Lender[c] = p /\ r[c] \in {"none", "settled"} /\ s[c] \notin {"none", "settled"}
              => Cardinality(Groups(p, s)) = Cardinality(Groups(p, r)) + 1
         /\ Lender[c] = p /\ r[c] \notin {"none", "settled"} /\ s[c] \in {"none", "settled"}
              => Cardinality(Groups(p, s)) = Cardinality(Groups(p, r)) - 1
         /\ (r[c] \in {"none", "settled"} <=> s[c] \in {"none", "settled"})
              => Groups(p, s) = Groups(p, r)
<1>1. IsFiniteSet(Groups(p, r)) /\ Cardinality(Groups(p, r)) \in Nat
  BY FiniteParts, FS_Subset, FS_CardinalityType DEF Groups
<1>2. Lender[c] # p => Groups(p, s) = Groups(p, r)
  BY DEF Groups
<1>3. ASSUME Lender[c] = p, r[c] \in {"none", "settled"}, s[c] \notin {"none", "settled"}
      PROVE  Cardinality(Groups(p, s)) = Cardinality(Groups(p, r)) + 1
  <2>1. c \notin Groups(p, r) /\ Groups(p, s) = Groups(p, r) \cup {c}
    BY <1>3 DEF Groups, Requested
  <2>2. QED
    BY <1>1, <2>1, FS_AddElement
<1>4. ASSUME Lender[c] = p, r[c] \notin {"none", "settled"}, s[c] \in {"none", "settled"}
      PROVE  Cardinality(Groups(p, s)) = Cardinality(Groups(p, r)) - 1
  <2>1. c \in Groups(p, r) /\ Groups(p, s) = Groups(p, r) \ {c}
    BY <1>4 DEF Groups, Requested
  <2>2. QED
    BY <1>1, <2>1, FS_RemoveElement
<1>5. (r[c] \in {"none", "settled"} <=> s[c] \in {"none", "settled"}) => Groups(p, s) = Groups(p, r)
  BY DEF Groups, Requested
<1>6. QED
  BY <1>1, <1>2, <1>3, <1>4, <1>5

\* The two sides of a bank come and go one at a time.
LEMMA SidesChange ==
  ASSUME NEW by \in SUBSET {"creator", "scheduler"}, NEW who \in {"creator", "scheduler"}
  PROVE  /\ IsFiniteSet(by) /\ Cardinality(by) \in Nat
         /\ who \in by => Cardinality(by \ {who}) = Cardinality(by) - 1
         /\ who \notin by => Cardinality(by \union {who}) = Cardinality(by) + 1
<1>1. IsFiniteSet({"creator", "scheduler"})
  <2>1. IsFiniteSet({"creator"})
    BY FS_Singleton
  <2>2. QED
    BY <2>1, FS_AddElement
<1>2. IsFiniteSet(by) /\ Cardinality(by) \in Nat
  BY <1>1, FS_Subset, FS_CardinalityType
<1>3. QED
  BY <1>2, FS_AddElement, FS_RemoveElement

-----------------------------------------------------------------------------
(* Settlement. *)

\* The last borrower of the child l has left, and so its hold on its lender ends.
EndsHold(ls, l) == l \in Children /\ Due(ls, l)
HoldsAfter(ls, l, k) == IF EndsHold(ls, l) /\ k = Lender[l] THEN ls[k].holds - 1 ELSE ls[k].holds

\* The leases that a settlement of l returns.
Gone(ls, l) == {k \in Leases : /\ k = l \/ (EndsHold(ls, l) /\ k = Lender[l])
                               /\ ls[k].state = "closed" /\ HoldsAfter(ls, l, k) = 0}

\* What a settlement does to every lease and to the counter.
LEMMA SettleEffect ==
  ASSUME NEW l \in Leases, NEW ls \in [Leases -> LeaseSet], Settle(ls, l),
         EndsHold(ls, l) => ls[Lender[l]].holds > 0
  PROVE  /\ Gone(ls, l) \subseteq Out(ls)
         /\ lease' \in [Leases -> LeaseSet]
         /\ \A k \in Leases : /\ lease'[k].state = IF k \in Gone(ls, l) THEN "returned" ELSE ls[k].state
                              /\ lease'[k].holds = HoldsAfter(ls, l, k)
                              /\ lease'[k].charge = ls[k].charge /\ lease'[k].over = ls[k].over
         /\ inUse' = inUse - Total(ChargeOf(ls), Gone(ls, l))
         /\ emergency' = (emergency /\ \A k \in Gone(ls, l) : ~ls[k].over)
<1> DEFINE child == l \in Children /\ Due(ls, l)
           after == IF child THEN [ls EXCEPT ![Lender[l]].holds = @ - 1] ELSE ls
           gone == {k \in {l} \union (IF child THEN {Lender[l]} ELSE {}) : Due(after, k)}
<1>1. /\ lease' = [k \in Leases |-> IF k \in gone THEN [after[k] EXCEPT !.state = "returned"] ELSE after[k]]
      /\ inUse' = inUse - Total([k \in Leases |-> ls[k].charge], gone)
      /\ emergency' = (emergency /\ \A k \in gone : ~ls[k].over)
  BY DEF Settle
<1>2. child = EndsHold(ls, l)
  BY DEF EndsHold
<1>3. child => Lender[l] \in Leases
  BY Sizes, FiniteParts
<1>4. \A k \in Leases : /\ after[k] = [ls[k] EXCEPT !.holds = HoldsAfter(ls, l, k)]
                        /\ HoldsAfter(ls, l, k) \in Nat
  <2> SUFFICES ASSUME NEW k \in Leases
               PROVE  /\ after[k] = [ls[k] EXCEPT !.holds = HoldsAfter(ls, l, k)]
                      /\ HoldsAfter(ls, l, k) \in Nat
    OBVIOUS
  <2>1. ls[k] \in LeaseSet /\ ls[k].holds \in Nat
    BY DEF LeaseSet
  <2>2. CASE child /\ k = Lender[l]
    <3>1. HoldsAfter(ls, l, k) = ls[k].holds - 1 /\ ls[k].holds > 0
      BY <1>2, <2>2 DEF HoldsAfter
    <3>2. after[k] = [ls[k] EXCEPT !.holds = @ - 1]
      BY <2>2
    <3>3. QED
      BY <2>1, <3>1, <3>2
  <2>3. CASE ~(child /\ k = Lender[l])
    <3>1. HoldsAfter(ls, l, k) = ls[k].holds /\ after[k] = ls[k]
      BY <1>2, <2>3 DEF HoldsAfter
    <3>2. ls[k] = [ls[k] EXCEPT !.holds = ls[k].holds]
      BY <2>1 DEF LeaseSet
    <3>3. QED
      BY <2>1, <3>1, <3>2
  <2>4. QED
    BY <2>2, <2>3
<1> HIDE DEF after
<1>5. \A k \in Leases : Due(after, k) <=> ls[k].state = "closed" /\ HoldsAfter(ls, l, k) = 0
  BY <1>4 DEF Due, LeaseSet
<1> HIDE DEF child
<1>6. gone = Gone(ls, l)
  <2>1. {l} \union (IF child THEN {Lender[l]} ELSE {}) = {k \in Leases : k = l \/ (child /\ k = Lender[l])}
    BY <1>3
  <2>2. gone = {k \in Leases : (k = l \/ (child /\ k = Lender[l])) /\ Due(after, k)}
    BY <2>1
  <2> HIDE DEF gone
  <2>3. QED
    BY <1>2, <1>5, <2>2 DEF Gone
<1> HIDE DEF gone
<1>7. \A k \in Leases :
        lease'[k] = IF k \in Gone(ls, l) THEN [[ls[k] EXCEPT !.holds = HoldsAfter(ls, l, k)] EXCEPT !.state = "returned"]
                    ELSE [ls[k] EXCEPT !.holds = HoldsAfter(ls, l, k)]
  BY <1>1, <1>4, <1>6
<1>8. \A k \in Leases : ls[k] \in LeaseSet
  OBVIOUS
<1>9. \A k \in Leases : /\ lease'[k] \in LeaseSet
                        /\ lease'[k].state = IF k \in Gone(ls, l) THEN "returned" ELSE ls[k].state
                        /\ lease'[k].holds = HoldsAfter(ls, l, k)
                        /\ lease'[k].charge = ls[k].charge /\ lease'[k].over = ls[k].over
  <2> SUFFICES ASSUME NEW k \in Leases
               PROVE  /\ lease'[k] \in LeaseSet
                      /\ lease'[k].state = IF k \in Gone(ls, l) THEN "returned" ELSE ls[k].state
                      /\ lease'[k].holds = HoldsAfter(ls, l, k)
                      /\ lease'[k].charge = ls[k].charge /\ lease'[k].over = ls[k].over
    OBVIOUS
  <2> DEFINE n == HoldsAfter(ls, l, k)
  <2>1. ls[k] \in LeaseSet /\ n \in Nat
    BY <1>4, <1>8
  <2>2. lease'[k] = IF k \in Gone(ls, l) THEN [[ls[k] EXCEPT !.holds = n] EXCEPT !.state = "returned"]
                    ELSE [ls[k] EXCEPT !.holds = n]
    BY <1>7
  <2> HIDE DEF n
  <2>3. CASE k \in Gone(ls, l)
    <3>1. lease'[k] = [[ls[k] EXCEPT !.holds = n] EXCEPT !.state = "returned"]
      BY <2>2, <2>3
    <3>2. /\ lease'[k] \in LeaseSet /\ lease'[k].state = "returned" /\ lease'[k].holds = n
          /\ lease'[k].charge = ls[k].charge /\ lease'[k].over = ls[k].over
      BY <2>1, <3>1 DEF LeaseSet
    <3>3. QED
      BY <2>3, <3>2 DEF n
  <2>4. CASE k \notin Gone(ls, l)
    <3>1. lease'[k] = [ls[k] EXCEPT !.holds = n]
      BY <2>2, <2>4
    <3>2. /\ lease'[k] \in LeaseSet /\ lease'[k].state = ls[k].state /\ lease'[k].holds = n
          /\ lease'[k].charge = ls[k].charge /\ lease'[k].over = ls[k].over
      BY <2>1, <3>1 DEF LeaseSet
    <3>3. QED
      BY <2>4, <3>2 DEF n
  <2>5. QED
    BY <2>3, <2>4
<1>10. lease' = [k \in Leases |-> lease'[k]]
  BY <1>1
<1>11. Gone(ls, l) \subseteq Out(ls)
  BY DEF Gone, Out
<1>12. lease' \in [Leases -> LeaseSet]
  BY <1>9, <1>10
<1>13. /\ inUse' = inUse - Total(ChargeOf(ls), Gone(ls, l))
       /\ emergency' = (emergency /\ \A k \in Gone(ls, l) : ~ls[k].over)
  BY <1>1, <1>6 DEF ChargeOf
<1>14. QED
  BY <1>9, <1>11, <1>12, <1>13

\* A settlement keeps the ledger balanced and its flag right.
LEMMA SettleMoney ==
  ASSUME NEW l \in Leases, NEW ls \in [Leases -> LeaseSet], Settle(ls, l),
         EndsHold(ls, l) => ls[Lender[l]].holds > 0,
         NEW b \in [Leases -> BankSet], NEW pl \in [Callers -> PlainSet],
         NEW cap \in Nat, inUse \in Nat, emergency \in BOOLEAN,
         Balanced(ls, b, pl, inUse), Flagged(ls, pl, inUse, cap, emergency)
  PROVE  /\ inUse' \in Nat /\ emergency' \in BOOLEAN /\ inUse' <= inUse
         /\ Balanced(lease', b, pl, inUse') /\ Flagged(lease', pl, inUse', cap, emergency')
<1> DEFINE gone == Gone(ls, l)
<1>1. /\ gone \subseteq Out(ls)
      /\ lease' \in [Leases -> LeaseSet]
      /\ \A k \in Leases : /\ lease'[k].state = IF k \in gone THEN "returned" ELSE ls[k].state
                           /\ lease'[k].charge = ls[k].charge /\ lease'[k].over = ls[k].over
      /\ inUse' = inUse - Total(ChargeOf(ls), gone)
      /\ emergency' = (emergency /\ \A k \in gone : ~ls[k].over)
  BY SettleEffect
<1> HIDE DEF gone
<1>2. ChargeOf(lease') = ChargeOf(ls)
  BY <1>1 DEF ChargeOf
<1>3. Out(lease') = Out(ls) \ gone
  BY <1>1 DEF Out
<1>4. IsFiniteSet(Out(ls)) /\ \A k \in Out(ls) : ChargeOf(ls)[k] \in Nat
  BY FiniteParts, FS_Subset DEF Out, ChargeOf, LeaseSet
<1>5. Total(ChargeOf(ls), Out(ls)) = Total(ChargeOf(ls), gone) + Total(ChargeOf(ls), Out(ls) \ gone)
  BY <1>1, <1>4, TotalSplit
<1>6. IsFiniteSet(gone) /\ \A k \in gone : ChargeOf(ls)[k] \in Nat
  BY <1>1, <1>4, FS_Subset
<1>7. Total(ChargeOf(ls), gone) \in Nat
  BY <1>6, TotalNat
<1>8. Total(ChargeOf(lease'), Out(lease')) \in Nat /\ Total(BytesOf(b), Leases) \in Nat
      /\ Total(PlainOf(pl), Held(pl)) \in Nat
  BY <1>1, SumsNat
<1>9. inUse' = Total(ChargeOf(lease'), Out(lease')) + Total(BytesOf(b), Leases) + Total(PlainOf(pl), Held(pl))
  BY <1>1, <1>2, <1>3, <1>5, <1>7, <1>8 DEF Balanced
<1>10. inUse' \in Nat /\ inUse' <= inUse /\ Balanced(lease', b, pl, inUse')
  BY <1>1, <1>7, <1>8, <1>9 DEF Balanced
<1>11. emergency' \in BOOLEAN
  BY <1>1
<1>12. CASE emergency /\ gone # {}
  <2>1. gone = Out(ls) /\ (\E k \in gone : ls[k].over) /\ Held(pl) = {}
    BY <1>1, <1>12 DEF Flagged
  <2>2. emergency' = FALSE /\ Out(lease') = {}
    BY <1>1, <1>3, <2>1
  <2>3. inUse' <= cap
    BY <1>10, <1>1 DEF Flagged
  <2>4. QED
    BY <1>10, <1>11, <2>1, <2>2, <2>3 DEF Flagged
<1>13. CASE emergency /\ gone = {}
  <2>1. emergency' = emergency /\ Out(lease') = Out(ls)
    BY <1>1, <1>3, <1>13
  <2>2. Total(ChargeOf(ls), gone) = 0
    BY <1>13, TotalEmpty
  <2>3. inUse' = inUse
    BY <1>1, <2>2
  <2>4. \A k \in Leases : lease'[k].charge = ls[k].charge /\ lease'[k].over = ls[k].over
    BY <1>1
  <2>5. Out(ls) \subseteq Leases
    BY DEF Out
  <2>6. Flagged(lease', pl, inUse', cap, emergency')
    BY <2>1, <2>3, <2>4, <2>5 DEF Flagged
  <2>7. QED
    BY <1>10, <1>11, <2>6
<1>14. CASE ~emergency
  <2>1. emergency' = emergency /\ Out(lease') \subseteq Out(ls)
    BY <1>1, <1>3, <1>14
  <2>2. inUse' <= cap
    BY <1>10, <1>1 DEF Flagged
  <2>3. \A k \in Leases : lease'[k].charge = ls[k].charge /\ lease'[k].over = ls[k].over
    BY <1>1
  <2>4. Out(ls) \subseteq Leases
    BY DEF Out
  <2>5. Flagged(lease', pl, inUse', cap, emergency')
    BY <1>14, <2>1, <2>2, <2>3, <2>4 DEF Flagged
  <2>6. QED
    BY <1>10, <1>11, <2>5
<1>15. QED
  BY <1>12, <1>13, <1>14

\* A settlement keeps every hold owned, ends the callbacks of the groups that it returns, and
\* leaves no lease that nobody wants.
LEMMA SettleHolds ==
  ASSUME NEW l \in Leases, NEW ls \in [Leases -> LeaseSet], Settle(ls, l),
         NEW b \in [Leases -> BankSet], NEW r \in [Children -> Requested],
         Holdings(ls, b, r), Callbacks(ls, r), Wanted(ls, Leases \ {l}),
         request' = Settled(r)
  PROVE  /\ EndsHold(ls, l) => ls[Lender[l]].holds > 0
         /\ request' \in [Children -> Requested]
         /\ Holdings(lease', b, request') /\ Callbacks(lease', request') /\ Wanted(lease', Leases)
         /\ \A k \in Leases : ls[k].state = "none" => lease'[k].state = "none"
<1> DEFINE gone == Gone(ls, l)
<1>1. ASSUME EndsHold(ls, l)
      PROVE  /\ l \in Children /\ r[l] = "active" /\ Lender[l] \in Parents /\ Lender[l] # l
             /\ l \in Groups(Lender[l], r) /\ ls[Lender[l]].holds > 0
             /\ ls[Lender[l]].state \in {"live", "closed"}
  <2>1. l \in Children /\ ls[l].state = "closed"
    BY <1>1 DEF EndsHold, Due
  <2>2. r[l] = "active" /\ Lender[l] \in Parents /\ Lender[l] # l /\ Lender[l] \in Leases
    BY <2>1, Sizes, FiniteParts DEF Callbacks, Out
  <2>3. l \in Groups(Lender[l], r)
    BY <2>1, <2>2 DEF Groups
  <2>4. IsFiniteSet(Groups(Lender[l], r))
    BY FiniteParts, FS_Subset DEF Groups
  <2>5. Cardinality(Groups(Lender[l], r)) \in Nat /\ Cardinality(Groups(Lender[l], r)) # 0
    BY <2>3, <2>4, FS_EmptySet, FS_CardinalityType
  <2>6. Cardinality(b[Lender[l]].by) \in Nat
    BY <2>2, SidesChange DEF BankSet
  <2>7. ls[Lender[l]].holds > 0
    BY <2>2, <2>5, <2>6 DEF Holdings, Holders
  <2>8. ls[Lender[l]].state \in {"live", "closed"}
    BY <2>2, <2>7 DEF Holdings, LeaseSet
  <2>9. QED
    BY <2>1, <2>2, <2>3, <2>7, <2>8
<1>2. /\ gone \subseteq Out(ls)
      /\ lease' \in [Leases -> LeaseSet]
      /\ \A k \in Leases : /\ lease'[k].state = IF k \in gone THEN "returned" ELSE ls[k].state
                           /\ lease'[k].holds = HoldsAfter(ls, l, k)
  BY <1>1, SettleEffect
<1>3. \A k \in gone : k \in Leases /\ ls[k].state = "closed" /\ HoldsAfter(ls, l, k) = 0
                      /\ (k = l \/ (EndsHold(ls, l) /\ k = Lender[l]))
  BY DEF Gone
<1>4. l \in gone <=> ls[l].state = "closed" /\ ls[l].holds = 0
  BY <1>1 DEF Gone, HoldsAfter
<1>5. EndsHold(ls, l) <=> l \in Children /\ l \in gone
  BY <1>4 DEF EndsHold, Due
<1>6. EndsHold(ls, l) /\ ls[Lender[l]].state = "closed" /\ HoldsAfter(ls, l, Lender[l]) = 0 => Lender[l] \in gone
  BY <1>1, FiniteParts DEF Gone
<1> HIDE DEF gone
<1>7. \A c \in Children : c \in Leases /\ (c \in gone => c = l)
  BY <1>1, <1>3, FiniteParts
<1>8. \A c \in Children : request'[c] = IF EndsHold(ls, l) /\ c = l THEN "settled" ELSE r[c]
  <2> SUFFICES ASSUME NEW c \in Children
               PROVE  request'[c] = IF EndsHold(ls, l) /\ c = l THEN "settled" ELSE r[c]
    OBVIOUS
  <2>1. request'[c] = IF lease'[c].state = "returned" THEN "settled" ELSE r[c]
    BY DEF Settled
  <2>2. CASE c \in gone
    BY <1>2, <1>5, <1>7, <2>1, <2>2
  <2>3. CASE c \notin gone
    <3>1. lease'[c].state = ls[c].state /\ ~(EndsHold(ls, l) /\ c = l)
      BY <1>2, <1>5, <1>7, <2>3
    <3>2. QED
      BY <2>1, <3>1 DEF Callbacks
  <2>4. QED
    BY <2>2, <2>3
<1>9. request' = [c \in Children |-> request'[c]]
  BY DEF Settled
<1>10. request' \in [Children -> Requested]
  BY <1>8, <1>9 DEF Requested
<1>11. Holdings(lease', b, request')
  <2> SUFFICES ASSUME NEW k \in Leases
               PROVE  /\ lease'[k].holds = Holders(k, b, request')
                      /\ lease'[k].state \in {"none", "returned"} => lease'[k].holds = 0
    BY DEF Holdings
  <2>1. ls[k].holds = Holders(k, b, r) /\ (ls[k].state \in {"none", "returned"} => ls[k].holds = 0)
    BY DEF Holdings
  <2>2. lease'[k].holds = Holders(k, b, request')
    <3>1. CASE ~EndsHold(ls, l)
      <4>1. Groups(k, request') = Groups(k, r) /\ lease'[k].holds = ls[k].holds
        BY <1>2, <1>8, <3>1 DEF Groups, HoldsAfter
      <4>2. QED
        BY <2>1, <4>1 DEF Holders
    <3>2. CASE EndsHold(ls, l)
      <4>1. l \in Children /\ r[l] \notin {"none", "settled"} /\ request'[l] \in {"none", "settled"}
            /\ \A c \in Children \ {l} : request'[c] = r[c]
        BY <1>1, <1>8, <3>2
      <4>2. /\ Lender[l] # k => Groups(k, request') = Groups(k, r)
            /\ Lender[l] = k => Cardinality(Groups(k, request')) = Cardinality(Groups(k, r)) - 1
            /\ Cardinality(Groups(k, r)) \in Nat
        BY <1>10, <4>1, GroupsChange
      <4>3. Cardinality(b[k].by) \in Nat
        BY SidesChange DEF BankSet
      <4>4. lease'[k].holds = IF k = Lender[l] THEN ls[k].holds - 1 ELSE ls[k].holds
        BY <1>2, <3>2 DEF HoldsAfter
      <4>5. QED
        BY <2>1, <4>2, <4>3, <4>4 DEF Holders
    <3>3. QED
      BY <3>1, <3>2
  <2>3. ASSUME lease'[k].state \in {"none", "returned"}
        PROVE  lease'[k].holds = 0
    <3>1. CASE k \in gone
      BY <1>2, <1>3, <3>1
    <3>2. CASE k \notin gone
      <4>1. ls[k].state \in {"none", "returned"}
        BY <1>2, <2>3, <3>2
      <4>2. ~(EndsHold(ls, l) /\ k = Lender[l])
        BY <1>1, <4>1
      <4>3. QED
        BY <1>2, <2>1, <4>1, <4>2 DEF HoldsAfter
    <3>3. QED
      BY <3>1, <3>2
  <2>4. QED
    BY <2>2, <2>3
<1>12. Callbacks(lease', request')
  <2> SUFFICES ASSUME NEW c \in Children
               PROVE  /\ request'[c] = "active" <=> lease'[c].state \in {"live", "closed"}
                      /\ lease'[c].state = "returned" => request'[c] = "settled"
    BY <1>7 DEF Callbacks, Out
  <2>1. /\ r[c] = "active" <=> ls[c].state \in {"live", "closed"}
        /\ ls[c].state = "returned" => r[c] = "settled"
    BY <1>7 DEF Callbacks, Out
  <2>2. CASE c \in gone
    BY <1>2, <1>5, <1>7, <1>8, <2>2
  <2>3. CASE c \notin gone
    <3>1. lease'[c].state = ls[c].state /\ request'[c] = r[c]
      BY <1>2, <1>5, <1>7, <1>8, <2>3
    <3>2. QED
      BY <2>1, <3>1
  <2>4. QED
    BY <2>2, <2>3
<1>13. Wanted(lease', Leases)
  <2> SUFFICES ASSUME NEW k \in Leases, lease'[k].state = "closed"
               PROVE  lease'[k].holds > 0
    BY DEF Wanted
  <2>1. k \notin gone /\ ls[k].state = "closed" /\ lease'[k].holds \in Nat
    BY <1>2 DEF LeaseSet
  <2>2. CASE EndsHold(ls, l) /\ k = Lender[l]
    <3>1. HoldsAfter(ls, l, k) # 0
      BY <1>6, <2>1, <2>2
    <3>2. QED
      BY <1>2, <2>1, <3>1
  <2>3. CASE ~(EndsHold(ls, l) /\ k = Lender[l])
    <3>1. lease'[k].holds = ls[k].holds
      BY <1>2, <2>3 DEF HoldsAfter
    <3>2. CASE k = l
      BY <1>4, <2>1, <3>1, <3>2
    <3>3. CASE k # l
      BY <2>1, <3>1, <3>3 DEF Wanted
    <3>4. QED
      BY <3>2, <3>3
  <2>4. QED
    BY <2>2, <2>3
<1>14. \A k \in Leases : ls[k].state = "none" => lease'[k].state = "none"
  BY <1>2, <1>3
<1>15. QED
  BY <1>1, <1>10, <1>11, <1>12, <1>13, <1>14

\* The settlement of a parent's lease ends no callback of a retry group.
LEMMA ParentSettles ==
  ASSUME NEW l \in Parents, NEW ls \in [Leases -> LeaseSet], Settle(ls, l),
         NEW r \in [Children -> Requested], Callbacks(ls, r)
  PROVE  r = Settled(r)
<1>1. l \in Leases /\ l \notin Children /\ ~EndsHold(ls, l)
  BY FiniteParts DEF EndsHold
<1>2. \A k \in Leases : lease'[k].state = IF k \in Gone(ls, l) THEN "returned" ELSE ls[k].state
  BY <1>1, SettleEffect
<1>3. \A c \in Children : c \in Leases /\ c \notin Gone(ls, l)
  BY <1>1, FiniteParts DEF Gone
<1>4. \A c \in Children : lease'[c].state = "returned" => r[c] = "settled"
  BY <1>2, <1>3 DEF Callbacks
<1>5. QED
  BY <1>4 DEF Settled

\* Leases that are out at the same charge make the same sums and the same flag.
LEMMA SameMoney ==
  ASSUME NEW ls \in [Leases -> LeaseSet], NEW ms \in [Leases -> LeaseSet],
         \A k \in Leases : /\ k \in Out(ms) <=> k \in Out(ls)
                           /\ ms[k].charge = ls[k].charge /\ ms[k].over = ls[k].over,
         NEW b \in [Leases -> BankSet], NEW d \in [Leases -> BankSet],
         \A k \in Leases : d[k].bytes = b[k].bytes,
         NEW pl, NEW used, NEW cap, NEW flag,
         Balanced(ls, b, pl, used), Flagged(ls, pl, used, cap, flag)
  PROVE  Balanced(ms, d, pl, used) /\ Flagged(ms, pl, used, cap, flag)
<1>1. Out(ms) = Out(ls) /\ Out(ls) \subseteq Leases
  BY DEF Out
<1>2. ChargeOf(ms) = ChargeOf(ls) /\ BytesOf(d) = BytesOf(b)
  BY DEF ChargeOf, BytesOf
<1>3. Balanced(ms, d, pl, used)
  BY <1>1, <1>2 DEF Balanced
<1>4. \A k \in Leases : ms[k].charge = ls[k].charge /\ ms[k].over = ls[k].over
  OBVIOUS
<1>5. Flagged(ms, pl, used, cap, flag)
  BY <1>1, <1>4 DEF Flagged
<1>6. QED
  BY <1>3, <1>5

\* A settlement after a step that gave up one hold, or one owner, keeps the invariant.
LEMMA SettlingKeeps ==
  ASSUME IInv, NEW l \in Leases, NEW ls \in [Leases -> LeaseSet], Settle(ls, l),
         \A k \in Leases : /\ k \in Out(ls) <=> k \in Out(lease)
                           /\ ls[k].charge = lease[k].charge /\ ls[k].over = lease[k].over
                           /\ lease[k].state = "none" => ls[k].state = "none",
         bank' \in [Leases -> BankSet], \A k \in Leases : bank'[k].bytes = bank[k].bytes,
         Banks(bank'),
         NEW r \in [Children -> Requested], request' = Settled(r),
         Holdings(ls, bank', r), Callbacks(ls, r), Wanted(ls, Leases \ {l}),
         capacity' = capacity, pending' = pending, plain' = plain, denseLimit' = denseLimit,
         place' \in [Parents -> Places], \A p \in Parents : place'[p] \in Early => place[p] \in Early
  PROVE  IInv' /\ inUse' <= inUse
<1>1. /\ TypeOK /\ Balanced(lease, bank, plain, inUse) /\ Ungranted
      /\ Flagged(lease, plain, inUse, capacity, emergency)
  BY DEF IInv
<1>2. Balanced(ls, bank', plain, inUse) /\ Flagged(ls, plain, inUse, capacity, emergency)
  BY <1>1, SameMoney DEF TypeOK
<1>3. /\ EndsHold(ls, l) => ls[Lender[l]].holds > 0
      /\ request' \in [Children -> Requested]
      /\ Holdings(lease', bank', request') /\ Callbacks(lease', request') /\ Wanted(lease', Leases)
      /\ \A k \in Leases : ls[k].state = "none" => lease'[k].state = "none"
  BY SettleHolds
<1>4. /\ inUse' \in Nat /\ emergency' \in BOOLEAN /\ inUse' <= inUse
      /\ Balanced(lease', bank', plain, inUse') /\ Flagged(lease', plain, inUse', capacity, emergency')
  BY <1>1, <1>2, <1>3, SettleMoney DEF TypeOK
<1>5. lease' \in [Leases -> LeaseSet]
  BY <1>3, SettleEffect
<1>6. TypeOK'
  BY <1>1, <1>3, <1>4, <1>5 DEF TypeOK
<1>7. Ungranted'
  BY <1>1, <1>3, FiniteParts DEF Ungranted
<1>8. QED
  BY <1>3, <1>4, <1>6, <1>7 DEF IInv

\* The owner of l leaves.
LEMMA CloseStep ==
  ASSUME IInv, NEW l \in Leases, Close(l), request' = Settled(request),
         capacity' = capacity, pending' = pending, plain' = plain, denseLimit' = denseLimit,
         bank' = bank,
         place' \in [Parents -> Places], \A p \in Parents : place'[p] \in Early => place[p] \in Early
  PROVE  IInv' /\ inUse' <= inUse
<1> DEFINE ls == [lease EXCEPT ![l].state = "closed"]
<1>1. /\ TypeOK /\ Holdings(lease, bank, request) /\ Callbacks(lease, request)
      /\ Wanted(lease, Leases) /\ Banks(bank)
  BY DEF IInv
<1>2. Settle(ls, l) /\ lease[l].state = "live"
  BY DEF Close
<1>3. /\ ls \in [Leases -> LeaseSet]
      /\ \A k \in Leases : /\ ls[k].state = IF k = l THEN "closed" ELSE lease[k].state
                           /\ ls[k].charge = lease[k].charge /\ ls[k].over = lease[k].over
                           /\ ls[k].holds = lease[k].holds
  BY <1>1 DEF TypeOK, LeaseSet
<1> HIDE DEF ls
<1>4. \A k \in Leases : k \in Out(ls) <=> k \in Out(lease)
  BY <1>2, <1>3 DEF Out
<1>5. Holdings(ls, bank, request)
  BY <1>1, <1>2, <1>3 DEF Holdings
<1>6. Callbacks(ls, request)
  BY <1>1, <1>2, <1>3, <1>4, FiniteParts DEF Callbacks
<1>7. Wanted(ls, Leases \ {l})
  BY <1>1, <1>3 DEF Wanted
<1>8. request \in [Children -> Requested] /\ bank \in [Leases -> BankSet]
  BY <1>1 DEF TypeOK
<1>9. QED
  BY <1>1, <1>2, <1>3, <1>4, <1>5, <1>6, <1>7, <1>8, SettlingKeeps

\* A borrower of l leaves.
LEMMA LeaveStep ==
  ASSUME IInv, NEW l \in Leases, NEW who \in {"creator", "scheduler"}, Leave(l, who), UNCHANGED staging
  PROVE  IInv' /\ inUse' <= inUse
<1> DEFINE ls == [lease EXCEPT ![l].holds = @ - 1]
<1>1. /\ TypeOK /\ Holdings(lease, bank, request) /\ Callbacks(lease, request)
      /\ Wanted(lease, Leases) /\ Banks(bank)
  BY DEF IInv
<1>2. /\ Settle(ls, l) /\ who \in bank[l].by /\ request' = Settled(request)
      /\ bank' = [bank EXCEPT ![l].by = @ \ {who}]
  BY DEF Leave
<1>3. /\ bank' \in [Leases -> BankSet]
      /\ \A k \in Leases : /\ bank'[k].by = IF k = l THEN bank[k].by \ {who} ELSE bank[k].by
                           /\ bank'[k].bytes = bank[k].bytes /\ bank'[k].open = bank[k].open
                           /\ bank'[k].lent = bank[k].lent
  BY <1>1, <1>2 DEF TypeOK, BankSet
<1>4. Banks(bank')
  BY <1>1, <1>3 DEF Banks
<1>5. /\ Cardinality(bank'[l].by) = Cardinality(bank[l].by) - 1 /\ Cardinality(bank[l].by) \in Nat
      /\ Cardinality(bank[l].by) > 0
  <2>1. bank[l].by \in SUBSET {"creator", "scheduler"}
    BY <1>1 DEF TypeOK, BankSet
  <2>2. Cardinality(bank[l].by) # 0
    BY <1>2, <2>1, SidesChange, FS_EmptySet
  <2>3. Cardinality(bank[l].by) \in Nat
        /\ Cardinality(bank[l].by \ {who}) = Cardinality(bank[l].by) - 1
    BY <1>2, <2>1, SidesChange
  <2>4. bank'[l].by = bank[l].by \ {who}
    BY <1>3
  <2>5. QED
    BY <2>2, <2>3, <2>4
<1>6. Cardinality(Groups(l, request)) \in Nat
  BY FiniteParts, FS_Subset, FS_CardinalityType DEF Groups
<1>7. lease[l].holds > 0 /\ lease[l].state \in {"live", "closed"} /\ lease[l] \in LeaseSet
  <2>1. lease[l].holds > 0 /\ lease[l] \in LeaseSet
    BY <1>1, <1>5, <1>6 DEF Holdings, Holders, TypeOK
  <2>2. QED
    BY <1>1, <2>1 DEF Holdings, LeaseSet
<1>8. /\ ls \in [Leases -> LeaseSet]
      /\ \A k \in Leases : /\ ls[k].holds = IF k = l THEN lease[k].holds - 1 ELSE lease[k].holds
                           /\ ls[k].charge = lease[k].charge /\ ls[k].over = lease[k].over
                           /\ ls[k].state = lease[k].state
  <2>1. lease[l].holds \in Nat /\ lease[l].holds - 1 \in Nat
    BY <1>7 DEF LeaseSet
  <2>2. QED
    BY <1>1, <2>1 DEF TypeOK, LeaseSet
<1> HIDE DEF ls
<1>9. \A k \in Leases : k \in Out(ls) <=> k \in Out(lease)
  BY <1>8 DEF Out
<1>10. Holdings(ls, bank', request)
  <2> SUFFICES ASSUME NEW k \in Leases
               PROVE  /\ ls[k].holds = Holders(k, bank', request)
                      /\ ls[k].state \in {"none", "returned"} => ls[k].holds = 0
    BY DEF Holdings
  <2>1. CASE k = l
    BY <1>1, <1>5, <1>6, <1>7, <1>8, <2>1 DEF Holdings, Holders
  <2>2. CASE k # l
    BY <1>1, <1>3, <1>8, <2>2 DEF Holdings, Holders
  <2>3. QED
    BY <2>1, <2>2
<1>11. Callbacks(ls, request)
  BY <1>1, <1>8, <1>9, FiniteParts DEF Callbacks
<1>12. Wanted(ls, Leases \ {l})
  BY <1>1, <1>8 DEF Wanted
<1>13. request \in [Children -> Requested] /\ place \in [Parents -> Places]
  BY <1>1 DEF TypeOK
<1>14. place' = place /\ denseLimit' = denseLimit /\ capacity' = capacity /\ pending' = pending /\ plain' = plain
  BY DEF Leave, staging
<1>15. QED
  BY <1>2, <1>3, <1>4, <1>8, <1>9, <1>10, <1>11, <1>12, <1>13, <1>14, SettlingKeeps

\* A retry group that was never charged ends.
LEMMA FinishPendingStep ==
  ASSUME IInv, NEW c \in Children, request[c] \in {"issued", "declined"}, FinishPending(c), UNCHANGED staging
  PROVE  IInv' /\ inUse' <= inUse
<1> DEFINE l == Lender[c]
           r == [request EXCEPT ![c] = "settled"]
           ls == [lease EXCEPT ![l].holds = @ - 1]
<1>1. /\ TypeOK /\ Holdings(lease, bank, request) /\ Callbacks(lease, request)
      /\ Wanted(lease, Leases) /\ Banks(bank)
  BY DEF IInv
<1>2. l \in Parents /\ l \in Leases
  BY Sizes, FiniteParts
<1>3. Settle(ls, l) /\ request' = r
  BY DEF FinishPending
<1>4. /\ r \in [Children -> Requested]
      /\ \A k \in Children : r[k] = IF k = c THEN "settled" ELSE request[k]
  BY <1>1 DEF TypeOK, Requested
<1> HIDE DEF r
<1>5. /\ \A k \in Leases : k # l => Groups(k, r) = Groups(k, request)
      /\ Cardinality(Groups(l, r)) = Cardinality(Groups(l, request)) - 1
      /\ Cardinality(Groups(l, request)) \in Nat /\ c \in Groups(l, request)
      /\ IsFiniteSet(Groups(l, request))
  <2>1. request \in [Children -> Requested] /\ request[c] \notin {"none", "settled"}
        /\ r[c] \in {"none", "settled"} /\ \A k \in Children \ {c} : r[k] = request[k]
    BY <1>1, <1>4 DEF TypeOK
  <2>2. c \in Groups(l, request)
    BY DEF Groups
  <2>3. \A k \in Leases : k # l => Groups(k, r) = Groups(k, request)
    BY <1>4, <2>1, GroupsChange
  <2>4. Cardinality(Groups(l, r)) = Cardinality(Groups(l, request)) - 1
        /\ Cardinality(Groups(l, request)) \in Nat /\ IsFiniteSet(Groups(l, request))
    BY <1>2, <1>4, <2>1, GroupsChange
  <2>5. QED
    BY <2>2, <2>3, <2>4
<1>6. Cardinality(bank[l].by) \in Nat /\ Cardinality(Groups(l, request)) # 0
  <2>1. bank[l].by \in SUBSET {"creator", "scheduler"}
    BY <1>1, <1>2 DEF TypeOK, BankSet
  <2>2. QED
    BY <1>5, <2>1, SidesChange, FS_EmptySet
<1> HIDE DEF l
<1>7. lease[l].holds > 0 /\ lease[l].state \in {"live", "closed"} /\ lease[l] \in LeaseSet
  <2>1. lease[l].holds > 0 /\ lease[l] \in LeaseSet
    BY <1>1, <1>2, <1>5, <1>6 DEF Holdings, Holders, TypeOK
  <2>2. QED
    BY <1>1, <1>2, <2>1 DEF Holdings, LeaseSet
<1>8. /\ ls \in [Leases -> LeaseSet]
      /\ \A k \in Leases : /\ ls[k].holds = IF k = l THEN lease[k].holds - 1 ELSE lease[k].holds
                           /\ ls[k].charge = lease[k].charge /\ ls[k].over = lease[k].over
                           /\ ls[k].state = lease[k].state
  <2>1. lease[l].holds \in Nat /\ lease[l].holds - 1 \in Nat
    BY <1>7 DEF LeaseSet
  <2>2. QED
    BY <1>1, <1>2, <2>1 DEF TypeOK, LeaseSet
<1> HIDE DEF ls
<1>9. \A k \in Leases : k \in Out(ls) <=> k \in Out(lease)
  BY <1>8 DEF Out
<1>10. Holdings(ls, bank, r)
  <2> SUFFICES ASSUME NEW k \in Leases
               PROVE  /\ ls[k].holds = Holders(k, bank, r)
                      /\ ls[k].state \in {"none", "returned"} => ls[k].holds = 0
    BY DEF Holdings
  <2>1. CASE k = l
    BY <1>1, <1>2, <1>5, <1>6, <1>7, <1>8, <2>1 DEF Holdings, Holders
  <2>2. CASE k # l
    BY <1>1, <1>5, <1>8, <2>2 DEF Holdings, Holders
  <2>3. QED
    BY <2>1, <2>2
<1>11. Callbacks(ls, r)
  BY <1>1, <1>4, <1>8, <1>9, FiniteParts DEF Callbacks
<1>12. Wanted(ls, Leases \ {l})
  BY <1>1, <1>8 DEF Wanted
<1>13. bank' = bank /\ bank \in [Leases -> BankSet] /\ place \in [Parents -> Places]
  BY <1>1 DEF FinishPending, TypeOK
<1>14. place' = place /\ denseLimit' = denseLimit /\ capacity' = capacity /\ pending' = pending /\ plain' = plain
  BY DEF FinishPending, staging
<1>15. request' = Settled(r)
  BY <1>2, <1>3, <1>4, <1>8, <1>11, ParentSettles
<1>16. Holdings(ls, bank', r) /\ Banks(bank')
  BY <1>1, <1>10, <1>13
<1>17. QED
  BY <1>2, <1>3, <1>4, <1>8, <1>9, <1>11, <1>12, <1>13, <1>14, <1>15, <1>16, SettlingKeeps

-----------------------------------------------------------------------------
(* Grants. *)

\* An empty pool has nothing out.
LEMMA NothingOut ==
  ASSUME IInv, inUse = 0
  PROVE  Out(lease) = {} /\ Held(plain) = {}
<1>1. /\ TypeOK /\ Balanced(lease, bank, plain, inUse) /\ Flagged(lease, plain, inUse, capacity, emergency)
      /\ Holdings(lease, bank, request) /\ Callbacks(lease, request)
  BY DEF IInv
<1>2. Total(ChargeOf(lease), Out(lease)) = 0 /\ Total(PlainOf(plain), Held(plain)) = 0
  <2>1. /\ Total(ChargeOf(lease), Out(lease)) \in Nat /\ Total(BytesOf(bank), Leases) \in Nat
        /\ Total(PlainOf(plain), Held(plain)) \in Nat
    BY <1>1, SumsNat DEF TypeOK
  <2>2. QED
    BY <1>1, <2>1 DEF Balanced
<1>3. \A q \in Held(plain) : FALSE
  <2> SUFFICES ASSUME NEW q \in Held(plain) PROVE FALSE
    OBVIOUS
  <2>1. \A k \in Held(plain) : PlainOf(plain)[k] \in Nat
    BY <1>1 DEF Held, PlainOf, TypeOK, PlainSet
  <2>2. IsFiniteSet(Held(plain))
    BY FiniteParts, FS_Subset DEF Held
  <2>3. PlainOf(plain)[q] <= 0 /\ PlainOf(plain)[q] \in Nat
    BY <1>2, <2>1, <2>2, TotalBounds
  <2>4. PlainOf(plain)[q] > 0
    BY <1>1 DEF Flagged, PlainOf, Held
  <2>5. QED
    BY <2>3, <2>4
<1>4. \A p \in Parents : p \notin Out(lease)
  <2> SUFFICES ASSUME NEW p \in Parents, p \in Out(lease) PROVE FALSE
    OBVIOUS
  <2>1. \A k \in Out(lease) : ChargeOf(lease)[k] \in Nat
    BY <1>1 DEF Out, ChargeOf, TypeOK, LeaseSet
  <2>2. IsFiniteSet(Out(lease))
    BY FiniteParts, FS_Subset DEF Out
  <2>3. ChargeOf(lease)[p] <= 0 /\ ChargeOf(lease)[p] \in Nat
    BY <1>2, <2>1, <2>2, TotalBounds
  <2>4. ChargeOf(lease)[p] > 0
    BY <1>1 DEF Flagged, ChargeOf, Out
  <2>5. QED
    BY <2>3, <2>4
<1>5. \A c \in Children : c \notin Out(lease)
  <2> SUFFICES ASSUME NEW c \in Children, c \in Out(lease) PROVE FALSE
    OBVIOUS
  <2> DEFINE p == Lender[c]
  <2>1. p \in Parents /\ p \in Leases
    BY Sizes, FiniteParts
  <2>2. c \in Groups(p, request)
    BY <1>1 DEF Callbacks, Groups
  <2>3. IsFiniteSet(Groups(p, request))
    BY FiniteParts, FS_Subset DEF Groups
  <2>4. Cardinality(Groups(p, request)) \in Nat /\ Cardinality(Groups(p, request)) # 0
    BY <2>2, <2>3, FS_EmptySet, FS_CardinalityType
  <2>5. Cardinality(bank[p].by) \in Nat
    BY <1>1, <2>1, SidesChange DEF TypeOK, BankSet
  <2>6. lease[p].holds # 0
    BY <1>1, <2>1, <2>4, <2>5 DEF Holdings, Holders
  <2>7. p \in Out(lease)
    BY <1>1, <2>1, <2>6 DEF Holdings, Out, TypeOK, LeaseSet
  <2>8. QED
    BY <1>4, <2>1, <2>7
<1>6. QED
  BY <1>3, <1>4, <1>5 DEF Out, Leases

\* What one grant does to the sums and to the flag.
LEMMA LeaseGranted ==
  ASSUME NEW ls \in [Leases -> LeaseSet], NEW ms \in [Leases -> LeaseSet], NEW x \in Leases,
         x \notin Out(ls), x \in Out(ms),
         \A k \in Leases \ {x} : ms[k].state = ls[k].state /\ ms[k].charge = ls[k].charge /\ ms[k].over = ls[k].over,
         NEW b \in [Leases -> BankSet], NEW pl \in [Callers -> PlainSet],
         NEW used \in Nat, NEW cap \in Nat,
         Balanced(ls, b, pl, used), Flagged(ls, pl, used, cap, FALSE),
         used + ms[x].charge <= cap, x \in Parents => ms[x].charge > 0,
         ms[x].over => ms[x].charge = cap /\ used = 0 /\ Out(ls) = {} /\ Held(pl) = {}
  PROVE  /\ Balanced(ms, b, pl, used + ms[x].charge)
         /\ Flagged(ms, pl, used + ms[x].charge, cap, ms[x].over)
<1>1. Out(ms) = Out(ls) \cup {x} /\ Out(ls) \subseteq Leases
  BY DEF Out
<1>2. IsFiniteSet(Out(ls)) /\ \A k \in Leases : ChargeOf(ms)[k] \in Nat /\ ChargeOf(ls)[k] \in Nat
  BY FiniteParts, FS_Subset DEF Out, ChargeOf, LeaseSet
<1>3. \A k \in Out(ls) : ChargeOf(ls)[k] = ChargeOf(ms)[k]
  BY <1>1 DEF ChargeOf
<1>4. Total(ChargeOf(ls), Out(ls)) = Total(ChargeOf(ms), Out(ls))
  BY <1>2, <1>3, TotalSame
<1>5. Total(ChargeOf(ms), Out(ms)) = Total(ChargeOf(ms), Out(ls)) + ChargeOf(ms)[x]
  <2>1. /\ IsFiniteSet(Out(ms)) /\ Out(ms) \ {x} = Out(ls)
        /\ \A y \in Out(ms) : ChargeOf(ms)[y] \in Nat
    BY <1>1, <1>2, FS_AddElement
  <2>2. Total(ChargeOf(ms), Out(ms)) = ChargeOf(ms)[x] + Total(ChargeOf(ms), Out(ms) \ {x})
    BY <2>1, TotalRemove
  <2>3. Total(ChargeOf(ms), Out(ls)) \in Nat /\ ChargeOf(ms)[x] \in Nat
    BY <1>1, <1>2, TotalNat
  <2>4. Total(ChargeOf(ms), Out(ms)) = ChargeOf(ms)[x] + Total(ChargeOf(ms), Out(ls))
    BY <2>1, <2>2
  <2>5. \A i, j \in Nat : i + j = j + i
    OBVIOUS
  <2>6. QED
    BY <2>3, <2>4, <2>5
<1>6. ChargeOf(ms)[x] = ms[x].charge /\ ms[x].charge \in Nat /\ ms[x].over \in BOOLEAN
  BY DEF ChargeOf, LeaseSet
<1>7. /\ Total(ChargeOf(ls), Out(ls)) \in Nat /\ Total(BytesOf(b), Leases) \in Nat
      /\ Total(PlainOf(pl), Held(pl)) \in Nat
  BY SumsNat
<1>8. Balanced(ms, b, pl, used + ms[x].charge)
  BY <1>1, <1>4, <1>5, <1>6, <1>7 DEF Balanced
<1>9. CASE ms[x].over
  <2>1. Out(ms) = {x} /\ Held(pl) = {} /\ used + ms[x].charge = cap
    BY <1>1, <1>6, <1>9
  <2>2. Flagged(ms, pl, used + ms[x].charge, cap, ms[x].over)
    BY <1>9, <2>1 DEF Flagged
  <2>3. QED
    BY <1>8, <2>2
<1>10. CASE ~ms[x].over
  <2>1. \A k \in Out(ls) : ~ls[k].over /\ ~ms[k].over /\ (k \in Parents => ms[k].charge > 0)
    BY <1>1 DEF Flagged
  <2>2. \A k \in Out(ms) : ~ms[k].over /\ (k \in Parents => ms[k].charge > 0)
    BY <1>1, <1>10, <2>1
  <2>3. Flagged(ms, pl, used + ms[x].charge, cap, FALSE)
    BY <2>2 DEF Flagged
  <2>4. ms[x].over = FALSE
    BY <1>6, <1>10
  <2>5. QED
    BY <1>8, <2>3, <2>4
<1>11. QED
  BY <1>9, <1>10

\* A grant fits beside what is in use and what is kept for the others; above the capacity it
\* finds the pool empty.
LEMMA GrantFits ==
  ASSUME IInv, NEW p \in Parents, NEW h \in Headrooms, Grant(p, h)
  PROVE  \E extra \in Nat :
           LET charge == Needs(p) + extra
           IN /\ lease' = [lease EXCEPT ![p] = [state |-> "live", base |-> Needs(p), extra |-> extra,
                             charge |-> charge, over |-> Base[p] > capacity, holds |-> 0]]
              /\ inUse' = inUse + charge /\ Needs(p) \in Nat /\ charge > 0
              /\ inUse + charge + Protection(pending \ {p}) <= capacity
              /\ Base[p] > capacity => charge = capacity /\ inUse = 0
<1> DEFINE offer == Min({MaxExtra, Free(p), FreeRam(p, h)})
           extra == IF Base[p] > capacity \/ offer < MinExtra THEN 0 ELSE offer
<1>1. /\ capacity \in Nat \ {0} /\ inUse \in Nat /\ pending \subseteq Parents /\ inUse <= capacity
  BY DEF IInv, TypeOK, Flagged
<1>2. /\ Base[p] \in Nat \ {0} /\ MinExtra \in Nat \ {0} /\ MaxExtra \in Nat /\ h \in Nat
  BY Sizes
<1>3. Others(p) \in Nat
  BY <1>1, ProtectionNat DEF Others
<1>4. /\ Needs(p) \in Nat /\ Needs(p) > 0 /\ Needs(p) <= capacity
      /\ (Base[p] > capacity => Needs(p) = capacity)
  BY <1>1, <1>2 DEF Needs, AtMost
<1>5. /\ ~Waits(p, h)
      /\ lease' = [lease EXCEPT ![p] = [state |-> "live", base |-> Needs(p), extra |-> extra,
                     charge |-> Needs(p) + extra, over |-> Base[p] > capacity, holds |-> 0]]
      /\ inUse' = inUse + Needs(p) + extra
  BY DEF Grant
<1>6. ~Blocked(p)
  BY <1>5 DEF Waits
<1>7. inUse + Needs(p) <= capacity - Others(p) /\ (Base[p] > capacity => inUse = 0)
  BY <1>1, <1>3, <1>4, <1>6 DEF Blocked
<1>8. Free(p) = capacity - inUse - Needs(p) - Others(p) /\ Free(p) \in Int
  BY <1>1, <1>3, <1>4 DEF Free
<1>9. FreeRam(p, h) \in Int
  <2>1. AtLeast0(h - Base[p] - inUse) \in Int
    BY <1>1, <1>2 DEF AtLeast0
  <2>2. QED
    BY <2>1 DEF FreeRam
<1>10. offer \in Int /\ offer <= Free(p)
  <2> DEFINE m == MaxExtra
             f == Free(p)
             g == FreeRam(p, h)
  <2>1. m \in Int /\ f \in Int /\ g \in Int
    BY <1>2, <1>8, <1>9
  <2> HIDE DEF m, f, g
  <2>2. \E x \in {m, f, g} : \A y \in {m, f, g} : x <= y
    BY <2>1
  <2>3. Min({m, f, g}) \in {m, f, g} /\ \A y \in {m, f, g} : Min({m, f, g}) <= y
    BY <2>2 DEF Min
  <2>4. Min({m, f, g}) \in Int /\ Min({m, f, g}) <= f
    BY <2>1, <2>3
  <2>5. QED
    BY <2>4 DEF m, f, g
<1> HIDE DEF offer
<1>11. extra \in Nat /\ inUse + (Needs(p) + extra) + Others(p) <= capacity
       /\ (Base[p] > capacity => extra = 0)
  BY <1>1, <1>2, <1>3, <1>4, <1>7, <1>8, <1>10
<1> HIDE DEF extra
<1>12. inUse' = inUse + (Needs(p) + extra) /\ Needs(p) + extra > 0
       /\ (Base[p] > capacity => Needs(p) + extra = capacity)
  BY <1>1, <1>4, <1>5, <1>11
<1>13. QED
  BY <1>4, <1>5, <1>7, <1>11, <1>12 DEF Others

\* A parent is admitted.
LEMMA AdmitStep ==
  ASSUME IInv, NEW p \in Parents, NEW h \in Headrooms, Admit(p, h)
  PROVE  IInv' /\ inUse' + Protection(pending') <= capacity'
<1>1. /\ TypeOK /\ Balanced(lease, bank, plain, inUse) /\ Flagged(lease, plain, inUse, capacity, emergency)
      /\ Holdings(lease, bank, request) /\ Callbacks(lease, request) /\ Wanted(lease, Leases)
      /\ Banks(bank) /\ Ungranted
  BY DEF IInv
<1>2. /\ Grant(p, h) /\ place[p] = "asking" /\ place' = [place EXCEPT ![p] = "working"]
      /\ UNCHANGED <<known, denseLimit>>
  BY DEF Admit, Move
<1>3. /\ emergency' = (emergency \/ Base[p] > capacity) /\ pending' = pending \ {p}
      /\ UNCHANGED <<capacity, request, bank, plain, stop>>
  BY <1>2 DEF Grant
<1>4. PICK extra \in Nat :
        LET charge == Needs(p) + extra
        IN /\ lease' = [lease EXCEPT ![p] = [state |-> "live", base |-> Needs(p), extra |-> extra,
                          charge |-> charge, over |-> Base[p] > capacity, holds |-> 0]]
           /\ inUse' = inUse + charge /\ Needs(p) \in Nat /\ charge > 0
           /\ inUse + charge + Protection(pending \ {p}) <= capacity
           /\ Base[p] > capacity => charge = capacity /\ inUse = 0
  BY <1>2, GrantFits
<1> DEFINE charge == Needs(p) + extra
<1>5. /\ p \in Leases /\ p \notin Children /\ lease[p].state = "none" /\ capacity \in Nat /\ inUse \in Nat
  BY <1>1, <1>2, FiniteParts DEF Ungranted, Early, TypeOK
<1>6. /\ charge \in Nat /\ charge > 0 /\ inUse' = inUse + charge /\ (Base[p] > capacity) \in BOOLEAN
      /\ (Base[p] > capacity => charge = capacity /\ inUse = 0)
      /\ inUse + charge + Protection(pending \ {p}) <= capacity
  BY <1>4
<1>7. /\ lease' \in [Leases -> LeaseSet]
      /\ lease'[p].state = "live" /\ lease'[p].charge = charge /\ lease'[p].holds = 0
      /\ lease'[p].over = (Base[p] > capacity)
      /\ \A k \in Leases \ {p} : lease'[k] = lease[k]
  <2> DEFINE new == [state |-> "live", base |-> Needs(p), extra |-> extra, charge |-> charge,
                     over |-> Base[p] > capacity, holds |-> 0]
  <2>1. lease' = [lease EXCEPT ![p] = new] /\ Needs(p) \in Nat
    BY <1>4
  <2>2. new \in LeaseSet
    BY <1>6, <2>1 DEF LeaseSet
  <2>3. /\ new.state = "live" /\ new.charge = charge /\ new.holds = 0 /\ new.over = (Base[p] > capacity)
    OBVIOUS
  <2> HIDE DEF new, charge
  <2>4. lease \in [Leases -> LeaseSet]
    BY <1>1 DEF TypeOK
  <2>5. QED
    BY <1>5, <2>1, <2>2, <2>3, <2>4
<1> HIDE DEF charge
<1>8. Protection(pending \ {p}) \in Nat /\ inUse + charge <= capacity
  <2>1. Protection(pending \ {p}) \in Nat
    BY <1>1, ProtectionNat DEF TypeOK
  <2>2. QED
    BY <1>5, <1>6, <2>1
<1>9. emergency = FALSE
  BY <1>1, <1>5, <1>6, <1>8 DEF Flagged, TypeOK
<1>10. Balanced(lease', bank, plain, inUse') /\ Flagged(lease', plain, inUse', capacity, emergency')
  <2>1. p \notin Out(lease) /\ p \in Out(lease')
    BY <1>5, <1>7 DEF Out
  <2>2. \A k \in Leases \ {p} : lease'[k].state = lease[k].state /\ lease'[k].charge = lease[k].charge
                                /\ lease'[k].over = lease[k].over
    BY <1>7
  <2>3. lease'[p].over => lease'[p].charge = capacity /\ inUse = 0 /\ Out(lease) = {} /\ Held(plain) = {}
    BY <1>6, <1>7, NothingOut
  <2>4. /\ Balanced(lease', bank, plain, inUse + lease'[p].charge)
        /\ Flagged(lease', plain, inUse + lease'[p].charge, capacity, lease'[p].over)
    BY <1>1, <1>5, <1>6, <1>7, <1>8, <1>9, <2>1, <2>2, <2>3, LeaseGranted DEF TypeOK
  <2>5. emergency' = lease'[p].over /\ inUse' = inUse + lease'[p].charge
    BY <1>3, <1>6, <1>7, <1>9
  <2>6. QED
    BY <2>4, <2>5
<1>11. Holdings(lease', bank, request)
  <2> SUFFICES ASSUME NEW k \in Leases
               PROVE  /\ lease'[k].holds = Holders(k, bank, request)
                      /\ lease'[k].state \in {"none", "returned"} => lease'[k].holds = 0
    BY DEF Holdings
  <2>1. lease[k].holds = Holders(k, bank, request)
        /\ (lease[k].state \in {"none", "returned"} => lease[k].holds = 0)
    BY <1>1 DEF Holdings
  <2>2. CASE k = p
    BY <1>5, <1>7, <2>1, <2>2
  <2>3. CASE k # p
    BY <1>7, <2>1, <2>3
  <2>4. QED
    BY <2>2, <2>3
<1>12. Callbacks(lease', request)
  <2>1. \A c \in Children : c \in Leases /\ lease'[c] = lease[c]
    BY <1>5, <1>7, FiniteParts
  <2>2. QED
    BY <1>1, <2>1 DEF Callbacks, Out
<1>13. Wanted(lease', Leases)
  BY <1>1, <1>7 DEF Wanted
<1>14. Ungranted'
  BY <1>1, <1>2, <1>7, FiniteParts DEF Ungranted, Early, TypeOK
<1>15. TypeOK'
  <2>1. place' \in [Parents -> Places] /\ inUse' \in Nat /\ emergency' \in BOOLEAN
    BY <1>1, <1>2, <1>3, <1>5, <1>6 DEF TypeOK, Places
  <2>2. QED
    BY <1>1, <1>2, <1>3, <1>7, <2>1 DEF TypeOK
<1>16. IInv'
  BY <1>1, <1>3, <1>10, <1>11, <1>12, <1>13, <1>14, <1>15 DEF IInv
<1>17. inUse' + Protection(pending') <= capacity'
  BY <1>3, <1>6
<1>18. QED
  BY <1>16, <1>17

\* A retry group's first section leaves the ledger alone; a refusal too.
LEMMA RequestStep ==
  ASSUME IInv, NEW c \in Children, request[c] \in {"issued", "started"},
         request' = [request EXCEPT ![c] = "started"] \/ request' = [request EXCEPT ![c] = "declined"],
         UNCHANGED <<capacity, inUse, emergency, pending, lease, bank, plain, place, denseLimit>>
  PROVE  IInv'
<1>1. /\ TypeOK /\ Holdings(lease, bank, request) /\ Callbacks(lease, request)
      /\ Balanced(lease, bank, plain, inUse) /\ Flagged(lease, plain, inUse, capacity, emergency)
      /\ Wanted(lease, Leases) /\ Banks(bank) /\ Ungranted
  BY DEF IInv
<1>2. /\ request' \in [Children -> Requested] /\ request'[c] \in {"started", "declined"}
      /\ \A k \in Children \ {c} : request'[k] = request[k]
  BY <1>1 DEF TypeOK, Requested
<1>3. \A k \in Leases : Groups(k, request') = Groups(k, request)
  BY <1>2 DEF Groups
<1>4. Holdings(lease, bank, request')
  BY <1>1, <1>3 DEF Holdings, Holders
<1>5. Callbacks(lease, request')
  <2> SUFFICES ASSUME NEW k \in Children
               PROVE  /\ request'[k] = "active" <=> k \in Out(lease)
                      /\ lease[k].state = "returned" => request'[k] = "settled"
    BY DEF Callbacks
  <2>1. /\ request[k] = "active" <=> k \in Out(lease)
        /\ lease[k].state = "returned" => request[k] = "settled"
    BY <1>1 DEF Callbacks
  <2>2. QED
    BY <1>2, <2>1
<1>6. TypeOK'
  BY <1>1, <1>2 DEF TypeOK
<1>7. QED
  BY <1>1, <1>4, <1>5, <1>6 DEF IInv, Ungranted

\* A retry group gets fresh credit, above the protections of the waiting parents.
LEMMA ChargeStep ==
  ASSUME IInv, NEW c \in Children, NEW h \in Headrooms, Charge(c, h), UNCHANGED staging
  PROVE  IInv' /\ (inUse' > inUse => inUse' + Protection(pending') <= capacity')
<1>1. /\ TypeOK /\ Balanced(lease, bank, plain, inUse) /\ Flagged(lease, plain, inUse, capacity, emergency)
      /\ Holdings(lease, bank, request) /\ Callbacks(lease, request) /\ Wanted(lease, Leases)
      /\ Banks(bank) /\ Ungranted
  BY DEF IInv
<1> DEFINE d == Demand(c)
           base == AtMost(lease[Lender[c]].base, Allowance)
           new == [NoLease EXCEPT !.state = "live", !.charge = d, !.base = base,
                     !.extra = lease[Lender[c]].extra]
<1>2. /\ request[c] = "started" /\ ~emergency /\ d <= AtLeast0(capacity - inUse - Protection(pending))
      /\ request' = [request EXCEPT ![c] = "active"] /\ inUse' = inUse + d
      /\ lease' = [lease EXCEPT ![c] = new]
      /\ UNCHANGED <<capacity, emergency, pending, bank, plain, place, denseLimit>>
  BY DEF Charge, Affordable, Room, staging
<1>3. /\ c \in Leases /\ c \notin Parents /\ Lender[c] \in Leases
      /\ capacity \in Nat /\ inUse \in Nat /\ inUse <= capacity
  BY <1>1, FiniteParts, Sizes DEF TypeOK, Flagged
<1>4. base \in Nat /\ lease[Lender[c]].extra \in Nat /\ d = base + lease[Lender[c]].extra /\ d \in Nat
  <2>1. lease[Lender[c]] \in LeaseSet
    BY <1>1, <1>3 DEF TypeOK
  <2>2. lease[Lender[c]].base \in Nat /\ lease[Lender[c]].extra \in Nat /\ Allowance \in Nat
    BY <2>1, Sizes DEF LeaseSet
  <2>3. base \in Nat
    BY <2>2 DEF AtMost
  <2>4. QED
    BY <2>2, <2>3 DEF Demand
<1>5. Protection(pending) \in Nat
  BY <1>1, ProtectionNat DEF TypeOK
<1>6. inUse + d <= capacity /\ (d > 0 => inUse + d + Protection(pending) <= capacity)
  BY <1>2, <1>3, <1>4, <1>5 DEF AtLeast0
<1> HIDE DEF d, base
<1>7. /\ lease' \in [Leases -> LeaseSet]
      /\ lease'[c].state = "live" /\ lease'[c].charge = d /\ lease'[c].holds = 0 /\ lease'[c].over = FALSE
      /\ \A k \in Leases \ {c} : lease'[k] = lease[k]
  <2>1. new \in LeaseSet /\ new.state = "live" /\ new.charge = d /\ new.holds = 0 /\ new.over = FALSE
    BY <1>4 DEF LeaseSet, NoLease
  <2>2. lease \in [Leases -> LeaseSet]
    BY <1>1 DEF TypeOK
  <2> HIDE DEF new
  <2>3. QED
    BY <1>2, <1>3, <2>1, <2>2
<1>8. lease[c].state = "none" /\ c \notin Out(lease)
  <2>1. c \notin Out(lease) /\ lease[c].state # "returned"
    BY <1>1, <1>2 DEF Callbacks
  <2>2. QED
    BY <1>1, <1>3, <2>1 DEF Out, TypeOK, LeaseSet
<1>9. Balanced(lease', bank, plain, inUse') /\ Flagged(lease', plain, inUse', capacity, emergency')
  <2>1. c \in Out(lease')
    BY <1>3, <1>7 DEF Out
  <2>2. \A k \in Leases \ {c} : lease'[k].state = lease[k].state /\ lease'[k].charge = lease[k].charge
                                /\ lease'[k].over = lease[k].over
    BY <1>7
  <2>3. emergency = FALSE /\ emergency' = FALSE
    BY <1>1, <1>2 DEF TypeOK
  <2>4. /\ Balanced(lease', bank, plain, inUse + lease'[c].charge)
        /\ Flagged(lease', plain, inUse + lease'[c].charge, capacity, lease'[c].over)
    BY <1>1, <1>3, <1>6, <1>7, <1>8, <2>1, <2>2, <2>3, LeaseGranted DEF TypeOK
  <2>5. QED
    BY <1>2, <1>7, <2>3, <2>4
<1>10. /\ request' \in [Children -> Requested] /\ request'[c] = "active"
       /\ \A k \in Children \ {c} : request'[k] = request[k]
  BY <1>1, <1>2 DEF TypeOK, Requested
<1>11. \A k \in Leases : Groups(k, request') = Groups(k, request)
  BY <1>2, <1>10 DEF Groups
<1>12. Holdings(lease', bank, request')
  <2> SUFFICES ASSUME NEW k \in Leases
               PROVE  /\ lease'[k].holds = Holders(k, bank, request')
                      /\ lease'[k].state \in {"none", "returned"} => lease'[k].holds = 0
    BY DEF Holdings
  <2>1. lease[k].holds = Holders(k, bank, request')
        /\ (lease[k].state \in {"none", "returned"} => lease[k].holds = 0)
    BY <1>1, <1>11 DEF Holdings, Holders
  <2>2. CASE k = c
    BY <1>7, <1>8, <2>1, <2>2
  <2>3. CASE k # c
    BY <1>7, <2>1, <2>3
  <2>4. QED
    BY <2>2, <2>3
<1>13. Callbacks(lease', request')
  <2> SUFFICES ASSUME NEW k \in Children
               PROVE  /\ request'[k] = "active" <=> k \in Out(lease')
                      /\ lease'[k].state = "returned" => request'[k] = "settled"
    BY DEF Callbacks
  <2>1. CASE k = c
    BY <1>3, <1>7, <1>10, <2>1 DEF Out
  <2>2. CASE k # c
    <3>1. k \in Leases /\ lease'[k] = lease[k] /\ request'[k] = request[k]
      BY <1>7, <1>10, <2>2, FiniteParts
    <3>2. QED
      BY <1>1, <3>1 DEF Callbacks, Out
  <2>3. QED
    BY <2>1, <2>2
<1>14. Wanted(lease', Leases)
  BY <1>1, <1>7 DEF Wanted
<1>15. Ungranted'
  BY <1>1, <1>2, <1>3, <1>7, FiniteParts DEF Ungranted
<1>16. TypeOK'
  BY <1>1, <1>2, <1>3, <1>4, <1>7, <1>10 DEF TypeOK
<1>17. IInv'
  BY <1>1, <1>2, <1>9, <1>12, <1>13, <1>14, <1>15, <1>16 DEF IInv
<1>18. inUse' > inUse => inUse' + Protection(pending') <= capacity'
  BY <1>2, <1>3, <1>4, <1>6
<1>19. QED
  BY <1>17, <1>18

-----------------------------------------------------------------------------
(* Borrowed banks and issued groups. *)

\* In an emergency no bank has bytes: the oversize grant is the whole pool.
LEMMA NoBytesInEmergency ==
  ASSUME IInv, emergency, NEW l \in Leases
  PROVE  bank[l].bytes = 0
<1>1. /\ TypeOK /\ Balanced(lease, bank, plain, inUse) /\ Flagged(lease, plain, inUse, capacity, emergency)
  BY DEF IInv
<1>2. /\ Total(ChargeOf(lease), Out(lease)) \in Nat /\ Total(BytesOf(bank), Leases) \in Nat
      /\ Total(PlainOf(plain), Held(plain)) \in Nat /\ capacity \in Nat
  BY <1>1, SumsNat DEF TypeOK
<1>3. /\ \A k \in Out(lease) : ChargeOf(lease)[k] \in Nat
      /\ \A q \in Held(plain) : PlainOf(plain)[q] \in Nat
      /\ \A k \in Leases : BytesOf(bank)[k] \in Nat
  BY <1>1 DEF Out, ChargeOf, Held, PlainOf, BytesOf, TypeOK, LeaseSet, PlainSet, BankSet
<1>4. IsFiniteSet(Out(lease)) /\ IsFiniteSet(Held(plain))
  BY FiniteParts, FS_Subset DEF Out, Held
<1>5. Total(ChargeOf(lease), Out(lease)) >= capacity \/ Total(PlainOf(plain), Held(plain)) >= capacity
  <2>1. CASE \E k \in Leases : Out(lease) = {k} /\ lease[k].over /\ Held(plain) = {}
    <3>1. PICK k \in Leases : Out(lease) = {k} /\ lease[k].over
      BY <2>1
    <3>2. k \in Out(lease) /\ ChargeOf(lease)[k] = capacity
      BY <1>1, <3>1 DEF Flagged, ChargeOf
    <3>3. ChargeOf(lease)[k] <= Total(ChargeOf(lease), Out(lease))
      BY <1>3, <1>4, <3>2, TotalBounds
    <3>4. QED
      BY <1>2, <3>2, <3>3
  <2>2. CASE \E q \in Callers : Out(lease) = {} /\ Held(plain) = {q} /\ plain[q].over
    <3>1. PICK q \in Callers : Held(plain) = {q} /\ plain[q].over
      BY <2>2
    <3>2. q \in Held(plain) /\ PlainOf(plain)[q] = capacity
      BY <1>1, <3>1 DEF Flagged, PlainOf
    <3>3. PlainOf(plain)[q] <= Total(PlainOf(plain), Held(plain))
      BY <1>3, <1>4, <3>2, TotalBounds
    <3>4. QED
      BY <1>2, <3>2, <3>3
  <2>3. QED
    BY <1>1, <2>1, <2>2 DEF Flagged
<1>6. Total(BytesOf(bank), Leases) = 0
  BY <1>1, <1>2, <1>5 DEF Balanced, Flagged
<1>7. BytesOf(bank)[l] <= 0 /\ BytesOf(bank)[l] \in Nat
  BY <1>3, <1>6, FiniteParts, TotalBounds
<1>8. QED
  BY <1>7 DEF BytesOf

\* A lease that lends to one more borrower keeps its place in the sums.
LEMMA HoldMore ==
  ASSUME TypeOK, NEW l \in Leases, lease' = [lease EXCEPT ![l].holds = @ + 1]
  PROVE  /\ lease' \in [Leases -> LeaseSet]
         /\ \A k \in Leases : /\ lease'[k].holds = IF k = l THEN lease[k].holds + 1 ELSE lease[k].holds
                              /\ lease'[k].charge = lease[k].charge /\ lease'[k].over = lease[k].over
                              /\ lease'[k].state = lease[k].state
                              /\ k \in Out(lease') <=> k \in Out(lease)
<1>1. lease \in [Leases -> LeaseSet]
  BY DEF TypeOK
<1>2. \A k \in Leases : lease[k] \in LeaseSet /\ lease[k].holds \in Nat
  BY <1>1 DEF LeaseSet
<1>3. /\ lease' \in [Leases -> LeaseSet]
      /\ \A k \in Leases : /\ lease'[k].holds = IF k = l THEN lease[k].holds + 1 ELSE lease[k].holds
                           /\ lease'[k].charge = lease[k].charge /\ lease'[k].over = lease[k].over
                           /\ lease'[k].state = lease[k].state
  BY <1>1, <1>2 DEF LeaseSet
<1>4. QED
  BY <1>3 DEF Out

\* A tracker scope opens a bank.
LEMMA BorrowStep ==
  ASSUME IInv, NEW l \in Leases, NEW n \in 0..MaxBank, NEW h \in Headrooms, Borrow(l, n, h), UNCHANGED staging
  PROVE  IInv' /\ (inUse' > inUse => inUse' + Protection(pending') <= capacity')
<1>1. /\ TypeOK /\ Balanced(lease, bank, plain, inUse) /\ Flagged(lease, plain, inUse, capacity, emergency)
      /\ Holdings(lease, bank, request) /\ Callbacks(lease, request) /\ Wanted(lease, Leases)
      /\ Banks(bank) /\ Ungranted
  BY DEF IInv
<1> DEFINE room == AtLeast0(capacity - inUse - Protection(pending))
           left == AtLeast0(h - inUse - IF l \in Parents THEN Base[l] - lease[l].base ELSE 0)
<1>2. /\ lease[l].state = "live" /\ ~bank[l].open /\ n <= Min({MaxBank, room, left})
      /\ inUse' = inUse + n
      /\ bank' = [bank EXCEPT ![l] = [NoBank EXCEPT !.open = TRUE,
                                        !.by = {"creator"}, !.bytes = n, !.uses = bank[l].uses + 1]]
      /\ lease' = [lease EXCEPT ![l].holds = @ + 1]
      /\ UNCHANGED <<capacity, emergency, pending, request, plain, place, denseLimit>>
  BY DEF Borrow, staging
<1>3. /\ capacity \in Nat /\ inUse \in Nat /\ inUse <= capacity /\ n \in Nat /\ Protection(pending) \in Nat
      /\ lease \in [Leases -> LeaseSet] /\ bank \in [Leases -> BankSet]
  BY <1>1, Sizes, ProtectionNat DEF TypeOK, Flagged
<1>4. n <= room /\ room \in Int
  <2>1. MaxBank \in Int /\ room \in Int
    BY <1>3, Sizes DEF AtLeast0
  <2>2. left \in Int
    <3>1. h \in Nat /\ (l \in Parents => Base[l] \in Nat) /\ lease[l].base \in Nat
      BY <1>3, Sizes DEF LeaseSet
    <3>2. QED
      BY <1>3, <3>1 DEF AtLeast0
  <2> HIDE DEF room, left
  <2>3. \E x \in {MaxBank, room, left} : \A y \in {MaxBank, room, left} : x <= y
    BY <2>1, <2>2
  <2>4. Min({MaxBank, room, left}) \in {MaxBank, room, left} /\ Min({MaxBank, room, left}) <= room
    BY <2>3 DEF Min
  <2>5. Min({MaxBank, room, left}) \in Int
    BY <2>1, <2>2, <2>4
  <2>6. QED
    BY <1>2, <1>3, <2>1, <2>4, <2>5
<1>5. inUse + n <= capacity /\ (n > 0 => inUse + n + Protection(pending) <= capacity)
  BY <1>3, <1>4 DEF AtLeast0
<1> HIDE DEF room, left
<1>6. bank[l].by = {} /\ bank[l].bytes = 0
  BY <1>1, <1>2 DEF Banks
<1>7. /\ bank' \in [Leases -> BankSet]
      /\ bank'[l].open /\ bank'[l].by = {"creator"} /\ bank'[l].bytes = n
      /\ \A k \in Leases \ {l} : bank'[k] = bank[k]
  <2> DEFINE new == [NoBank EXCEPT !.open = TRUE, !.by = {"creator"}, !.bytes = n, !.uses = bank[l].uses + 1]
  <2>1. bank[l].uses \in Nat
    BY <1>3 DEF BankSet
  <2>2. new \in BankSet /\ new.open = TRUE /\ new.by = {"creator"} /\ new.bytes = n /\ new.lent = FALSE
    <3>1. NoBank \in BankSet /\ NoBank.lent = FALSE
      BY DEF NoBank, BankSet
    <3>2. bank[l].uses + 1 \in Nat
      BY <2>1
    <3>3. QED
      BY <1>3, <3>1, <3>2 DEF BankSet
  <2>3. bank' = [bank EXCEPT ![l] = new]
    BY <1>2
  <2> HIDE DEF new
  <2>4. QED
    BY <1>3, <2>2, <2>3
<1>8. Banks(bank')
  <2>1. bank'[l].open /\ "scheduler" \notin bank'[l].by
    BY <1>7
  <2>2. QED
    BY <1>1, <1>7, <2>1 DEF Banks
<1>9. /\ lease' \in [Leases -> LeaseSet]
      /\ \A k \in Leases : /\ lease'[k].holds = IF k = l THEN lease[k].holds + 1 ELSE lease[k].holds
                           /\ lease'[k].charge = lease[k].charge /\ lease'[k].over = lease[k].over
                           /\ lease'[k].state = lease[k].state
                           /\ k \in Out(lease') <=> k \in Out(lease)
  BY <1>1, <1>2, HoldMore
<1>10. Balanced(lease', bank', plain, inUse')
  <2>1. Balanced(lease', bank, plain, inUse)
    BY <1>1, <1>3, <1>9, SameMoney
  <2>2. /\ Total(ChargeOf(lease'), Out(lease')) \in Nat /\ Total(BytesOf(bank), Leases) \in Nat
        /\ Total(PlainOf(plain), Held(plain)) \in Nat /\ Total(BytesOf(bank'), Leases) \in Nat
    BY <1>1, <1>3, <1>7, <1>9, SumsNat DEF TypeOK
  <2>3. \A k \in Leases : BytesOf(bank)[k] \in Nat /\ BytesOf(bank')[k] \in Nat
    BY <1>3, <1>7 DEF BytesOf, BankSet
  <2>4. \A k \in Leases \ {l} : BytesOf(bank)[k] = BytesOf(bank')[k]
    BY <1>7 DEF BytesOf
  <2>5. Total(BytesOf(bank'), Leases) + BytesOf(bank)[l] = Total(BytesOf(bank), Leases) + BytesOf(bank')[l]
    BY <2>3, <2>4, FiniteParts, TotalChange
  <2>6. BytesOf(bank)[l] = 0 /\ BytesOf(bank')[l] = n
    BY <1>6, <1>7 DEF BytesOf
  <2>7. QED
    BY <1>2, <1>3, <2>1, <2>2, <2>5, <2>6 DEF Balanced
<1>11. Flagged(lease', plain, inUse', capacity, emergency)
  <2>1. Flagged(lease', plain, inUse, capacity, emergency)
    BY <1>1, <1>3, <1>9, SameMoney
  <2>2. emergency => n = 0
    BY <1>1, <1>3, <1>5 DEF Flagged
  <2>3. inUse' <= capacity /\ (emergency => inUse' = inUse)
    BY <1>2, <1>3, <1>5, <2>2
  <2>4. QED
    BY <2>1, <2>3 DEF Flagged
<1>12. Holdings(lease', bank', request)
  <2> SUFFICES ASSUME NEW k \in Leases
               PROVE  /\ lease'[k].holds = Holders(k, bank', request)
                      /\ lease'[k].state \in {"none", "returned"} => lease'[k].holds = 0
    BY DEF Holdings
  <2>1. lease[k].holds = Holders(k, bank, request)
        /\ (lease[k].state \in {"none", "returned"} => lease[k].holds = 0)
    BY <1>1 DEF Holdings
  <2>2. CASE k = l
    <3>1. Cardinality(bank[k].by) = 0 /\ Cardinality(bank'[k].by) = 1
      BY <1>6, <1>7, <2>2, FS_EmptySet, FS_Singleton
    <3>2. Cardinality(Groups(k, request)) \in Nat
      BY FiniteParts, FS_Subset, FS_CardinalityType DEF Groups
    <3>3. QED
      BY <1>2, <1>9, <2>1, <2>2, <3>1, <3>2 DEF Holders
  <2>3. CASE k # l
    BY <1>7, <1>9, <2>1, <2>3 DEF Holders
  <2>4. QED
    BY <2>2, <2>3
<1>13. Callbacks(lease', request)
  BY <1>1, <1>9, FiniteParts DEF Callbacks
<1>14. Wanted(lease', Leases)
  BY <1>1, <1>2, <1>9 DEF Wanted
<1>15. Ungranted'
  BY <1>1, <1>2, <1>9, FiniteParts DEF Ungranted
<1>16. TypeOK'
  BY <1>1, <1>2, <1>3, <1>7, <1>9 DEF TypeOK
<1>17. IInv'
  BY <1>2, <1>8, <1>10, <1>11, <1>12, <1>13, <1>14, <1>15, <1>16 DEF IInv
<1>18. QED
  BY <1>2, <1>3, <1>5, <1>17

\* The scheduler takes its own hold on a bank.
LEMMA AcquireStep ==
  ASSUME IInv, NEW l \in Leases, Acquire(l), UNCHANGED staging
  PROVE  IInv' /\ inUse' = inUse
<1>1. /\ TypeOK /\ Balanced(lease, bank, plain, inUse) /\ Flagged(lease, plain, inUse, capacity, emergency)
      /\ Holdings(lease, bank, request) /\ Callbacks(lease, request) /\ Wanted(lease, Leases)
      /\ Banks(bank) /\ Ungranted
  BY DEF IInv
<1>2. /\ lease[l].state = "live" /\ "creator" \in bank[l].by /\ ~bank[l].lent
      /\ bank' = [bank EXCEPT ![l].by = @ \union {"scheduler"}, ![l].lent = TRUE]
      /\ lease' = [lease EXCEPT ![l].holds = @ + 1]
      /\ UNCHANGED <<capacity, inUse, emergency, pending, request, plain, place, denseLimit>>
  BY DEF Acquire, staging
<1>3. /\ bank' \in [Leases -> BankSet]
      /\ bank'[l].by = bank[l].by \union {"scheduler"} /\ bank'[l].lent
      /\ bank'[l].open = bank[l].open /\ bank'[l].bytes = bank[l].bytes
      /\ \A k \in Leases \ {l} : bank'[k] = bank[k]
  BY <1>1, <1>2 DEF TypeOK, BankSet
<1>4. "scheduler" \notin bank[l].by /\ bank[l].open
  BY <1>1, <1>2 DEF Banks
<1>5. Banks(bank')
  BY <1>1, <1>3, <1>4 DEF Banks
<1>6. /\ lease' \in [Leases -> LeaseSet]
      /\ \A k \in Leases : /\ lease'[k].holds = IF k = l THEN lease[k].holds + 1 ELSE lease[k].holds
                           /\ lease'[k].charge = lease[k].charge /\ lease'[k].over = lease[k].over
                           /\ lease'[k].state = lease[k].state
                           /\ k \in Out(lease') <=> k \in Out(lease)
  BY <1>1, <1>2, HoldMore
<1>7. Balanced(lease', bank', plain, inUse) /\ Flagged(lease', plain, inUse, capacity, emergency)
  <2>1. \A k \in Leases : bank'[k].bytes = bank[k].bytes
    BY <1>3
  <2>2. lease \in [Leases -> LeaseSet] /\ bank \in [Leases -> BankSet]
    BY <1>1 DEF TypeOK
  <2>3. QED
    BY <1>1, <1>3, <1>6, <2>1, <2>2, SameMoney
<1>8. Holdings(lease', bank', request)
  <2> SUFFICES ASSUME NEW k \in Leases
               PROVE  /\ lease'[k].holds = Holders(k, bank', request)
                      /\ lease'[k].state \in {"none", "returned"} => lease'[k].holds = 0
    BY DEF Holdings
  <2>1. lease[k].holds = Holders(k, bank, request)
        /\ (lease[k].state \in {"none", "returned"} => lease[k].holds = 0)
    BY <1>1 DEF Holdings
  <2>2. CASE k = l
    <3>1. bank[l].by \in SUBSET {"creator", "scheduler"}
      BY <1>1 DEF TypeOK, BankSet
    <3>2. Cardinality(bank'[l].by) = Cardinality(bank[l].by) + 1 /\ Cardinality(bank[l].by) \in Nat
      BY <1>3, <1>4, <3>1, SidesChange
    <3>3. Cardinality(Groups(k, request)) \in Nat
      BY FiniteParts, FS_Subset, FS_CardinalityType DEF Groups
    <3>4. QED
      BY <1>2, <1>6, <2>1, <2>2, <3>2, <3>3 DEF Holders
  <2>3. CASE k # l
    BY <1>3, <1>6, <2>1, <2>3 DEF Holders
  <2>4. QED
    BY <2>2, <2>3
<1>9. Callbacks(lease', request)
  BY <1>1, <1>6, FiniteParts DEF Callbacks
<1>10. Wanted(lease', Leases)
  BY <1>1, <1>2, <1>6 DEF Wanted
<1>11. Ungranted'
  BY <1>1, <1>2, <1>6, FiniteParts DEF Ungranted
<1>12. TypeOK'
  BY <1>1, <1>2, <1>3, <1>6 DEF TypeOK
<1>13. QED
  BY <1>2, <1>5, <1>7, <1>8, <1>9, <1>10, <1>11, <1>12 DEF IInv

\* A retry group is issued and holds its lender.
LEMMA IssueStep ==
  ASSUME IInv, NEW c \in Children, Issue(c), UNCHANGED staging
  PROVE  IInv' /\ inUse' = inUse
<1> DEFINE l == Lender[c]
<1>1. /\ TypeOK /\ Balanced(lease, bank, plain, inUse) /\ Flagged(lease, plain, inUse, capacity, emergency)
      /\ Holdings(lease, bank, request) /\ Callbacks(lease, request) /\ Wanted(lease, Leases)
      /\ Banks(bank) /\ Ungranted
  BY DEF IInv
<1>2. /\ request[c] = "none" /\ lease[l].state = "live"
      /\ request' = [request EXCEPT ![c] = "issued"]
      /\ lease' = [lease EXCEPT ![l].holds = @ + 1]
      /\ UNCHANGED <<capacity, inUse, emergency, pending, bank, plain, place, denseLimit>>
  BY DEF Issue, staging
<1>3. l \in Leases
  BY Sizes, FiniteParts
<1>4. /\ request' \in [Children -> Requested] /\ request'[c] = "issued"
      /\ \A k \in Children \ {c} : request'[k] = request[k]
  BY <1>1, <1>2 DEF TypeOK, Requested
<1>5. /\ \A k \in Leases : k # l => Groups(k, request') = Groups(k, request)
      /\ Cardinality(Groups(l, request')) = Cardinality(Groups(l, request)) + 1
      /\ Cardinality(Groups(l, request)) \in Nat
  <2>1. /\ request \in [Children -> Requested] /\ request[c] \in {"none", "settled"}
        /\ request'[c] \notin {"none", "settled"}
    BY <1>1, <1>2, <1>4 DEF TypeOK
  <2>2. \A k \in Leases : k # l => Groups(k, request') = Groups(k, request)
    BY <1>4, <2>1, GroupsChange
  <2>3. /\ Cardinality(Groups(l, request')) = Cardinality(Groups(l, request)) + 1
        /\ Cardinality(Groups(l, request)) \in Nat
    BY <1>3, <1>4, <2>1, GroupsChange
  <2>4. QED
    BY <2>2, <2>3
<1> HIDE DEF l
<1>6. /\ lease' \in [Leases -> LeaseSet]
      /\ \A k \in Leases : /\ lease'[k].holds = IF k = l THEN lease[k].holds + 1 ELSE lease[k].holds
                           /\ lease'[k].charge = lease[k].charge /\ lease'[k].over = lease[k].over
                           /\ lease'[k].state = lease[k].state
                           /\ k \in Out(lease') <=> k \in Out(lease)
  BY <1>1, <1>2, <1>3, HoldMore
<1>7. Balanced(lease', bank, plain, inUse) /\ Flagged(lease', plain, inUse, capacity, emergency)
  <2>1. lease \in [Leases -> LeaseSet] /\ bank \in [Leases -> BankSet]
    BY <1>1 DEF TypeOK
  <2>2. QED
    BY <1>1, <1>6, <2>1, SameMoney
<1>8. Holdings(lease', bank, request')
  <2> SUFFICES ASSUME NEW k \in Leases
               PROVE  /\ lease'[k].holds = Holders(k, bank, request')
                      /\ lease'[k].state \in {"none", "returned"} => lease'[k].holds = 0
    BY DEF Holdings
  <2>1. lease[k].holds = Holders(k, bank, request)
        /\ (lease[k].state \in {"none", "returned"} => lease[k].holds = 0)
    BY <1>1 DEF Holdings
  <2>2. CASE k = l
    <3>1. Cardinality(bank[l].by) \in Nat
      BY <1>1, <1>3, SidesChange DEF TypeOK, BankSet
    <3>2. QED
      BY <1>2, <1>5, <1>6, <2>1, <2>2, <3>1 DEF Holders
  <2>3. CASE k # l
    BY <1>5, <1>6, <2>1, <2>3 DEF Holders
  <2>4. QED
    BY <2>2, <2>3
<1>9. Callbacks(lease', request')
  <2> SUFFICES ASSUME NEW k \in Children
               PROVE  /\ request'[k] = "active" <=> k \in Out(lease')
                      /\ lease'[k].state = "returned" => request'[k] = "settled"
    BY DEF Callbacks
  <2>1. /\ request[k] = "active" <=> k \in Out(lease)
        /\ lease[k].state = "returned" => request[k] = "settled"
    BY <1>1 DEF Callbacks
  <2>2. k \in Leases
    BY FiniteParts
  <2>3. QED
    BY <1>2, <1>4, <1>6, <2>1, <2>2
<1>10. Wanted(lease', Leases)
  BY <1>1, <1>2, <1>6 DEF Wanted
<1>11. Ungranted'
  BY <1>1, <1>2, <1>6, FiniteParts DEF Ungranted
<1>12. TypeOK'
  BY <1>1, <1>2, <1>4, <1>6 DEF TypeOK
<1>13. QED
  BY <1>1, <1>2, <1>7, <1>8, <1>9, <1>10, <1>11, <1>12 DEF IInv

\* A bank that nobody uses gives its bytes back.
LEMMA ReturnBankStep ==
  ASSUME IInv, NEW l \in Leases, ReturnBank(l), UNCHANGED staging
  PROVE  IInv' /\ inUse' <= inUse
<1>1. /\ TypeOK /\ Balanced(lease, bank, plain, inUse) /\ Flagged(lease, plain, inUse, capacity, emergency)
      /\ Holdings(lease, bank, request) /\ Callbacks(lease, request) /\ Wanted(lease, Leases)
      /\ Banks(bank) /\ Ungranted
  BY DEF IInv
<1>2. /\ bank[l].by = {} /\ inUse' = inUse - bank[l].bytes
      /\ bank' = [bank EXCEPT ![l].open = FALSE, ![l].bytes = 0]
      /\ UNCHANGED <<capacity, emergency, pending, lease, request, plain, place, denseLimit>>
  BY DEF ReturnBank, staging
<1>3. /\ bank' \in [Leases -> BankSet]
      /\ bank'[l].by = {} /\ bank'[l].bytes = 0 /\ bank'[l].lent = bank[l].lent
      /\ \A k \in Leases \ {l} : bank'[k] = bank[k]
  BY <1>1, <1>2 DEF TypeOK, BankSet
<1>4. Banks(bank')
  BY <1>1, <1>3 DEF Banks
<1>5. inUse' \in Nat /\ Balanced(lease, bank', plain, inUse') /\ inUse' <= inUse
  <2>1. /\ Total(ChargeOf(lease), Out(lease)) \in Nat /\ Total(BytesOf(bank), Leases) \in Nat
        /\ Total(PlainOf(plain), Held(plain)) \in Nat /\ Total(BytesOf(bank'), Leases) \in Nat
    BY <1>1, <1>3, SumsNat DEF TypeOK
  <2>2. \A k \in Leases : BytesOf(bank)[k] \in Nat /\ BytesOf(bank')[k] \in Nat
    BY <1>1, <1>3 DEF BytesOf, BankSet, TypeOK
  <2>3. \A k \in Leases \ {l} : BytesOf(bank)[k] = BytesOf(bank')[k]
    BY <1>3 DEF BytesOf
  <2>4. Total(BytesOf(bank'), Leases) + BytesOf(bank)[l] = Total(BytesOf(bank), Leases) + BytesOf(bank')[l]
    BY <2>2, <2>3, FiniteParts, TotalChange
  <2>5. BytesOf(bank)[l] = bank[l].bytes /\ BytesOf(bank')[l] = 0 /\ bank[l].bytes \in Nat
    BY <1>3, <2>2 DEF BytesOf
  <2>6. QED
    BY <1>1, <1>2, <2>1, <2>4, <2>5 DEF Balanced
<1>6. Flagged(lease, plain, inUse', capacity, emergency)
  <2>1. emergency => inUse' = inUse
    BY <1>1, <1>2, NoBytesInEmergency DEF TypeOK
  <2>2. inUse' <= capacity
    BY <1>1, <1>5 DEF Flagged, TypeOK
  <2>3. QED
    BY <1>1, <2>1, <2>2 DEF Flagged
<1>7. Holdings(lease, bank', request)
  <2>1. \A k \in Leases : bank'[k].by = bank[k].by
    BY <1>2, <1>3
  <2>2. QED
    BY <1>1, <2>1 DEF Holdings, Holders
<1>8. TypeOK'
  BY <1>1, <1>2, <1>3, <1>5 DEF TypeOK
<1>9. QED
  BY <1>1, <1>2, <1>4, <1>5, <1>6, <1>7, <1>8 DEF IInv, Ungranted

-----------------------------------------------------------------------------
(* Plain reservations, and the steps that leave the ledger alone. *)

\* A plain reservation is made; a request above the capacity finds the pool empty.
LEMMA ReserveStep ==
  ASSUME IInv, NEW q \in Callers, Reserve(q), UNCHANGED staging
  PROVE  IInv' /\ plain' # plain
<1>1. /\ TypeOK /\ Balanced(lease, bank, plain, inUse) /\ Flagged(lease, plain, inUse, capacity, emergency)
      /\ Holdings(lease, bank, request) /\ Callbacks(lease, request) /\ Wanted(lease, Leases)
      /\ Banks(bank) /\ Ungranted
  BY DEF IInv
<1> DEFINE n == AtMost(Ask[q], capacity)
           over == Ask[q] > capacity
<1>2. /\ plain[q].state = "idle" /\ ~emergency /\ (inUse > 0 => inUse + n <= capacity)
      /\ plain' = [plain EXCEPT ![q] = [state |-> "held", charge |-> n, over |-> over]]
      /\ inUse' = inUse + n /\ emergency' = over
      /\ UNCHANGED <<capacity, pending, lease, request, bank, place, denseLimit>>
  BY DEF Reserve, staging
<1>3. /\ n \in Nat /\ n > 0 /\ n <= capacity /\ (over => n = capacity) /\ over \in BOOLEAN
      /\ capacity \in Nat /\ inUse \in Nat
  BY <1>1, Sizes DEF AtMost, TypeOK
<1>4. inUse + n <= capacity /\ (over => inUse = 0)
  BY <1>2, <1>3
<1> HIDE DEF n, over
<1>5. /\ plain' \in [Callers -> PlainSet]
      /\ plain'[q].state = "held" /\ plain'[q].charge = n /\ plain'[q].over = over
      /\ \A k \in Callers \ {q} : plain'[k] = plain[k]
  <2> DEFINE new == [state |-> "held", charge |-> n, over |-> over]
  <2>1. new \in PlainSet /\ new.state = "held" /\ new.charge = n /\ new.over = over
    BY <1>3 DEF PlainSet
  <2>2. plain \in [Callers -> PlainSet] /\ plain' = [plain EXCEPT ![q] = new]
    BY <1>1, <1>2 DEF TypeOK
  <2> HIDE DEF new
  <2>3. QED
    BY <2>1, <2>2
<1>6. q \notin Held(plain) /\ Held(plain') = Held(plain) \union {q} /\ Held(plain) \subseteq Callers
  BY <1>2, <1>5 DEF Held
<1>7. Balanced(lease, bank, plain', inUse')
  <2>1. /\ Total(ChargeOf(lease), Out(lease)) \in Nat /\ Total(BytesOf(bank), Leases) \in Nat
        /\ Total(PlainOf(plain), Held(plain)) \in Nat
    BY <1>1, SumsNat DEF TypeOK
  <2>2. \A k \in Callers : PlainOf(plain)[k] \in Nat /\ PlainOf(plain')[k] \in Nat
    BY <1>1, <1>5 DEF PlainOf, PlainSet, TypeOK
  <2>3. \A k \in Held(plain) : PlainOf(plain)[k] = PlainOf(plain')[k]
    BY <1>5, <1>6 DEF PlainOf
  <2>4. IsFiniteSet(Held(plain)) /\ IsFiniteSet(Held(plain'))
    BY FiniteParts, FS_Subset DEF Held
  <2>5. Total(PlainOf(plain), Held(plain)) = Total(PlainOf(plain'), Held(plain))
    BY <2>3, <2>4, TotalSame
  <2>6. Held(plain') \ {q} = Held(plain) /\ q \in Held(plain')
        /\ \A k \in Held(plain') : PlainOf(plain')[k] \in Nat
    BY <1>6, <2>2
  <2>7. Total(PlainOf(plain'), Held(plain')) = PlainOf(plain')[q] + Total(PlainOf(plain'), Held(plain') \ {q})
    BY <2>4, <2>6, TotalRemove
  <2>8. PlainOf(plain')[q] = n
    BY <1>5 DEF PlainOf
  <2>9. Total(PlainOf(plain'), Held(plain')) = n + Total(PlainOf(plain), Held(plain))
    BY <2>5, <2>6, <2>7, <2>8
  <2>10. QED
    BY <1>1, <1>2, <1>3, <2>1, <2>9 DEF Balanced
<1>8. Flagged(lease, plain', inUse', capacity, emergency')
  <2>1. CASE over
    <3>1. Out(lease) = {} /\ Held(plain) = {} /\ inUse' = capacity
      BY <1>2, <1>3, <1>4, <2>1, NothingOut
    <3>2. Held(plain') = {q}
      BY <1>6, <3>1
    <3>3. QED
      BY <1>2, <1>3, <1>5, <2>1, <3>1, <3>2 DEF Flagged
  <2>2. CASE ~over
    <3>1. \A l \in Out(lease) : ~lease[l].over /\ (l \in Parents => lease[l].charge > 0)
      BY <1>1, <1>2 DEF Flagged
    <3>2. \A k \in Held(plain') : ~plain'[k].over /\ plain'[k].charge > 0
      BY <1>1, <1>2, <1>3, <1>5, <1>6, <2>2 DEF Flagged
    <3>3. QED
      BY <1>2, <1>4, <2>2, <3>1, <3>2 DEF Flagged
  <2>3. QED
    BY <2>1, <2>2
<1>9. TypeOK'
  BY <1>1, <1>2, <1>3, <1>5 DEF TypeOK
<1>10. IInv'
  BY <1>1, <1>2, <1>7, <1>8, <1>9 DEF IInv, Ungranted
<1>11. QED
  BY <1>2, <1>5, <1>10

\* A plain reservation ends.
LEMMA UnreserveStep ==
  ASSUME IInv, NEW q \in Callers, Unreserve(q), UNCHANGED staging
  PROVE  IInv' /\ inUse' <= inUse
<1>1. /\ TypeOK /\ Balanced(lease, bank, plain, inUse) /\ Flagged(lease, plain, inUse, capacity, emergency)
      /\ Holdings(lease, bank, request) /\ Callbacks(lease, request) /\ Wanted(lease, Leases)
      /\ Banks(bank) /\ Ungranted
  BY DEF IInv
<1>2. /\ plain[q].state = "held" /\ plain' = [plain EXCEPT ![q].state = "done"]
      /\ inUse' = inUse - plain[q].charge /\ emergency' = (emergency /\ ~plain[q].over)
      /\ UNCHANGED <<capacity, pending, lease, request, bank, place, denseLimit>>
  BY DEF Unreserve, staging
<1>3. /\ plain' \in [Callers -> PlainSet]
      /\ plain'[q].state = "done"
      /\ \A k \in Callers : plain'[k].charge = plain[k].charge /\ plain'[k].over = plain[k].over
      /\ \A k \in Callers \ {q} : plain'[k] = plain[k]
  BY <1>1, <1>2 DEF TypeOK, PlainSet
<1>4. q \in Held(plain) /\ Held(plain') = Held(plain) \ {q} /\ Held(plain) \subseteq Callers
  BY <1>2, <1>3 DEF Held
<1>5. inUse' \in Nat /\ Balanced(lease, bank, plain', inUse') /\ inUse' <= inUse
  <2>1. /\ Total(ChargeOf(lease), Out(lease)) \in Nat /\ Total(BytesOf(bank), Leases) \in Nat
        /\ Total(PlainOf(plain'), Held(plain')) \in Nat
    BY <1>1, <1>3, SumsNat DEF TypeOK
  <2>2. PlainOf(plain') = PlainOf(plain) /\ \A k \in Held(plain) : PlainOf(plain)[k] \in Nat
    BY <1>1, <1>3 DEF PlainOf, PlainSet, TypeOK, Held
  <2>3. IsFiniteSet(Held(plain))
    BY FiniteParts, FS_Subset DEF Held
  <2>4. Total(PlainOf(plain), Held(plain)) = PlainOf(plain)[q] + Total(PlainOf(plain), Held(plain) \ {q})
    BY <1>4, <2>2, <2>3, TotalRemove
  <2>5. PlainOf(plain)[q] = plain[q].charge /\ plain[q].charge \in Nat
    BY <1>1 DEF PlainOf, PlainSet, TypeOK
  <2>6. Total(PlainOf(plain), Held(plain)) = plain[q].charge + Total(PlainOf(plain'), Held(plain'))
    BY <1>4, <2>2, <2>4, <2>5
  <2>7. QED
    BY <1>1, <1>2, <2>1, <2>5, <2>6 DEF Balanced
<1>6. emergency' \in BOOLEAN /\ inUse' <= capacity
  BY <1>1, <1>2, <1>5 DEF TypeOK, Flagged
<1>7. Flagged(lease, plain', inUse', capacity, emergency')
  <2>1. CASE emergency
    <3>1. Out(lease) = {} /\ Held(plain) = {q} /\ plain[q].over
      BY <1>1, <1>4, <2>1 DEF Flagged
    <3>2. emergency' = FALSE /\ Held(plain') = {}
      BY <1>2, <1>4, <3>1
    <3>3. QED
      BY <1>6, <3>1, <3>2 DEF Flagged
  <2>2. CASE ~emergency
    <3>1. emergency' = FALSE /\ emergency = FALSE
      BY <1>1, <1>2, <2>2 DEF TypeOK
    <3>2. \A k \in Held(plain') : k \in Held(plain) /\ plain'[k].charge = plain[k].charge /\ plain'[k].over = plain[k].over
      BY <1>3, <1>4
    <3>3. QED
      BY <1>1, <1>6, <3>1, <3>2 DEF Flagged
  <2>3. QED
    BY <2>1, <2>2
<1>8. TypeOK'
  BY <1>1, <1>2, <1>3, <1>5, <1>6 DEF TypeOK
<1>9. QED
  BY <1>1, <1>2, <1>5, <1>7, <1>8 DEF IInv, Ungranted

\* Places, protections and a capacity that grows outside an emergency.
LEMMA QuietStep ==
  ASSUME IInv, UNCHANGED <<inUse, emergency, lease, request, bank, plain>>,
         pending' \subseteq Parents, place' \in [Parents -> Places], denseLimit' \in Int,
         \A p \in Parents : place'[p] \in Early => place[p] \in Early,
         capacity' = capacity \/ (~emergency /\ capacity' \in Int /\ capacity' >= capacity)
  PROVE  IInv'
<1>1. /\ TypeOK /\ Balanced(lease, bank, plain, inUse) /\ Flagged(lease, plain, inUse, capacity, emergency)
      /\ Holdings(lease, bank, request) /\ Callbacks(lease, request) /\ Wanted(lease, Leases)
      /\ Banks(bank) /\ Ungranted
  BY DEF IInv
<1>2. capacity \in Nat \ {0} /\ inUse \in Nat
  BY <1>1 DEF TypeOK
<1>3. capacity' \in Nat \ {0}
  BY <1>2
<1>4. Flagged(lease, plain, inUse, capacity', emergency)
  <2>1. CASE capacity' = capacity
    BY <1>1, <2>1
  <2>2. CASE ~emergency /\ capacity' >= capacity
    <3>1. inUse <= capacity'
      BY <1>1, <1>2, <1>3, <2>2 DEF Flagged
    <3>2. QED
      BY <1>1, <2>2, <3>1 DEF Flagged
  <2>3. QED
    BY <2>1, <2>2
<1>5. TypeOK'
  BY <1>1, <1>3 DEF TypeOK
<1>6. Ungranted'
  BY <1>1 DEF Ungranted
<1>7. QED
  BY <1>1, <1>4, <1>5, <1>6 DEF IInv

\* The dense room that a reclaim leaves is no more than there was.
LEMMA ReclaimGrows ==
  ASSUME IInv, Reclaim
  PROVE  denseLimit' \in Int /\ capacity' \in Int /\ capacity' >= capacity /\ ~emergency
<1> DEFINE deferred == {Dense[p] : p \in In({"deferred"})}
           largest == Max({0} \union deferred)
           wanted == DenseOf(Backed) + 2 * largest
           dense == AtMost(denseLimit, Max({1, wanted}))
<1>1. ~emergency /\ denseLimit' = dense /\ capacity' = capacity + denseLimit - dense
  BY DEF Reclaim
<1>2. capacity \in Int /\ denseLimit \in Int
  BY DEF IInv, TypeOK
<1>3. \A p \in Parents : Dense[p] \in Nat
  BY StagingAssumption
<1>4. IsFiniteSet(deferred) /\ deferred \subseteq Int
  <2> DEFINE Q == In({"deferred"})
             f == [p \in Q |-> Dense[p]]
  <2>1. Q \subseteq Parents /\ IsFiniteSet(Q)
    BY FiniteParts, FS_Subset DEF In, Staged
  <2>2. f \in Surjection(Q, deferred)
    BY DEF Surjection
  <2>3. IsFiniteSet(deferred)
    BY <2>1, <2>2, FS_Surjection
  <2>4. QED
    BY <1>3, <2>1, <2>3
<1>5. largest \in Int
  <2> DEFINE S == {0} \union deferred
  <2>1. IsFiniteSet(S) /\ S # {} /\ \A x \in S : x \in Int
    <3>1. IsFiniteSet({0})
      BY FS_Singleton
    <3>2. IsFiniteSet(S)
      BY <1>4, <3>1, FS_Union
    <3>3. QED
      BY <1>4, <3>2
  <2> HIDE DEF S
  <2>2. \E x \in S : \A y \in S : x >= y
    BY <2>1, Greatest
  <2>3. Max(S) \in S
    BY <2>2 DEF Max
  <2>4. Max(S) \in Int
    BY <2>1, <2>3
  <2>5. QED
    BY <2>4 DEF S
<1> HIDE DEF deferred, largest
<1>6. DenseOf(Backed) \in Nat
  <2>1. IsFiniteSet(Backed) /\ \A p \in Backed : Dense[p] \in Nat
    BY <1>3, FiniteParts, FS_Subset DEF Backed, In, Staged
  <2>2. QED
    BY <2>1, TotalNat DEF DenseOf
<1>7. wanted \in Int
  BY <1>5, <1>6
<1> HIDE DEF wanted
<1>8. Max({1, wanted}) \in Int
  <2>1. \E x \in {1, wanted} : \A y \in {1, wanted} : x >= y
    BY <1>7
  <2>2. Max({1, wanted}) \in {1, wanted}
    BY <2>1 DEF Max
  <2>3. QED
    BY <1>7, <2>2
<1>9. dense \in Int /\ dense <= denseLimit
  BY <1>2, <1>8 DEF AtMost
<1> HIDE DEF dense
<1>10. QED
  BY <1>1, <1>2, <1>9

-----------------------------------------------------------------------------
(* The invariant, and the theorems. *)

\* What is admitted with knowledge of the protections leaves them room.
Fits == inUse' > inUse /\ plain' = plain => inUse' + Protection(pending') <= capacity'

\* Nothing is out at the start.
LEMMA InvInit == Init => IInv
<1> SUFFICES ASSUME Init PROVE IInv
  OBVIOUS
<1>1. /\ capacity = Capacity /\ inUse = 0 /\ emergency = FALSE /\ pending = {}
      /\ lease = [l \in Leases |-> NoLease] /\ request = [c \in Children |-> "none"]
      /\ bank = [l \in Leases |-> NoBank]
      /\ plain = [q \in Callers |-> [state |-> "idle", charge |-> 0, over |-> FALSE]]
      /\ place = [p \in Parents |-> "away"] /\ denseLimit = DenseLimit
  BY DEF Init, CreditInit
<1>2. NoLease \in LeaseSet /\ NoBank \in BankSet /\ [state |-> "idle", charge |-> 0, over |-> FALSE] \in PlainSet
  BY DEF LeaseSet, NoLease, BankSet, NoBank, PlainSet
<1>3. DenseLimit \in Int /\ Capacity \in Nat \ {0}
  BY StagingAssumption, Sizes
<1>4. TypeOK
  BY <1>1, <1>2, <1>3 DEF TypeOK, Requested, Places
<1>5. /\ \A l \in Leases : lease[l].state = "none" /\ lease[l].holds = 0
      /\ \A l \in Leases : bank[l].open = FALSE /\ bank[l].by = {} /\ bank[l].bytes = 0
      /\ \A q \in Callers : plain[q].state = "idle"
  BY <1>1 DEF NoLease, NoBank
<1>6. Out(lease) = {} /\ Held(plain) = {}
  BY <1>5 DEF Out, Held
<1>7. Total(ChargeOf(lease), {}) = 0 /\ Total(PlainOf(plain), {}) = 0
  BY TotalEmpty
<1>8. Total(BytesOf(bank), Leases) = 0
  <2>1. \A l \in Leases : BytesOf(bank)[l] = 0
    BY <1>5 DEF BytesOf
  <2>2. QED
    BY <2>1, FiniteParts, TotalZero
<1>9. Balanced(lease, bank, plain, inUse)
  <2>1. Total(ChargeOf(lease), Out(lease)) = 0 /\ Total(PlainOf(plain), Held(plain)) = 0 /\ inUse = 0
    BY <1>1, <1>6, <1>7
  <2>2. 0 + 0 + 0 = 0
    OBVIOUS
  <2>3. QED
    BY <1>8, <2>1, <2>2 DEF Balanced
<1>10. Flagged(lease, plain, inUse, capacity, emergency)
  <2>1. inUse <= capacity /\ emergency = FALSE
    BY <1>1, <1>3
  <2>2. QED
    BY <1>6, <2>1 DEF Flagged
<1>11. Holdings(lease, bank, request)
  <2>1. \A l \in Leases : Groups(l, request) = {}
    BY <1>1 DEF Groups
  <2>2. \A l \in Leases : Holders(l, bank, request) = 0
    <3>1. Cardinality({}) = 0 /\ 0 + 0 = 0
      BY FS_EmptySet
    <3>2. \A l \in Leases : bank[l].by = {}
      BY <1>5
    <3>3. QED
      BY <2>1, <3>1, <3>2 DEF Holders
  <2>3. \A l \in Leases : lease[l].holds = 0
    BY <1>5
  <2>4. QED
    BY <2>2, <2>3 DEF Holdings
<1>12. Callbacks(lease, request) /\ Wanted(lease, Leases) /\ Banks(bank) /\ Ungranted
  BY <1>1, <1>5, <1>6, FiniteParts DEF Callbacks, Wanted, Banks, Ungranted
<1>13. QED
  BY <1>4, <1>9, <1>10, <1>11, <1>12 DEF IInv

\* A step that does not raise the counter fits.
LEMMA FallingFits ==
  ASSUME IInv, IInv', inUse' <= inUse
  PROVE  Fits
<1>1. inUse \in Nat /\ inUse' \in Nat
  BY DEF IInv, TypeOK
<1>2. QED
  BY <1>1 DEF Fits

\* The owner of a prepared parent leaves its lane.
LEMMA FinishStep ==
  ASSUME IInv, NEW p \in Parents, Finish(p)
  PROVE  IInv' /\ inUse' <= inUse
<1> DEFINE ls == [lease EXCEPT ![p].state = "closed"]
<1>1. p \in Leases /\ p \notin Children /\ TypeOK /\ Callbacks(lease, request)
  BY FiniteParts DEF IInv
<1>2. /\ Close(p) /\ place[p] = "working" /\ Settle(ls, p)
      /\ place' = [place EXCEPT ![p] = IF p \in Tiles THEN "retired" ELSE "finished"]
      /\ UNCHANGED <<capacity, pending, request, bank, plain, denseLimit>>
  BY DEF Finish, End, Move, Close
<1>3. /\ ls \in [Leases -> LeaseSet] /\ \A k \in Leases \ {p} : ls[k] = lease[k]
  BY <1>1 DEF TypeOK, LeaseSet
<1> HIDE DEF ls
<1>4. Callbacks(ls, request)
  <2>1. \A c \in Children : c \in Leases /\ ls[c] = lease[c]
    BY <1>1, <1>3, FiniteParts
  <2>2. QED
    BY <1>1, <2>1 DEF Callbacks, Out
<1>5. request' = Settled(request)
  BY <1>1, <1>2, <1>3, <1>4, ParentSettles DEF TypeOK
<1>6. /\ place' \in [Parents -> Places]
      /\ \A k \in Parents : place'[k] \in Early => place[k] \in Early
  BY <1>1, <1>2 DEF TypeOK, Places, Early
<1>7. QED
  BY <1>1, <1>2, <1>5, <1>6, CloseStep

\* A group's callback returns.
LEMMA EndChildStep ==
  ASSUME IInv, NEW c \in Children, EndChild(c), UNCHANGED staging
  PROVE  IInv' /\ inUse' <= inUse
<1>1. c \in Leases /\ place \in [Parents -> Places]
  BY FiniteParts DEF IInv, TypeOK
<1>2. /\ Close(c) /\ request' = Settled(request)
      /\ UNCHANGED <<capacity, pending, bank, plain, place, denseLimit>>
  BY DEF EndChild, staging
<1>3. QED
  BY <1>1, <1>2, CloseStep

\* Every step keeps the invariant and what is kept for waiting parents.
LEMMA InvNext == IInv /\ [Next]_vars => IInv' /\ Fits
<1> SUFFICES ASSUME IInv, [Next]_vars PROVE IInv' /\ Fits
  OBVIOUS
<1>1. /\ place \in [Parents -> Places] /\ pending \subseteq Parents /\ denseLimit \in Int
      /\ inUse \in Nat
  BY DEF IInv, TypeOK
\* Places, protections and the capacity.
<1>2. ASSUME NEW p \in Parents, NEW to \in Places \ Early, Move(p, to)
      PROVE  place' \in [Parents -> Places] /\ \A k \in Parents : place'[k] \in Early => place[k] \in Early
  BY <1>1, <1>2 DEF Move
<1>3. ASSUME NEW p \in Parents, NEW to \in Places, Move(p, to), place[p] \in Early
      PROVE  place' \in [Parents -> Places] /\ \A k \in Parents : place'[k] \in Early => place[k] \in Early
  BY <1>1, <1>3 DEF Move
<1>4. ASSUME UNCHANGED inUse, IInv'
      PROVE  IInv' /\ Fits
  BY <1>1, <1>4, FallingFits
<1>5. ASSUME NEW p \in Parents, Checkpointed(p) \/ Submit(p) \/ Restored(p) \/ Arrive(p)
      PROVE  IInv' /\ Fits
  <2>1. /\ UNCHANGED <<credit, denseLimit>> /\ place[p] \in Early
        /\ \E to \in Places : Move(p, to)
    BY <1>5 DEF Checkpointed, Submit, Restored, Arrive, In, Early, Places
  <2>2. IInv'
    BY <1>1, <1>3, <2>1, QuietStep DEF credit
  <2>3. QED
    BY <1>4, <2>1, <2>2 DEF credit
<1>6. ASSUME NEW p \in Parents, Protect(p) \/ Unprotect(p)
      PROVE  IInv' /\ Fits
  <2>1. /\ UNCHANGED <<capacity, inUse, emergency, lease, request, bank, plain, place, denseLimit>>
        /\ pending' \subseteq Parents
    BY <1>1, <1>6 DEF Protect, Unprotect, Register
  <2>2. IInv'
    BY <1>1, <2>1, QuietStep
  <2>3. QED
    BY <1>4, <2>1, <2>2
<1>7. ASSUME NEW p \in Parents, Withdraw(p) \/ Fail(p)
      PROVE  IInv' /\ Fits
  <2>1. /\ UNCHANGED <<capacity, inUse, emergency, lease, request, bank, plain, denseLimit>>
        /\ pending' \subseteq Parents /\ \E to \in Places \ Early : Move(p, to)
    BY <1>1, <1>7 DEF Withdraw, Fail, Failed, Withdrawn, Early, Places
  <2>2. IInv'
    BY <1>1, <1>2, <2>1, QuietStep
  <2>3. QED
    BY <1>4, <2>1, <2>2
<1>8. ASSUME NEW p \in Parents, Retire(p)
      PROVE  IInv' /\ Fits
  <2>1. UNCHANGED <<credit, denseLimit>> /\ \E to \in Places \ Early : Move(p, to)
    BY <1>8 DEF Retire, Early, Places
  <2>2. IInv'
    BY <1>1, <1>2, <2>1, QuietStep DEF credit
  <2>3. QED
    BY <1>4, <2>1, <2>2 DEF credit
<1>9. CASE Reclaim
  <2>1. UNCHANGED <<inUse, emergency, pending, lease, request, bank, plain, place>>
    BY <1>9 DEF Reclaim
  <2>2. IInv'
    BY <1>1, <1>9, <2>1, ReclaimGrows, QuietStep
  <2>3. QED
    BY <1>4, <2>1, <2>2
<1>10. CASE Stop
  <2>1. /\ UNCHANGED <<capacity, inUse, emergency, lease, request, bank, plain, denseLimit>>
        /\ pending' \subseteq Parents
        /\ place' = [p \in Parents |-> IF place[p] = "ready" THEN "withdrawn" ELSE place[p]]
    BY <1>1, <1>10 DEF Stop
  <2>2. place' \in [Parents -> Places] /\ \A k \in Parents : place'[k] \in Early => place[k] \in Early
    BY <1>1, <2>1 DEF Places, Early
  <2>3. IInv'
    BY <1>1, <2>1, <2>2, QuietStep
  <2>4. QED
    BY <1>4, <2>1, <2>3
\* Grants.
<1>11. ASSUME NEW p \in Parents, NEW h \in Headrooms, Admit(p, h)
       PROVE  IInv' /\ Fits
  BY <1>11, AdmitStep DEF Fits
<1>12. ASSUME NEW q \in Callers, Codec(q)
       PROVE  IInv' /\ Fits
  BY <1>12, ReserveStep DEF Fits, Codec
<1>13. CASE Inside
  <2>1. CASE \E l \in Leases : Acquire(l)
    BY <1>4, <1>13, <2>1, AcquireStep DEF Inside
  <2>2. CASE \E l \in Leases : \E h \in Headrooms, n \in 0..MaxBank : Borrow(l, n, h)
    BY <1>13, <2>2, BorrowStep DEF Inside, Fits
  <2>3. CASE \E c \in Children : Issue(c)
    BY <1>4, <1>13, <2>3, IssueStep DEF Inside
  <2>4. QED
    BY <1>13, <2>1, <2>2, <2>3 DEF Inside
\* Settlements.
<1>14. ASSUME NEW q \in Callers, Release(q)
       PROVE  IInv' /\ Fits
  BY <1>14, UnreserveStep, FallingFits DEF Release
<1>15. ASSUME NEW p \in Parents, Finish(p)
       PROVE  IInv' /\ Fits
  BY <1>15, FinishStep, FallingFits
<1>16. CASE Revoking
  BY <1>16, FinishPendingStep, FallingFits DEF Revoking, Revoke
<1>17. CASE Settling
  <2>1. UNCHANGED staging
    BY <1>17 DEF Settling
  <2>2. ASSUME NEW l \in Leases, ReturnBank(l)
        PROVE  IInv' /\ Fits
    BY <2>1, <2>2, ReturnBankStep, FallingFits
  <2>3. ASSUME NEW l \in Leases, NEW who \in {"creator", "scheduler"}, Leave(l, who)
        PROVE  IInv' /\ Fits
    BY <2>1, <2>3, LeaveStep, FallingFits
  <2>4. ASSUME NEW c \in Children, Start(c) \/ \E h \in Headrooms : Refuse(c, h)
        PROVE  IInv' /\ Fits
    <3>1. /\ request[c] \in {"issued", "started"}
          /\ request' = [request EXCEPT ![c] = "started"] \/ request' = [request EXCEPT ![c] = "declined"]
          /\ UNCHANGED <<capacity, inUse, emergency, pending, lease, bank, plain, place, denseLimit>>
      BY <2>1, <2>4 DEF Start, Refuse, staging
    <3>2. IInv'
      BY <3>1, RequestStep
    <3>3. QED
      BY <1>4, <3>1, <3>2
  <2>5. ASSUME NEW c \in Children, Decline(c)
        PROVE  IInv' /\ Fits
    BY <2>1, <2>5, FinishPendingStep, FallingFits DEF Decline
  <2>6. ASSUME NEW c \in Children, EndChild(c)
        PROVE  IInv' /\ Fits
    BY <2>1, <2>6, EndChildStep, FallingFits
  <2>7. ASSUME NEW c \in Children, NEW h \in Headrooms, Charge(c, h)
        PROVE  IInv' /\ Fits
    BY <2>1, <2>7, ChargeStep DEF Fits
  <2>8. QED
    BY <1>17, <2>2, <2>3, <2>4, <2>5, <2>6, <2>7 DEF Settling
<1>18. CASE UNCHANGED vars
  <2>1. UNCHANGED <<inUse, emergency, lease, request, bank, plain, pending, place, denseLimit, capacity>>
    BY <1>18 DEF vars, credit, staging
  <2>2. IInv'
    BY <1>1, <2>1, QuietStep
  <2>3. QED
    BY <1>4, <2>1, <2>2
<1>19. CASE Progress
  BY <1>5, <1>6, <1>7, <1>8, <1>11, <1>12, <1>14, <1>15, <1>17, <1>19 DEF Progress
<1>20. QED
  BY <1>5, <1>7, <1>9, <1>10, <1>13, <1>16, <1>18, <1>19 DEF Next

\* The invariant gives the property: what is owed, held and flagged is what the ledger says.
LEMMA InvExact == IInv => CreditIsExact
<1> SUFFICES ASSUME IInv PROVE CreditIsExact
  OBVIOUS
<1>1. /\ TypeOK /\ Balanced(lease, bank, plain, inUse) /\ Flagged(lease, plain, inUse, capacity, emergency)
      /\ Holdings(lease, bank, request) /\ Wanted(lease, Leases)
  BY DEF IInv
<1>2. Charged = Out(lease) /\ Reserved = Held(plain) /\ Out(lease) \subseteq Leases
  BY DEF Charged, Out, Reserved, Held
<1>3. \A l \in Leases : Borrowers(l) = Holders(l, bank, request)
  BY DEF Borrowers, Holders, Groups
<1>4. inUse = Total([l \in Leases |-> lease[l].charge], Charged)
              + Total([l \in Leases |-> bank[l].bytes], Leases)
              + Total([q \in Callers |-> plain[q].charge], Reserved)
  BY <1>1, <1>2 DEF Balanced, ChargeOf, BytesOf, PlainOf
<1>5. \A l \in Leases : /\ lease[l].state \in {"live", "closed"} => lease[l].holds = Borrowers(l)
                        /\ lease[l].state = "closed" => lease[l].holds > 0
                        /\ lease[l].state = "returned" => Borrowers(l) = 0
  BY <1>1, <1>3 DEF Holdings, Wanted
<1>6. inUse <= capacity
  BY <1>1 DEF Flagged
<1>7. emergency <=> Oversize # {}
  <2>1. ASSUME emergency PROVE Oversize # {}
    BY <1>1, <1>2, <2>1 DEF Flagged, Oversize
  <2>2. ASSUME Oversize # {} PROVE emergency
    BY <1>1, <1>2, <2>2 DEF Flagged, Oversize
  <2>3. QED
    BY <2>1, <2>2
<1>8. emergency = (Oversize # {})
  BY <1>1, <1>7 DEF TypeOK
<1>9. ASSUME emergency
      PROVE  Cardinality(Charged) + Cardinality(Reserved) = 1 /\ inUse = capacity
  <2>1. inUse = capacity
    BY <1>1, <1>9 DEF Flagged
  <2>2. Cardinality({}) = 0 /\ \A x : Cardinality({x}) = 1
    BY FS_EmptySet, FS_Singleton
  <2>3. (\E x : Out(lease) = {x} /\ Held(plain) = {}) \/ (\E x : Out(lease) = {} /\ Held(plain) = {x})
    BY <1>1, <1>9 DEF Flagged
  <2>4. Cardinality(Charged) + Cardinality(Reserved) = 1
    <3>1. /\ Cardinality(Out(lease)) = 0 \/ Cardinality(Out(lease)) = 1
          /\ Cardinality(Held(plain)) = 1 - Cardinality(Out(lease))
      <4>1. CASE \E x : Out(lease) = {x} /\ Held(plain) = {}
        <5>1. PICK x : Out(lease) = {x}
          BY <4>1
        <5>2. Cardinality(Out(lease)) = 1 /\ Cardinality(Held(plain)) = 0
          BY <2>2, <4>1, <5>1
        <5>3. QED
          BY <5>2
      <4>2. CASE \E x : Out(lease) = {} /\ Held(plain) = {x}
        <5>1. PICK x : Held(plain) = {x}
          BY <4>2
        <5>2. Cardinality(Out(lease)) = 0 /\ Cardinality(Held(plain)) = 1
          BY <2>2, <4>2, <5>1
        <5>3. QED
          BY <5>2
      <4>3. QED
        BY <2>3, <4>1, <4>2
    <3>2. Cardinality(Out(lease)) + Cardinality(Held(plain)) = 1
      BY <3>1
    <3>3. QED
      BY <1>2, <3>2
  <2>5. QED
    BY <2>1, <2>4
<1>10. QED
  BY <1>4, <1>5, <1>6, <1>8, <1>9 DEF CreditIsExact

\* The invariant holds throughout.
LEMMA Invariant == Spec => []IInv
  BY InvInit, InvNext, PTL DEF Spec

\* The counter of the transient pool is always the sum of what is out, every lease counts its
\* borrowers and is returned exactly when nobody needs it any more, and an oversize grant is
\* alone (_return_parent_credit_if_settled, _ByteAdmissionPool).
THEOREM LedgerIsExact == Spec => []CreditIsExact
  BY Invariant, InvExact, PTL

\* No parent, retry group or bank takes credit that is kept for a waiting parent
\* (admit_sam_parent_resources, admit_sam_tracker_scope, _RetryChildResources).
THEOREM CreditStaysProtected == Spec => ProtectionIsKept
<1>1. IInv /\ [Next]_vars =>
        [inUse' > inUse /\ plain' = plain => inUse' + Protection(pending') <= capacity']_credit
  BY InvNext DEF Fits
<1>2. QED
  BY Invariant, <1>1, PTL DEF Spec, ProtectionIsKept
=============================================================================
