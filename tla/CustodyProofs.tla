----------------------------- MODULE CustodyProofs -----------------------------
(***************************************************************************)
(* Theorems about the two components that keep something for others: the   *)
(* arrays and credits of DetectorWorkspaces, for any set of groups and any *)
(* number of promises, and the bytes of ArtifactArchive, for any members,  *)
(* any number of calls and any number of faults.                           *)
(*                                                                         *)
(* Workspaces.  IInv says at which station of its way every group is, what *)
(* its credit stands for there, and which records shutdown still waits     *)
(* for.                                                                    *)
(*                                                                         *)
(* Archive.  Custody says that every append that has begun has a plan, a   *)
(* place in the file with its blocks and its steps; that the file, and     *)
(* every content a power loss may leave, is made of blocks of these plans, *)
(* each in its place, the later appends on the earlier ones; and how far   *)
(* the writer is with its plan, or with undoing it.  A walk over any such  *)
(* content reads whole transactions or stops.                              *)
(***************************************************************************)
EXTENDS DetectorWorkspaces, ArtifactArchive, DataProofs

-----------------------------------------------------------------------------
(* The workspaces *)

\* The jobs of the worker, and the groups that have a record.
Kinds == {"build", "requalify", "discard"}
Recorded == ToSet(records)

\* The types of the variables that hold one state for each group.
TypeOK ==
  /\ job \in [Groups -> Kinds \union {"none"}]
  /\ future \in [Groups -> {"none", "queued", "running", "done", "failed", "broken", "cancelled"}]
  /\ credit \in [Groups -> {"none", "preparing", "inference", "returned"}]
  /\ arrays \in [Groups -> {"none", "private", "published", "closed", "dropped"}]
  /\ aliased \subseteq Groups /\ retired \subseteq Groups
  /\ phase \in {"up", "collecting", "joining", "down"}

\* Nothing is listed twice: a group has one record and the shutdown waits once for it.
Lists ==
  /\ records \in Seq(Groups) /\ IsInjective(records)
  /\ collect \in Seq(Groups) /\ IsInjective(collect)
  /\ cleanup \in Seq(Groups) /\ IsInjective(cleanup)
  /\ inbox \in Seq(Kinds \X Groups) /\ IsInjective(inbox)

\* The queue of the worker holds the current job of a group, once; the worker runs one.
Jobs ==
  /\ \A e \in ToSet(inbox) : e[1] = job[e[2]] /\ future[e[2]] \in {"queued", "cancelled"}
  /\ worker # <<>> => \E g \in Groups : worker = <<<<job[g], g>>>> /\ future[g] = "running"

\* Where a group is: its job, the state of its future, and what has become of its arrays.
Station(g) ==
  \/ /\ future[g] = "none" /\ job[g] = "none" /\ arrays[g] = "none" /\ credit[g] = "none"
     /\ g \notin Recorded
  \/ /\ future[g] \in {"queued", "running"} /\ g \in Recorded
     /\ \/ job[g] = "build" /\ arrays[g] = "none"
        \/ job[g] \in {"requalify", "discard"} /\ arrays[g] = "private"
  \/ /\ future[g] = "cancelled"
     /\ \/ job[g] = "build" /\ arrays[g] = "none"
        \/ job[g] = "requalify" /\ arrays[g] \in {"private", "dropped"}
  \/ /\ future[g] = "done" /\ job[g] \in {"build", "requalify"}
     /\ \/ arrays[g] = "private" /\ g \in Recorded
        \/ arrays[g] = "published" /\ credit[g] = "inference"
  \/ future[g] = "done" /\ job[g] = "discard" /\ arrays[g] = "closed"
  \/ future[g] = "failed" /\ job[g] \in {"build", "requalify"} /\ arrays[g] = "closed"
  \/ future[g] = "broken" /\ job[g] \in Kinds /\ arrays[g] = "private" /\ g \in Recorded

\* What the credit of a group stands for: its record, or closed arrays with an alias.
Charge(g) ==
  /\ credit[g] = "preparing" <=> g \in Recorded \union retired
  /\ g \in retired => arrays[g] = "closed" /\ g \notin Recorded
  /\ credit[g] = "inference" => arrays[g] = "published"
  /\ g \in aliased => arrays[g] = "closed" /\ g \in Recorded \union retired
  /\ credit[g] = "none" => future[g] = "none"

\* Shutdown waits for every record that is not broken, and lets the worker go when none is left.
Waits ==
  /\ phase = "up" => collect = <<>> /\ cleanup = <<>> /\ \A g \in Groups : job[g] # "discard"
  /\ ToSet(collect) \union ToSet(cleanup) \subseteq Recorded /\ ToSet(collect) \cap ToSet(cleanup) = {}
  /\ \A g \in ToSet(cleanup) : job[g] = "discard"
  /\ \A g \in ToSet(collect) : job[g] # "discard"
  /\ phase # "up" => \A g \in Recorded : g \in ToSet(collect) \union ToSet(cleanup) \/ future[g] = "broken"
  /\ phase \in {"joining", "down"} => collect = <<>> /\ cleanup = <<>> /\ inbox = <<>>
  /\ phase = "down" => worker = <<>>

\* The inductive invariant.
IInv == TypeOK /\ Lists /\ Jobs /\ (\A g \in Groups : Station(g) /\ Charge(g)) /\ Waits

-----------------------------------------------------------------------------
(* The lists. *)

\* ToSet, Range: two names of the library for one set.
LEMMA SameElements == \A s : ToSet(s) = Range(s)
  BY DEF ToSet, Range

\* Dropping the record of a group, as records.pop does.
LEMMA RemoveFirstLeaves ==
  ASSUME NEW T, NEW s \in Seq(T), IsInjective(s), NEW e \in ToSet(s)
  PROVE  /\ RemoveFirst(s, e) \in Seq(T)
         /\ ToSet(RemoveFirst(s, e)) = ToSet(s) \ {e}
         /\ IsInjective(RemoveFirst(s, e))
<1> DEFINE I == {i \in 1..Len(s) : s[i] = e}
<1>1. Len(s) \in Nat /\ DOMAIN s = 1..Len(s)
  BY LenProperties
<1>2. PICK k \in 1..Len(s) : s[k] = e
  BY <1>1 DEF ToSet
<1>3. I = {k}
  BY <1>1, <1>2 DEF IsInjective
<1>4. Min(I) = k
  <2>1. \A x \in {k} : x = k /\ k <= k
    BY <1>2
  <2>2. QED
    BY <1>3, <2>1 DEF Min
<1>5. RemoveFirst(s, e) = Leaving(s, k)
  <2>1. SelectInSeq(s, LAMBDA v : v = e) = k
    <3>1. SelectInSeq(s, LAMBDA v : v = e) = IF I # {} THEN Min(I) ELSE 0
      BY DEF SelectInSeq
    <3>2. QED
      BY <1>3, <1>4, <3>1
  <2>2. RemoveFirst(s, e) = RemoveAt(s, k)
    BY <1>2, <2>1 DEF RemoveFirst
  <2>3. QED
    BY <2>2 DEF RemoveAt, Leaving
<1>6. Leaving(s, k) \in Seq(T) /\ IsInjective(Leaving(s, k))
  BY <1>1, <1>2, LeavingRemoves
<1>7. Range(Leaving(s, k)) = Range(s) \ {e}
  BY <1>1, <1>2, LeavingRemoves
<1>8. QED
  BY <1>5, <1>6, <1>7, SameElements

\* A list without elements is empty.
LEMMA NothingListed ==
  ASSUME NEW T, NEW s \in Seq(T)
  PROVE  s = <<>> <=> ToSet(s) = {}
<1>1. Len(s) \in Nat /\ DOMAIN s = 1..Len(s) /\ (s # <<>> => Len(s) \in Nat \ {0})
  BY LenProperties, EmptySeq
<1>2. ASSUME s # <<>>
      PROVE  ToSet(s) # {}
  <2>1. 1 \in DOMAIN s
    BY <1>1, <1>2
  <2>2. QED
    BY <2>1 DEF ToSet
<1>3. ASSUME s = <<>>
      PROVE  ToSet(s) = {}
  BY <1>3 DEF ToSet
<1>4. QED
  BY <1>2, <1>3

\* Handing the worker a job for a group that it has none of.
LEMMA SubmitStep ==
  ASSUME TypeOK, Lists, Jobs, NEW g \in Groups, NEW kind \in Kinds, Submit(g, kind),
         future[g] \notin {"queued", "cancelled", "running"}, worker' = worker
  PROVE  /\ inbox' \in Seq(Kinds \X Groups) /\ IsInjective(inbox') /\ Jobs'
         /\ job' \in [Groups -> Kinds \union {"none"}]
         /\ future' \in [Groups -> {"none", "queued", "running", "done", "failed", "broken", "cancelled"}]
         /\ \A x \in Groups : x # g => job'[x] = job[x] /\ future'[x] = future[x]
         /\ job'[g] = kind /\ future'[g] = "queued"
<1> DEFINE e == <<kind, g>>
<1>1. /\ inbox' = Append(inbox, e) /\ job' = [job EXCEPT ![g] = kind]
      /\ future' = [future EXCEPT ![g] = "queued"]
  BY DEF Submit
<1>2. /\ job' \in [Groups -> Kinds \union {"none"}]
      /\ future' \in [Groups -> {"none", "queued", "running", "done", "failed", "broken", "cancelled"}]
      /\ \A x \in Groups : x # g => job'[x] = job[x] /\ future'[x] = future[x]
      /\ job'[g] = kind /\ future'[g] = "queued"
  BY <1>1 DEF TypeOK
<1>3. \A x \in ToSet(inbox) : x \in Kinds \X Groups /\ x[2] # g
  <2>1. \A x \in ToSet(inbox) : x \in Kinds \X Groups
    BY SameElements, RangeOfSeq DEF Lists
  <2>2. QED
    BY <2>1 DEF Jobs
<1>4. e \in Kinds \X Groups /\ e \notin Range(inbox) /\ e[1] = kind /\ e[2] = g
  BY <1>3, SameElements
<1> HIDE DEF e
<1>5. inbox' \in Seq(Kinds \X Groups) /\ IsInjective(inbox')
  BY <1>1, <1>4, AppendAdds DEF Lists
<1>6. Range(inbox') = Range(inbox) \union {e}
  BY <1>1, <1>4, AppendAdds DEF Lists
<1>7. \A x \in ToSet(inbox') : x[1] = job'[x[2]] /\ future'[x[2]] \in {"queued", "cancelled"}
  <2> SUFFICES ASSUME NEW x \in ToSet(inbox')
               PROVE  x[1] = job'[x[2]] /\ future'[x[2]] \in {"queued", "cancelled"}
    OBVIOUS
  <2>1. CASE x = e
    BY <1>2, <1>4, <2>1
  <2>2. CASE x # e
    <3>1. x \in ToSet(inbox)
      BY <1>6, <2>2, SameElements
    <3>2. x[2] \in Groups /\ x[2] # g
      BY <1>3, <3>1
    <3>3. QED
      BY <1>2, <3>1, <3>2 DEF Jobs
  <2>3. QED
    BY <2>1, <2>2
<1>8. worker' # <<>> => \E x \in Groups : worker' = <<<<job'[x], x>>>> /\ future'[x] = "running"
  <2> SUFFICES ASSUME worker # <<>>
               PROVE  \E x \in Groups : worker = <<<<job'[x], x>>>> /\ future'[x] = "running"
    OBVIOUS
  <2>1. PICK x \in Groups : worker = <<<<job[x], x>>>> /\ future[x] = "running"
    BY DEF Jobs
  <2>2. x # g
    BY <2>1
  <2>3. QED
    BY <1>2, <2>1, <2>2
<1>9. QED
  BY <1>2, <1>5, <1>7, <1>8 DEF Jobs

\* The jobs are untouched as long as jobs and futures are.
LEMMA SameJobs ==
  ASSUME Jobs, UNCHANGED <<inbox, worker, job, future>>
  PROVE  Jobs'
  BY DEF Jobs

-----------------------------------------------------------------------------
(* The main thread while it runs. *)

\* A request gives the group its record, its credit and its first job.
LEMMA RequestStep ==
  ASSUME IInv, NEW g \in Groups, Request(g)
  PROVE  IInv'
<1>1. TypeOK /\ Lists /\ Jobs /\ Waits /\ \A x \in Groups : Station(x) /\ Charge(x)
  BY DEF IInv
<1>2. /\ phase = "up" /\ credit[g] = "none" /\ future[g] = "none" /\ g \notin Recorded
      /\ credit' = [credit EXCEPT ![g] = "preparing"] /\ records' = Append(records, g)
      /\ Submit(g, "build") /\ UNCHANGED <<worker, arrays, aliased, retired, main>>
  BY <1>1 DEF Request, Stopped, Charge, Station
<1>3. /\ inbox' \in Seq(Kinds \X Groups) /\ IsInjective(inbox') /\ Jobs'
      /\ job' \in [Groups -> Kinds \union {"none"}]
      /\ future' \in [Groups -> {"none", "queued", "running", "done", "failed", "broken", "cancelled"}]
      /\ \A x \in Groups : x # g => job'[x] = job[x] /\ future'[x] = future[x]
      /\ job'[g] = "build" /\ future'[g] = "queued"
  BY <1>1, <1>2, SubmitStep DEF Kinds
<1>4. records' \in Seq(Groups) /\ IsInjective(records')
  BY <1>1, <1>2, AppendAdds, SameElements DEF Lists, Recorded
<1>5. Recorded' = Recorded \union {g}
  <2>1. Range(records') = Range(records) \union {g}
    BY <1>1, <1>2, AppendAdds, SameElements DEF Lists, Recorded
  <2>2. QED
    BY <2>1, SameElements DEF Recorded
<1>6. TypeOK'
  BY <1>1, <1>2, <1>3 DEF TypeOK, main
<1>7. Lists'
  BY <1>1, <1>2, <1>3, <1>4 DEF Lists, main
<1>8. ASSUME NEW x \in Groups
      PROVE  Station(x)' /\ Charge(x)'
  <2>1. CASE x = g
    BY <1>1, <1>2, <1>3, <1>5, <2>1 DEF TypeOK, Station, Charge
  <2>2. CASE x # g
    <3>1. /\ future'[x] = future[x] /\ job'[x] = job[x] /\ arrays'[x] = arrays[x] /\ credit'[x] = credit[x]
          /\ (x \in Recorded' <=> x \in Recorded) /\ aliased' = aliased /\ retired' = retired
      BY <1>1, <1>2, <1>3, <1>5, <2>2 DEF TypeOK
    <3>2. QED
      BY <1>1, <3>1 DEF Station, Charge
  <2>3. QED
    BY <2>1, <2>2
<1>9. Waits'
  <2>1. phase' = "up" /\ collect' = <<>> /\ cleanup' = <<>> /\ ToSet(<<>>) = {}
    BY <1>1, <1>2 DEF Waits, main, ToSet
  <2>2. \A x \in Groups : job'[x] # "discard"
    BY <1>1, <1>2, <1>3 DEF Waits
  <2>3. QED
    BY <2>1, <2>2 DEF Waits
<1>10. QED
  BY <1>3, <1>6, <1>7, <1>8, <1>9 DEF IInv

\* A promise makes plans stale and moves no group, and an alias that is dropped releases nothing yet.
LEMMA AsideStep ==
  ASSUME IInv, UNCHANGED <<records, job, future, inbox, worker, credit, arrays, retired, main>>,
         aliased' \subseteq aliased
  PROVE  IInv'
<1>1. TypeOK /\ Lists /\ Jobs /\ Waits /\ \A x \in Groups : Station(x) /\ Charge(x)
  BY DEF IInv
<1>2. TypeOK' /\ Lists' /\ Jobs'
  BY <1>1, SameJobs DEF TypeOK, Lists, main
<1>3. Waits'
  BY <1>1 DEF Waits, Recorded, main
<1>4. \A x \in Groups : Station(x)' /\ Charge(x)'
  BY <1>1 DEF Station, Charge, Recorded
<1>5. QED
  BY <1>2, <1>3, <1>4 DEF IInv

\* A group whose record is dropped as its credit is adopted.
LEMMA AdoptStep ==
  ASSUME IInv, NEW g \in Groups, Adopt(g)
  PROVE  IInv'
<1>1. TypeOK /\ Lists /\ Jobs /\ Waits /\ \A x \in Groups : Station(x) /\ Charge(x)
  BY DEF IInv
<1>2. /\ phase = "up" /\ g \in Recorded /\ future[g] = "done"
      /\ arrays' = [arrays EXCEPT ![g] = "published"] /\ credit' = [credit EXCEPT ![g] = "inference"]
      /\ records' = RemoveFirst(records, g)
      /\ UNCHANGED <<job, future, inbox, worker, aliased, retired, main>>
  BY DEF Adopt, Stopped, Recorded
<1>3. records' \in Seq(Groups) /\ IsInjective(records')
  BY <1>1, <1>2, RemoveFirstLeaves DEF Lists, Recorded
<1>4. Recorded' = Recorded \ {g}
  BY <1>1, <1>2, RemoveFirstLeaves DEF Lists, Recorded
<1>5. TypeOK' /\ Lists' /\ Jobs'
  BY <1>1, <1>2, <1>3, SameJobs DEF TypeOK, Lists, main
<1>6. job[g] \in {"build", "requalify"} /\ arrays[g] = "private" /\ g \notin retired /\ g \notin aliased
  BY <1>1, <1>2 DEF Station, Charge, Waits
<1>7. ASSUME NEW x \in Groups
      PROVE  Station(x)' /\ Charge(x)'
  <2>1. CASE x = g
    BY <1>1, <1>2, <1>4, <1>6, <2>1 DEF TypeOK, Station, Charge
  <2>2. CASE x # g
    <3>1. /\ future'[x] = future[x] /\ job'[x] = job[x] /\ arrays'[x] = arrays[x] /\ credit'[x] = credit[x]
          /\ (x \in Recorded' <=> x \in Recorded) /\ aliased' = aliased /\ retired' = retired
      BY <1>1, <1>2, <1>4, <2>2 DEF TypeOK
    <3>2. QED
      BY <1>1, <3>1 DEF Station, Charge
  <2>3. QED
    BY <2>1, <2>2
<1>8. Waits'
  <2>1. phase' = "up" /\ collect' = <<>> /\ cleanup' = <<>> /\ ToSet(<<>>) = {}
    BY <1>1, <1>2 DEF Waits, main, ToSet
  <2>2. QED
    BY <1>1, <1>2, <2>1 DEF Waits
<1>9. QED
  BY <1>5, <1>7, <1>8 DEF IInv

\* Arrays that are sent back keep their record and their credit.
LEMMA ReadoptStep ==
  ASSUME IInv, NEW g \in Groups, Readopt(g)
  PROVE  IInv'
<1>1. TypeOK /\ Lists /\ Jobs /\ Waits /\ \A x \in Groups : Station(x) /\ Charge(x)
  BY DEF IInv
<1>2. /\ phase = "up" /\ g \in Recorded /\ future[g] = "done" /\ Submit(g, "requalify")
      /\ UNCHANGED <<records, worker, credit, arrays, aliased, retired, main>>
  BY DEF Readopt, Stopped, Recorded
<1>3. /\ inbox' \in Seq(Kinds \X Groups) /\ IsInjective(inbox') /\ Jobs'
      /\ job' \in [Groups -> Kinds \union {"none"}]
      /\ future' \in [Groups -> {"none", "queued", "running", "done", "failed", "broken", "cancelled"}]
      /\ \A x \in Groups : x # g => job'[x] = job[x] /\ future'[x] = future[x]
      /\ job'[g] = "requalify" /\ future'[g] = "queued"
  BY <1>1, <1>2, SubmitStep DEF Kinds
<1>4. TypeOK' /\ Lists'
  BY <1>1, <1>2, <1>3 DEF TypeOK, Lists, main
<1>5. arrays[g] = "private" /\ Recorded' = Recorded
  BY <1>1, <1>2 DEF Station, Charge, Waits, Recorded
<1>6. ASSUME NEW x \in Groups
      PROVE  Station(x)' /\ Charge(x)'
  <2>1. CASE x = g
    BY <1>1, <1>2, <1>3, <1>5, <2>1 DEF Station, Charge
  <2>2. CASE x # g
    BY <1>1, <1>2, <1>3, <1>5, <2>2 DEF Station, Charge
  <2>3. QED
    BY <2>1, <2>2
<1>7. Waits'
  <2>1. phase' = "up" /\ collect' = <<>> /\ cleanup' = <<>> /\ ToSet(<<>>) = {}
    BY <1>1, <1>2 DEF Waits, main, ToSet
  <2>2. \A x \in Groups : job'[x] # "discard"
    BY <1>1, <1>2, <1>3 DEF Waits
  <2>3. QED
    BY <2>1, <2>2 DEF Waits
<1>8. QED
  BY <1>3, <1>4, <1>6, <1>7 DEF IInv

-----------------------------------------------------------------------------
(* The background worker. *)

\* The worker takes an item, or skips a cancelled one.
LEMMA TakeStep ==
  ASSUME IInv, Take
  PROVE  IInv'
<1>1. TypeOK /\ Lists /\ Jobs /\ Waits /\ \A x \in Groups : Station(x) /\ Charge(x)
  BY DEF IInv
<1> DEFINE e == Head(inbox)
           g == Head(inbox)[2]
<1>2. e \in ToSet(inbox) /\ Tail(inbox) \in Seq(Kinds \X Groups) /\ IsInjective(Tail(inbox))
  BY <1>1, TailLoses, SameElements DEF Take, Lists
<1>3. Range(Tail(inbox)) = Range(inbox) \ {e}
  BY <1>1, TailLoses, SameElements DEF Take, Lists
<1>4. \A x \in ToSet(inbox) : x \in Kinds \X Groups /\ x = <<job[x[2]], x[2]>>
  <2>1. \A x \in ToSet(inbox) : x \in Kinds \X Groups
    BY <1>1, SameElements, RangeOfSeq DEF Lists
  <2>2. QED
    BY <1>1, <2>1 DEF Jobs
<1>5. e = <<job[g], g>> /\ g \in Groups /\ future[g] \in {"queued", "cancelled"} /\ e[1] = job[g]
  BY <1>1, <1>2, <1>4 DEF Jobs
<1>6. inbox' = Tail(inbox) /\ \A x \in ToSet(inbox') : x \in ToSet(inbox) /\ x[2] \in Groups /\ x[2] # g
  <2>1. inbox' = Tail(inbox)
    BY DEF Take
  <2>2. \A x \in ToSet(inbox') : x \in ToSet(inbox) /\ x # e
    BY <1>3, <2>1, SameElements
  <2>3. QED
    BY <1>4, <1>5, <2>1, <2>2
<1>7. UNCHANGED <<records, job, credit, aliased, retired, main>> /\ Recorded' = Recorded
  BY DEF Take, Recorded
<1>8. CASE future[g] = "cancelled"
  <2>1. /\ arrays' = [arrays EXCEPT ![g] = IF job[g] = "requalify" THEN "dropped" ELSE @]
        /\ worker' = worker /\ future' = future
    BY <1>5, <1>8 DEF Take
  <2>2. TypeOK' /\ Lists'
    BY <1>1, <1>2, <1>5, <1>6, <1>7, <2>1 DEF TypeOK, Lists, main
  <2>3. Jobs'
    BY <1>1, <1>6, <1>7, <2>1 DEF Jobs
  <2>4. ASSUME NEW x \in Groups
        PROVE  Station(x)' /\ Charge(x)'
    <3>1. CASE x = g
      BY <1>1, <1>5, <1>7, <1>8, <2>1, <3>1 DEF TypeOK, Station, Charge
    <3>2. CASE x # g
      <4>1. arrays'[x] = arrays[x]
        BY <1>1, <2>1, <3>2 DEF TypeOK
      <4>2. QED
        BY <1>1, <1>7, <2>1, <4>1 DEF Station, Charge
    <3>3. QED
      BY <3>1, <3>2
  <2>5. Waits'
    BY <1>1, <1>6, <1>7, <2>1 DEF Waits, Take, main
  <2>6. QED
    BY <2>2, <2>3, <2>4, <2>5 DEF IInv
<1>9. CASE future[g] # "cancelled"
  <2>1. worker' = <<<<job[g], g>>>> /\ future' = [future EXCEPT ![g] = "running"] /\ arrays' = arrays
    BY <1>5, <1>9 DEF Take
  <2>2. future[g] = "queued" /\ future'[g] = "running" /\ \A x \in Groups : x # g => future'[x] = future[x]
    BY <1>1, <1>5, <1>9, <2>1 DEF TypeOK
  <2>3. TypeOK' /\ Lists'
    BY <1>1, <1>2, <1>5, <1>6, <1>7, <2>1 DEF TypeOK, Lists, main
  <2>4. Jobs'
    BY <1>1, <1>5, <1>6, <1>7, <2>1, <2>2 DEF Jobs
  <2>5. ASSUME NEW x \in Groups
        PROVE  Station(x)' /\ Charge(x)'
    BY <1>1, <1>5, <1>7, <2>1, <2>2 DEF Station, Charge
  <2>6. Waits'
    <3>1. phase \notin {"joining", "down"}
      BY <1>1 DEF Take, Waits
    <3>2. Recorded \subseteq Groups
      BY <1>1, SameElements, RangeOfSeq DEF Lists, Recorded
    <3>3. \A x \in Recorded : future[x] = "broken" => future'[x] = "broken"
      BY <2>2, <3>2
    <3>4. QED
      BY <1>1, <1>7, <3>1, <3>3 DEF Waits, main
  <2>7. QED
    BY <2>3, <2>4, <2>5, <2>6 DEF IInv
<1>10. QED
  BY <1>8, <1>9

\* The worker ends a job, whatever comes of it.
LEMMA EndStep ==
  ASSUME IInv, NEW kind \in Kinds, NEW g \in Groups, End(kind, g)
  PROVE  IInv'
<1>1. TypeOK /\ Lists /\ Jobs /\ Waits /\ \A x \in Groups : Station(x) /\ Charge(x)
  BY DEF IInv
<1>2. worker = <<<<kind, g>>>> /\ worker' = <<>> /\ UNCHANGED <<records, job, inbox, credit, retired, main>>
  BY DEF End
<1>3. kind = job[g] /\ future[g] = "running"
  <2>1. PICK x \in Groups : worker = <<<<job[x], x>>>> /\ future[x] = "running"
    BY <1>1, <1>2 DEF Jobs
  <2>2. <<kind, g>> = <<job[x], x>>
    BY <1>2, <2>1
  <2>3. QED
    BY <2>1, <2>2
<1>4. g \in Recorded /\ Recorded' = Recorded /\ g \notin retired /\ g \notin aliased
  BY <1>1, <1>2, <1>3 DEF Station, Charge, Recorded
<1>5. PICK outcome \in {"done", "failed", "broken"} :
        /\ future' = [future EXCEPT ![g] = outcome]
        /\ \/ /\ outcome = "done" /\ kind # "discard" /\ arrays' = [arrays EXCEPT ![g] = "private"]
              /\ aliased' = aliased
           \/ outcome = "failed" /\ kind # "discard" /\ Closes(g)
           \/ outcome = "done" /\ kind = "discard" /\ Closes(g)
           \/ outcome = "broken" /\ arrays' = [arrays EXCEPT ![g] = "private"] /\ aliased' = aliased
  BY DEF End, Becomes
<1>6. /\ future'[g] = outcome /\ arrays'[g] \in {"private", "closed"}
      /\ aliased' \subseteq aliased \union {g} /\ aliased \subseteq aliased'
      /\ \A x \in Groups : x # g => future'[x] = future[x] /\ arrays'[x] = arrays[x]
  BY <1>1, <1>5 DEF TypeOK, Closes
<1>7. TypeOK' /\ Lists'
  <2>1. arrays' \in [Groups -> {"none", "private", "published", "closed", "dropped"}]
    BY <1>1, <1>5 DEF TypeOK, Closes
  <2>2. QED
    BY <1>1, <1>2, <1>5, <1>6, <2>1 DEF TypeOK, Lists, main
<1>8. Jobs'
  <2>1. \A e \in ToSet(inbox) : e[2] \in Groups /\ e[2] # g
    <3>1. \A e \in ToSet(inbox) : e \in Kinds \X Groups
      BY <1>1, SameElements, RangeOfSeq DEF Lists
    <3>2. QED
      BY <1>1, <1>3, <3>1 DEF Jobs
  <2>2. QED
    BY <1>1, <1>2, <1>6, <2>1 DEF Jobs
<1>9. ASSUME NEW x \in Groups
      PROVE  Station(x)' /\ Charge(x)'
  <2>1. CASE x = g
    <3>1. \/ outcome = "done" /\ kind # "discard" /\ arrays'[g] = "private" /\ aliased' = aliased
          \/ outcome = "failed" /\ kind # "discard" /\ arrays'[g] = "closed"
          \/ outcome = "done" /\ kind = "discard" /\ arrays'[g] = "closed"
          \/ outcome = "broken" /\ arrays'[g] = "private" /\ aliased' = aliased
      BY <1>1, <1>5 DEF TypeOK, Closes
    <3>2. Station(g)'
      BY <1>2, <1>3, <1>4, <1>6, <3>1 DEF Station, Kinds
    <3>3. Charge(g)'
      BY <1>1, <1>2, <1>3, <1>4, <1>6, <3>1 DEF Charge
    <3>4. QED
      BY <2>1, <3>2, <3>3
  <2>2. CASE x # g
    BY <1>1, <1>2, <1>4, <1>6, <2>2 DEF Station, Charge
  <2>3. QED
    BY <2>1, <2>2
<1>10. Waits'
  <2>1. g \in ToSet(collect) \union ToSet(cleanup) \/ phase = "up"
    BY <1>1, <1>3, <1>4 DEF Waits
  <2>2. \A x \in Recorded : future[x] = "broken" => x # g
    BY <1>3
  <2>3. QED
    BY <1>1, <1>2, <1>4, <1>6, <2>1, <2>2, RangeOfSeq, SameElements DEF Waits, main, Lists, Recorded
<1>11. QED
  BY <1>7, <1>8, <1>9, <1>10 DEF IInv

-----------------------------------------------------------------------------
(* Shutdown. *)

\* Retiring a group whose arrays are closed: its record goes, its credit with the last alias.
LEMMA Retires ==
  ASSUME IInv, NEW g \in Recorded, arrays[g] = "closed", Retire(g), records' = RemoveFirst(records, g),
         UNCHANGED <<arrays, aliased>>, \A x \in Groups : future'[x] = "none" <=> future[x] = "none"
  PROVE  /\ records' \in Seq(Groups) /\ IsInjective(records') /\ g \in Groups
         /\ \A x : x \in Recorded' <=> x \in Recorded /\ x # g
         /\ credit' \in [Groups -> {"none", "preparing", "inference", "returned"}] /\ retired' \subseteq Groups
         /\ \A x \in Groups : Charge(x)' /\ (x # g => credit'[x] = credit[x])
<1>1. TypeOK /\ Lists /\ \A x \in Groups : Station(x) /\ Charge(x)
  BY DEF IInv
<1>2. records' \in Seq(Groups) /\ IsInjective(records')
  BY <1>1, RemoveFirstLeaves DEF Lists, Recorded
<1>3. Recorded' = Recorded \ {g}
  BY <1>1, RemoveFirstLeaves DEF Lists, Recorded
<1>4. g \in Groups
  BY <1>1, SameElements, RangeOfSeq DEF Lists, Recorded
<1>5. \/ g \in aliased /\ retired' = retired \union {g} /\ credit' = credit
      \/ g \notin aliased /\ retired' = retired /\ credit' = [credit EXCEPT ![g] = "returned"]
  BY DEF Retire, Give
<1>6. /\ credit' \in [Groups -> {"none", "preparing", "inference", "returned"}] /\ retired' \subseteq Groups
      /\ \A x \in Groups : x # g => credit'[x] = credit[x]
      /\ g \notin aliased => credit'[g] = "returned"
  BY <1>1, <1>4, <1>5 DEF TypeOK
<1>7. ASSUME NEW x \in Groups
      PROVE  Charge(x)'
  <2>1. CASE x = g
    BY <1>1, <1>3, <1>5, <1>6, <2>1 DEF Charge
  <2>2. CASE x # g
    <3>1. credit'[x] = credit[x] /\ (x \in Recorded' <=> x \in Recorded) /\ (x \in retired' <=> x \in retired)
          /\ arrays'[x] = arrays[x] /\ aliased' = aliased /\ (future'[x] = "none" <=> future[x] = "none")
      BY <1>3, <1>5, <1>6, <2>2
    <3>2. QED
      BY <1>1, <3>1 DEF Charge
  <2>3. QED
    BY <2>1, <2>2
<1>8. \A x : x \in Recorded' <=> x \in Recorded /\ x # g
  BY <1>3
<1>9. QED
  BY <1>2, <1>4, <1>6, <1>7, <1>8

\* The stop cancels what nobody has taken, after the group whose birth failed was retired.
LEMMA StopStep ==
  ASSUME IInv, Stop
  PROVE  IInv'
<1>1. TypeOK /\ Lists /\ Jobs /\ Waits /\ \A x \in Groups : Station(x) /\ Charge(x)
  BY DEF IInv
<1>2. /\ phase = "up" /\ phase' = "collecting" /\ cleanup' = cleanup /\ collect' = records'
      /\ UNCHANGED <<job, inbox, worker, arrays, aliased>>
      /\ cleanup = <<>> /\ \A x \in Groups : job[x] # "discard"
  BY <1>1 DEF Stop, Waits
<1>3. /\ future' \in [Groups -> {"none", "queued", "running", "done", "failed", "broken", "cancelled"}]
      /\ \A x \in Groups : future'[x] = IF x \in Recorded /\ future[x] = "queued" THEN "cancelled" ELSE future[x]
  BY <1>1 DEF Stop, Cancelled, TypeOK, Recorded
<1>4. Jobs'
  <2>1. \A e \in ToSet(inbox) : e[2] \in Groups
    <3>1. \A e \in ToSet(inbox) : e \in Kinds \X Groups
      BY <1>1, SameElements, RangeOfSeq DEF Lists
    <3>2. QED
      BY <3>1
  <2>2. QED
    BY <1>1, <1>2, <1>3, <2>1 DEF Jobs
<1>5. /\ records' \in Seq(Groups) /\ IsInjective(records')
      /\ credit' \in [Groups -> {"none", "preparing", "inference", "returned"}] /\ retired' \subseteq Groups
      /\ \A x \in Groups : Charge(x)' /\ Station(x)'
  <2>1. CASE UNCHANGED <<records, credit, retired>>
    <3>1. Recorded' = Recorded
      BY <2>1 DEF Recorded
    <3>2. \A x \in Groups : Charge(x)' /\ Station(x)'
      BY <1>1, <1>2, <1>3, <2>1, <3>1 DEF Charge, Station
    <3>3. QED
      BY <1>1, <2>1, <3>2 DEF TypeOK, Lists
  <2>2. CASE \E g \in Recorded : future[g] = "failed" /\ Retire(g) /\ records' = RemoveFirst(records, g)
    <3>1. PICK g \in Recorded : future[g] = "failed" /\ Retire(g) /\ records' = RemoveFirst(records, g)
      BY <2>2
    <3>2. g \in Groups
      BY <1>1, SameElements, RangeOfSeq DEF Lists, Recorded
    <3>3. arrays[g] = "closed"
      BY <1>1, <3>1, <3>2 DEF Station
    <3>4. \A x \in Groups : future'[x] = "none" <=> future[x] = "none"
      BY <1>3
    <3>5. /\ records' \in Seq(Groups) /\ IsInjective(records')
          /\ \A x : x \in Recorded' <=> x \in Recorded /\ x # g
          /\ credit' \in [Groups -> {"none", "preparing", "inference", "returned"}] /\ retired' \subseteq Groups
          /\ \A x \in Groups : Charge(x)' /\ (x # g => credit'[x] = credit[x])
      BY <1>2, <3>1, <3>3, <3>4, Retires
    <3>6. \A x \in Groups : Station(x)'
      BY <1>1, <1>2, <1>3, <3>1, <3>5 DEF Station
    <3>7. QED
      BY <3>5, <3>6
  <2>3. QED
    BY <2>1, <2>2 DEF Stop, Recorded
<1>6. TypeOK' /\ Lists'
  <2>1. TypeOK'
    BY <1>1, <1>2, <1>3, <1>5 DEF TypeOK
  <2>2. QED
    BY <1>1, <1>2, <1>5, <2>1 DEF Lists
<1>7. Waits'
  <2>1. ToSet(cleanup') = {}
    BY <1>2 DEF ToSet
  <2>2. ToSet(collect') = Recorded' /\ Recorded' \subseteq Groups
    BY <1>2, <1>5, SameElements, RangeOfSeq DEF Recorded
  <2>3. \A x \in ToSet(collect') : job'[x] # "discard"
    BY <1>2, <2>2
  <2>4. QED
    BY <1>2, <2>1, <2>2, <2>3 DEF Waits
<1>8. QED
  BY <1>4, <1>5, <1>6, <1>7 DEF IInv

\* One record of the first loop of shutdown.
LEMMA CollectStep ==
  ASSUME IInv, Collect
  PROVE  IInv'
<1> DEFINE g == Head(collect)
<1>1. TypeOK /\ Lists /\ Jobs /\ Waits /\ \A x \in Groups : Station(x) /\ Charge(x)
  BY DEF IInv
<1>2. /\ phase = "collecting" /\ collect # <<>> /\ collect' = Tail(collect)
      /\ UNCHANGED <<worker, arrays, aliased, phase>>
  BY DEF Collect
<1>3. g \in ToSet(collect) /\ collect' \in Seq(Groups) /\ IsInjective(collect')
  BY <1>1, <1>2, TailLoses, SameElements DEF Lists
<1>4. ToSet(collect') = ToSet(collect) \ {g}
  <2>1. Range(Tail(collect)) = Range(collect) \ {g}
    BY <1>1, <1>2, TailLoses DEF Lists
  <2>2. QED
    BY <1>2, <2>1, SameElements
<1>5. g \in Recorded /\ g \in Groups /\ g \notin ToSet(cleanup)
  <2>1. g \in Recorded /\ g \notin ToSet(cleanup)
    BY <1>1, <1>3 DEF Waits
  <2>2. QED
    BY <1>1, <2>1, SameElements, RangeOfSeq DEF Lists, Recorded
<1> HIDE DEF g
<1>6. CASE /\ future[g] = "cancelled" /\ Give(g) /\ records' = RemoveFirst(records, g)
           /\ UNCHANGED <<retired, cleanup, inbox, job, future>>
  <2>1. records' \in Seq(Groups) /\ IsInjective(records')
    BY <1>1, <1>5, <1>6, RemoveFirstLeaves DEF Lists, Recorded
  <2>2. Recorded' = Recorded \ {g}
    BY <1>1, <1>5, <1>6, RemoveFirstLeaves DEF Lists, Recorded
  <2>3. /\ credit' \in [Groups -> {"none", "preparing", "inference", "returned"}] /\ credit'[g] = "returned"
        /\ \A x \in Groups : x # g => credit'[x] = credit[x]
    BY <1>1, <1>5, <1>6 DEF Give, TypeOK
  <2>4. TypeOK' /\ Lists' /\ Jobs'
    BY <1>1, <1>2, <1>3, <1>6, <2>1, <2>3, SameJobs DEF TypeOK, Lists
  <2>5. ASSUME NEW x \in Groups
        PROVE  Station(x)' /\ Charge(x)'
    <3>1. CASE x = g
      BY <1>1, <1>2, <1>5, <1>6, <2>2, <2>3, <3>1 DEF Station, Charge
    <3>2. CASE x # g
      BY <1>1, <1>2, <1>6, <2>2, <2>3, <3>2 DEF Station, Charge
    <3>3. QED
      BY <3>1, <3>2
  <2>6. Waits'
    BY <1>1, <1>2, <1>4, <1>5, <1>6, <2>2 DEF Waits
  <2>7. QED
    BY <2>4, <2>5, <2>6 DEF IInv
<1>7. CASE /\ future[g] = "failed" /\ Retire(g) /\ records' = RemoveFirst(records, g)
           /\ UNCHANGED <<cleanup, inbox, job, future>>
  <2>1. arrays[g] = "closed"
    BY <1>1, <1>5, <1>7 DEF Station
  <2>2. /\ records' \in Seq(Groups) /\ IsInjective(records')
        /\ \A x : x \in Recorded' <=> x \in Recorded /\ x # g
        /\ credit' \in [Groups -> {"none", "preparing", "inference", "returned"}] /\ retired' \subseteq Groups
        /\ \A x \in Groups : Charge(x)' /\ (x # g => credit'[x] = credit[x])
    BY <1>2, <1>5, <1>7, <2>1, Retires
  <2>3. TypeOK' /\ Lists' /\ Jobs'
    BY <1>1, <1>2, <1>3, <1>7, <2>2, SameJobs DEF TypeOK, Lists
  <2>4. \A x \in Groups : Station(x)'
    BY <1>1, <1>2, <1>7, <2>2 DEF Station
  <2>5. Waits'
    BY <1>1, <1>2, <1>4, <1>5, <1>7, <2>2 DEF Waits
  <2>6. QED
    BY <2>2, <2>3, <2>4, <2>5 DEF IInv
<1>8. CASE /\ future[g] = "broken"
           /\ UNCHANGED <<records, credit, retired, cleanup, inbox, job, future>>
  <2>1. TypeOK' /\ Lists' /\ Jobs'
    BY <1>1, <1>2, <1>3, <1>8, SameJobs DEF TypeOK, Lists
  <2>2. \A x \in Groups : Station(x)' /\ Charge(x)'
    BY <1>1, <1>2, <1>8 DEF Station, Charge, Recorded
  <2>3. Waits'
    BY <1>1, <1>2, <1>4, <1>5, <1>8 DEF Waits, Recorded
  <2>4. QED
    BY <2>1, <2>2, <2>3 DEF IInv
<1>9. CASE /\ future[g] = "done" /\ Submit(g, "discard") /\ cleanup' = Append(cleanup, g)
           /\ UNCHANGED <<records, credit, retired>>
  <2>1. /\ inbox' \in Seq(Kinds \X Groups) /\ IsInjective(inbox') /\ Jobs'
        /\ job' \in [Groups -> Kinds \union {"none"}]
        /\ future' \in [Groups -> {"none", "queued", "running", "done", "failed", "broken", "cancelled"}]
        /\ \A x \in Groups : x # g => job'[x] = job[x] /\ future'[x] = future[x]
        /\ job'[g] = "discard" /\ future'[g] = "queued"
    BY <1>1, <1>2, <1>5, <1>9, SubmitStep DEF Kinds
  <2>2. cleanup' \in Seq(Groups) /\ IsInjective(cleanup')
    BY <1>1, <1>5, <1>9, AppendAdds, SameElements DEF Lists
  <2>3. ToSet(cleanup') = ToSet(cleanup) \union {g}
    <3>1. Range(Append(cleanup, g)) = Range(cleanup) \union {g}
      BY <1>1, <1>5, AppendAdds, SameElements DEF Lists
    <3>2. QED
      BY <1>9, <3>1, SameElements
  <2>4. TypeOK' /\ Lists'
    BY <1>1, <1>2, <1>3, <1>9, <2>1, <2>2 DEF TypeOK, Lists
  <2>5. Recorded' = Recorded /\ g \notin retired /\ arrays[g] \in {"private", "closed"} /\ credit[g] = "preparing"
    BY <1>1, <1>5, <1>9 DEF Recorded, Charge, Station
  <2>6. arrays[g] = "private" /\ g \notin aliased
    <3>1. job[g] # "discard"
      BY <1>1, <1>3 DEF Waits
    <3>2. QED
      BY <1>1, <1>5, <1>9, <2>5, <3>1 DEF Station, Charge
  <2>7. ASSUME NEW x \in Groups
        PROVE  Station(x)' /\ Charge(x)'
    <3>1. CASE x = g
      BY <1>1, <1>2, <1>5, <1>9, <2>1, <2>5, <2>6, <3>1 DEF Station, Charge
    <3>2. CASE x # g
      BY <1>1, <1>2, <1>9, <2>1, <2>5, <3>2 DEF Station, Charge
    <3>3. QED
      BY <3>1, <3>2
  <2>8. Waits'
    <3>1. Recorded \subseteq Groups
      BY <1>1, SameElements, RangeOfSeq DEF Lists, Recorded
    <3>2. \A x \in ToSet(collect') : job'[x] # "discard"
      BY <1>1, <1>4, <2>1, <3>1 DEF Waits
    <3>3. \A x \in ToSet(cleanup') : job'[x] = "discard"
      BY <1>1, <1>5, <2>1, <2>3, <3>1 DEF Waits
    <3>4. \A x \in Recorded' : x \in ToSet(collect') \union ToSet(cleanup') \/ future'[x] = "broken"
      BY <1>1, <1>2, <1>4, <2>1, <2>3, <2>5, <3>1 DEF Waits
    <3>5. ToSet(collect') \union ToSet(cleanup') \subseteq Recorded' /\ ToSet(collect') \cap ToSet(cleanup') = {}
      BY <1>1, <1>4, <1>5, <2>3, <2>5 DEF Waits
    <3>6. QED
      BY <1>2, <3>2, <3>3, <3>4, <3>5 DEF Waits
  <2>9. QED
    BY <2>1, <2>4, <2>7, <2>8 DEF IInv
<1>10. QED
  BY <1>6, <1>7, <1>8, <1>9 DEF Collect, g

\* One discard of the second loop.
LEMMA CleanupStep ==
  ASSUME IInv, Cleanup
  PROVE  IInv'
<1> DEFINE g == Head(cleanup)
<1>1. TypeOK /\ Lists /\ Jobs /\ Waits /\ \A x \in Groups : Station(x) /\ Charge(x)
  BY DEF IInv
<1>2. /\ phase = "collecting" /\ cleanup # <<>> /\ cleanup' = Tail(cleanup)
      /\ UNCHANGED <<job, future, inbox, worker, arrays, aliased, phase, collect>>
  BY DEF Cleanup
<1>3. g \in ToSet(cleanup) /\ cleanup' \in Seq(Groups) /\ IsInjective(cleanup')
  BY <1>1, <1>2, TailLoses, SameElements DEF Lists
<1>4. ToSet(cleanup') = ToSet(cleanup) \ {g}
  <2>1. Range(Tail(cleanup)) = Range(cleanup) \ {g}
    BY <1>1, <1>2, TailLoses DEF Lists
  <2>2. QED
    BY <1>2, <2>1, SameElements
<1>5. g \in Recorded /\ g \in Groups /\ g \notin ToSet(collect) /\ job[g] = "discard"
  <2>1. g \in Recorded /\ g \notin ToSet(collect) /\ job[g] = "discard"
    BY <1>1, <1>3 DEF Waits
  <2>2. QED
    BY <1>1, <2>1, SameElements, RangeOfSeq DEF Lists, Recorded
<1>6. \/ future[g] = "done" /\ Retire(g) /\ records' = RemoveFirst(records, g)
      \/ future[g] = "broken" /\ UNCHANGED <<records, credit, retired>>
  BY DEF Cleanup
<1> HIDE DEF g
<1>7. CASE future[g] = "done" /\ Retire(g) /\ records' = RemoveFirst(records, g)
  <2>1. arrays[g] = "closed"
    BY <1>1, <1>5, <1>7 DEF Station
  <2>2. /\ records' \in Seq(Groups) /\ IsInjective(records')
        /\ \A x : x \in Recorded' <=> x \in Recorded /\ x # g
        /\ credit' \in [Groups -> {"none", "preparing", "inference", "returned"}] /\ retired' \subseteq Groups
        /\ \A x \in Groups : Charge(x)' /\ (x # g => credit'[x] = credit[x])
    BY <1>2, <1>5, <1>7, <2>1, Retires
  <2>3. TypeOK' /\ Lists' /\ Jobs'
    BY <1>1, <1>2, <1>3, <2>2, SameJobs DEF TypeOK, Lists
  <2>4. \A x \in Groups : Station(x)'
    BY <1>1, <1>2, <1>5, <1>7, <2>1, <2>2 DEF Station
  <2>5. Waits'
    BY <1>1, <1>2, <1>4, <1>5, <2>2 DEF Waits
  <2>6. QED
    BY <2>2, <2>3, <2>4, <2>5 DEF IInv
<1>8. CASE future[g] = "broken" /\ UNCHANGED <<records, credit, retired>>
  <2>1. TypeOK' /\ Lists' /\ Jobs'
    BY <1>1, <1>2, <1>3, <1>8, SameJobs DEF TypeOK, Lists
  <2>2. \A x \in Groups : Station(x)' /\ Charge(x)'
    BY <1>1, <1>2, <1>8 DEF Station, Charge, Recorded
  <2>3. Waits'
    BY <1>1, <1>2, <1>4, <1>5, <1>8 DEF Waits, Recorded
  <2>4. QED
    BY <2>1, <2>2, <2>3 DEF IInv
<1>9. QED
  BY <1>6, <1>7, <1>8

\* The executor closes: the cancelled items that are left go, with the arrays they carry.
LEMMA CloseExecutorStep ==
  ASSUME IInv, CloseExecutor
  PROVE  IInv'
<1>1. TypeOK /\ Lists /\ Jobs /\ Waits /\ \A x \in Groups : Station(x) /\ Charge(x)
  BY DEF IInv
<1>2. /\ phase = "collecting" /\ collect = <<>> /\ cleanup = <<>> /\ phase' = "joining" /\ inbox' = <<>>
      /\ arrays' = [g \in Groups |-> IF <<"requalify", g>> \in ToSet(inbox) THEN "dropped" ELSE arrays[g]]
      /\ UNCHANGED <<records, job, future, worker, credit, aliased, retired, collect, cleanup>>
  BY DEF CloseExecutor
<1>3. ToSet(<<>>) = {} /\ IsInjective(<<>>)
  BY DEF ToSet, IsInjective
<1>4. \A g \in Recorded : future[g] = "broken"
  BY <1>1, <1>2, <1>3 DEF Waits
<1>5. \A g \in Groups : <<"requalify", g>> \in ToSet(inbox) => job[g] = "requalify" /\ future[g] = "cancelled"
  <2> SUFFICES ASSUME NEW g \in Groups, <<"requalify", g>> \in ToSet(inbox)
               PROVE  job[g] = "requalify" /\ future[g] = "cancelled"
    OBVIOUS
  <2>1. job[g] = "requalify" /\ future[g] \in {"queued", "cancelled"}
    BY <1>1 DEF Jobs
  <2>2. QED
    BY <1>1, <1>4, <2>1 DEF Station
<1>6. TypeOK' /\ Lists'
  <2>1. TypeOK'
    BY <1>1, <1>2 DEF TypeOK
  <2>2. <<>> \in Seq(Kinds \X Groups)
    OBVIOUS
  <2>3. QED
    BY <1>1, <1>2, <1>3, <2>1, <2>2 DEF Lists
<1>7. Jobs'
  BY <1>1, <1>2, <1>3 DEF Jobs
<1>8. ASSUME NEW x \in Groups
      PROVE  Station(x)' /\ Charge(x)'
  <2>1. CASE <<"requalify", x>> \in ToSet(inbox)
    <3>1. arrays'[x] = "dropped" /\ job[x] = "requalify" /\ future[x] = "cancelled" /\ arrays[x] \in {"private", "dropped"}
      BY <1>1, <1>2, <1>5, <2>1 DEF Station
    <3>2. QED
      BY <1>1, <1>2, <3>1 DEF Station, Charge, Recorded
  <2>2. CASE <<"requalify", x>> \notin ToSet(inbox)
    BY <1>1, <1>2, <2>2 DEF Station, Charge, Recorded
  <2>3. QED
    BY <2>1, <2>2
<1>9. Waits'
  BY <1>1, <1>2, <1>3, <1>4 DEF Waits, Recorded
<1>10. QED
  BY <1>6, <1>7, <1>8, <1>9 DEF IInv

\* Settling the groups whose aliases are gone, at the end and again later.
LEMMA SettleStep ==
  ASSUME IInv, Join \/ Repeat
  PROVE  IInv'
<1>1. TypeOK /\ Lists /\ Jobs /\ Waits /\ \A x \in Groups : Station(x) /\ Charge(x)
  BY DEF IInv
<1>2. /\ phase \in {"joining", "down"} /\ phase' = "down" /\ worker = <<>>
      /\ retired' = retired \intersect aliased
      /\ credit' = [g \in Groups |-> IF g \in retired \ aliased THEN "returned" ELSE credit[g]]
      /\ UNCHANGED <<records, job, future, inbox, worker, arrays, aliased, collect, cleanup>>
  BY <1>1 DEF Join, Repeat, Settle, Waits, main
<1>3. TypeOK' /\ Lists' /\ Jobs'
  <2>1. TypeOK'
    BY <1>1, <1>2 DEF TypeOK
  <2>2. QED
    BY <1>1, <1>2, <2>1, SameJobs DEF Lists
<1>4. \A x \in Groups : Station(x)' /\ Charge(x)'
  BY <1>1, <1>2 DEF Station, Charge, Recorded
<1>5. Waits'
  BY <1>1, <1>2 DEF Waits, Recorded
<1>6. QED
  BY <1>3, <1>4, <1>5 DEF IInv

-----------------------------------------------------------------------------
(* The invariant and what follows from it. *)

\* The invariant is inductive.
LEMMA IInvIsInductive == Spec => []IInv
<1>1. Init => IInv
  <2> SUFFICES ASSUME Init PROVE IInv
    OBVIOUS
  <2>1. ToSet(<<>>) = {} /\ IsInjective(<<>>) /\ <<>> \in Seq(Groups) /\ <<>> \in Seq(Kinds \X Groups)
    BY DEF ToSet, IsInjective
  <2>2. TypeOK /\ Lists /\ Jobs
    BY <2>1 DEF Init, TypeOK, Lists, Jobs
  <2>3. Waits /\ \A g \in Groups : Station(g) /\ Charge(g)
    BY <2>1 DEF Init, Waits, Station, Charge, Recorded
  <2>4. QED
    BY <2>2, <2>3 DEF IInv
<1>2. IInv /\ [Next]_vars => IInv'
  <2> SUFFICES ASSUME IInv, [Next]_vars PROVE IInv'
    OBVIOUS
  <2>1. ASSUME NEW g \in Groups, Request(g) \/ Adopt(g) \/ Readopt(g)
        PROVE  IInv'
    BY <2>1, RequestStep, AdoptStep, ReadoptStep
  <2>2. ASSUME Promise \/ UNCHANGED vars \/ \E g \in Groups : DropAlias(g)
        PROVE  IInv'
    <3>1. UNCHANGED <<records, job, future, inbox, worker, credit, arrays, retired, main>> /\ aliased' \subseteq aliased
      BY <2>2 DEF Promise, DropAlias, vars, main
    <3>2. QED
      BY <3>1, AsideStep
  <2>3. CASE WorkerStep
    <3>1. ASSUME NEW kind \in {"build", "requalify", "discard"}, NEW g \in Groups, End(kind, g)
          PROVE  IInv'
      BY <3>1, EndStep DEF Kinds
    <3>2. QED
      BY <2>3, <3>1, TakeStep DEF WorkerStep
  <2>4. QED
    BY <2>1, <2>2, <2>3, StopStep, CollectStep, CleanupStep, CloseExecutorStep, SettleStep DEF Next, MainStep
<1>3. QED
  BY <1>1, <1>2, PTL DEF Spec

\* The credit of a group covers its arrays at every station, shutdown and late aliases
\* included (detector_workspaces.py), except for a group orphaned on its way back.
THEOREM CreditCovers == Spec => []CreditCoversArrays
<1>1. IInv => CreditCoversArrays
  <2> SUFFICES ASSUME IInv, NEW g \in Groups
               PROVE  /\ Live(g) /\ ~Orphaned(g) => credit[g] = "preparing"
                      /\ arrays[g] = "published" <=> credit[g] = "inference"
    BY DEF CreditCoversArrays
  <2>1. Station(g) /\ Charge(g)
    BY DEF IInv
  <2>2. QED
    BY <2>1 DEF Station, Charge, Live, Orphaned, Kinds
<1>2. QED
  BY IInvIsInductive, <1>1, PTL

\* Shutdown leaves no credit and no arrays behind but those it names.
THEOREM ShutdownSettlesAll == Spec => []ShutdownSettles
<1>1. IInv => ShutdownSettles
  <2> SUFFICES ASSUME IInv, phase = "down", NEW g \in Groups
               PROVE  /\ inbox = <<>> /\ worker = <<>>
                      /\ credit[g] = "preparing" => g \in retired \/ future[g] = "broken"
                      /\ arrays[g] \in {"private", "dropped"} => future[g] = "broken" \/ Orphaned(g)
    BY DEF ShutdownSettles, IInv, Waits
  <2>1. Station(g) /\ Charge(g) /\ Waits
    BY DEF IInv
  <2>2. inbox = <<>> /\ worker = <<>> /\ collect = <<>> /\ cleanup = <<>> /\ ToSet(<<>>) = {}
    BY <2>1 DEF Waits, ToSet
  <2>3. g \in Recorded => future[g] = "broken"
    BY <2>1, <2>2 DEF Waits
  <2>4. QED
    BY <2>1, <2>2, <2>3 DEF Station, Charge, Orphaned, Kinds
<1>2. QED
  BY IInvIsInductive, <1>1, PTL

-----------------------------------------------------------------------------
(* The archive: one block and one step of the walk *)

\* A set that holds m, and with each number its successor up to n, holds all from m to n.
LEMMA UpFrom ==
  ASSUME NEW m \in Nat, NEW n \in Nat, NEW G, m \in G,
         \A p \in m + 1 .. n : p - 1 \in G => p \in G
  PROVE  \A p \in m .. n : p \in G
<1> DEFINE C == {p \in m .. n : p \notin G}
<1>1. SUFFICES ASSUME C # {} PROVE FALSE
  OBVIOUS
<1>2. PICK p \in C : \A q \in C : p <= q
  <2>1. IsFiniteSet(C)
    <3>1. IsFiniteSet(m .. n)
      BY FS_Interval
    <3>2. QED
      BY <3>1, FS_Subset
  <2>2. \A x \in C : x \in Int
    OBVIOUS
  <2> HIDE DEF C
  <2>3. QED
    BY <1>1, <2>1, <2>2, Least
<1>3. p \in m + 1 .. n /\ p - 1 \in m .. n /\ ~(p <= p - 1)
  BY <1>2
<1>4. p - 1 \in G
  BY <1>2, <1>3
<1>5. QED
  BY <1>2, <1>3, <1>4

-----------------------------------------------------------------------------
(* Blocks *)

\* The blocks the model writes, and the transaction a block belongs to, 0 for none.
Block ==
  {Zero} \union {Header(t, n) : t \in Appends, n \in Names}
    \union {Payload(t, n) : t \in Appends, n \in Names}
    \union {CommitHeader(t) : t \in Appends}
    \union {Rows(t, names, replace) : t \in Appends, names \in SUBSET Names, replace \in BOOLEAN}
Owner(b) == IF b.kind = "zero" THEN 0 ELSE b.call

\* What the fields of a block say it is.
Blocklike(b) ==
  /\ b.kind \in {"zero", "data", "payload", "commit", "rows"}
  /\ Owner(b) = 0 => b = Zero
  /\ Owner(b) # 0 => Owner(b) \in Appends /\ b.kind # "zero" /\ Owner(b) = b.call
  /\ b.kind = "zero" => Owner(b) = 0
  /\ b.kind = "data" => b.name \in Names /\ b = Header(b.call, b.name)
  /\ b.kind = "commit" => b = CommitHeader(b.call)

\* Every block has the fields of its kind.
LEMMA BlockFields == \A b \in Block : Blocklike(b)
<1> SUFFICES ASSUME NEW b \in Block PROVE Blocklike(b)
  OBVIOUS
<1>1. \A t \in Appends : t \in Nat /\ t # 0
  BY CallsAssumption DEF Appends
<1>2. CASE b = Zero
  BY <1>2 DEF Zero, Owner, Blocklike
<1>3. CASE \E t \in Appends, n \in Names : b = Header(t, n)
  BY <1>1, <1>3 DEF Header, Owner, Blocklike
<1>4. CASE \E t \in Appends, n \in Names : b = Payload(t, n)
  BY <1>1, <1>4 DEF Payload, Owner, Blocklike
<1>5. CASE \E t \in Appends : b = CommitHeader(t)
  BY <1>1, <1>5 DEF CommitHeader, Owner, Blocklike
<1>6. CASE \E t \in Appends, names \in SUBSET Names, replace \in BOOLEAN : b = Rows(t, names, replace)
  BY <1>1, <1>6 DEF Rows, Owner, Blocklike
<1>7. QED
  BY <1>2, <1>3, <1>4, <1>5, <1>6 DEF Block

\* Each of the blocks that are written is one, and belongs to its transaction.
LEMMA BlocksOfTransaction ==
  ASSUME NEW t \in Appends, NEW n \in Names, NEW names \in SUBSET Names, NEW replace \in BOOLEAN
  PROVE  /\ Header(t, n) \in Block /\ Owner(Header(t, n)) = t /\ Header(t, n).kind = "data"
         /\ Header(t, n).name = n
         /\ Payload(t, n) \in Block /\ Owner(Payload(t, n)) = t /\ Payload(t, n).kind = "payload"
         /\ CommitHeader(t) \in Block /\ Owner(CommitHeader(t)) = t /\ CommitHeader(t).kind = "commit"
         /\ Rows(t, names, replace) \in Block /\ Owner(Rows(t, names, replace)) = t
         /\ Rows(t, names, replace).kind = "rows" /\ Rows(t, names, replace).names = names
         /\ Rows(t, names, replace).replace = replace
<1>1. Header(t, n) \in Block /\ Payload(t, n) \in Block /\ CommitHeader(t) \in Block
  BY DEF Block
<1>2. Rows(t, names, replace) \in Block
  BY DEF Block
<1>3. QED
  BY <1>1, <1>2 DEF Header, Payload, CommitHeader, Rows, Owner

\* A zero block is a block of nobody.
LEMMA ZeroIsFree == Zero \in Block /\ Owner(Zero) = 0 /\ Zero.kind = "zero"
  BY DEF Block, Zero, Owner

-----------------------------------------------------------------------------
(* The walk of _scan, one block at a time *)

\* w is what the recursion of Scan defines; f follows it for n blocks.
Walked(w, c) == w = [p \in 0 .. Len(c) |-> IF p = 0 THEN Scan0 ELSE Walk(w[p - 1], c[p], p)]
Follows(f, c, n) == f[0] = Scan0 /\ \A p \in 1 .. n : f[p] = Walk(f[p - 1], c[p], p)

\* The state of the walk after p blocks.
At(c, p) == (CHOOSE w : Walked(w, c))[p]

\* The recursion can be followed for any number of blocks.
LEMMA FollowsExists == \A c : \A n \in Nat : \E f : Follows(f, c, n)
<1> SUFFICES ASSUME NEW c, NEW n \in Nat PROVE \E f : Follows(f, c, n)
  OBVIOUS
<1> DEFINE G == {p \in 0 .. n : \E f : Follows(f, c, p)}
<1>1. 0 \in G
  <2>1. Follows([p \in {0} |-> Scan0], c, 0)
    BY DEF Follows
  <2>2. QED
    BY <2>1
<1>2. ASSUME NEW p \in 0 + 1 .. n, p - 1 \in G
      PROVE  p \in G
  <2>1. PICK f : Follows(f, c, p - 1)
    BY <1>2
  <2> DEFINE h == [q \in 0 .. p |-> IF q = p THEN Walk(f[p - 1], c[p], p) ELSE f[q]]
  <2>2. h[0] = Scan0
    BY <2>1 DEF Follows
  <2>3. ASSUME NEW q \in 1 .. p
        PROVE  h[q] = Walk(h[q - 1], c[q], q)
    <3>1. q \in 0 .. p /\ q - 1 \in 0 .. p /\ q - 1 # p
      OBVIOUS
    <3>2. h[q - 1] = f[q - 1]
      BY <3>1
    <3>3. CASE q = p
      BY <3>1, <3>2, <3>3
    <3>4. CASE q # p
      <4>1. q \in 1 .. p - 1
        BY <3>4
      <4>2. f[q] = Walk(f[q - 1], c[q], q)
        BY <2>1, <4>1 DEF Follows
      <4>3. QED
        BY <3>1, <3>2, <3>4, <4>2
    <3>5. QED
      BY <3>3, <3>4
  <2> HIDE DEF h
  <2>4. Follows(h, c, p)
    BY <2>2, <2>3 DEF Follows
  <2>5. QED
    BY <2>4
<1> HIDE DEF G
<1>3. \A p \in 0 .. n : p \in G
  BY <1>1, <1>2, UpFrom
<1>4. QED
  BY <1>3 DEF G

\* The walk of a content, and what a scan of the whole content returns.
LEMMA WalkExists ==
  ASSUME NEW c, Len(c) \in Nat
  PROVE  Walked(CHOOSE w : Walked(w, c), c)
<1>1. PICK f : Follows(f, c, Len(c))
  BY FollowsExists
<1> DEFINE w == [p \in 0 .. Len(c) |-> f[p]]
<1>2. w = [p \in 0 .. Len(c) |-> w[p]]
  OBVIOUS
<1>3. ASSUME NEW p \in 0 .. Len(c)
      PROVE  w[p] = IF p = 0 THEN Scan0 ELSE Walk(w[p - 1], c[p], p)
  <2>1. CASE p = 0
    BY <1>1, <2>1 DEF Follows
  <2>2. CASE p # 0
    <3>1. p \in 1 .. Len(c) /\ p - 1 \in 0 .. Len(c)
      BY <2>2
    <3>2. f[p] = Walk(f[p - 1], c[p], p)
      BY <1>1, <3>1 DEF Follows
    <3>3. QED
      BY <2>2, <3>1, <3>2
  <2>3. QED
    BY <2>1, <2>2
<1> HIDE DEF w
<1>4. w = [p \in 0 .. Len(c) |-> IF p = 0 THEN Scan0 ELSE Walk(w[p - 1], c[p], p)]
  BY <1>2, <1>3
<1>5. \E v : Walked(v, c)
  BY <1>4 DEF Walked
<1>6. QED
  BY <1>5, Zenon

\* The walk begins with nothing read.
LEMMA AtStart == \A c : Len(c) \in Nat => At(c, 0) = Scan0
<1> SUFFICES ASSUME NEW c, Len(c) \in Nat PROVE At(c, 0) = Scan0
  OBVIOUS
<1> DEFINE w == CHOOSE v : Walked(v, c)
<1>1. Walked(w, c)
  BY WalkExists
<1> HIDE DEF w
<1>2. 0 \in 0 .. Len(c)
  OBVIOUS
<1>3. w[0] = Scan0
  BY <1>1, <1>2 DEF Walked
<1>4. QED
  BY <1>3 DEF At, w

\* The walk reads one block after the other.
LEMMA AtNext == \A c : Len(c) \in Nat => \A p \in 1 .. Len(c) : At(c, p) = Walk(At(c, p - 1), c[p], p)
<1> SUFFICES ASSUME NEW c, Len(c) \in Nat, NEW p \in 1 .. Len(c)
             PROVE  At(c, p) = Walk(At(c, p - 1), c[p], p)
  OBVIOUS
<1> DEFINE w == CHOOSE v : Walked(v, c)
<1>1. Walked(w, c)
  BY WalkExists
<1> HIDE DEF w
<1>2. p \in 0 .. Len(c) /\ p # 0
  OBVIOUS
<1>3. w[p] = Walk(w[p - 1], c[p], p)
  BY <1>1, <1>2 DEF Walked
<1>4. QED
  BY <1>3 DEF At, w

\* _scan ends where the walk has read every block.
LEMMA ScanIsLast == \A c : Len(c) \in Nat => Scan(c) = At(c, Len(c))
  BY DEF Scan, At, Walked

\* Two contents are walked alike as far as they agree.
LEMMA AtAgrees ==
  ASSUME NEW c, NEW e, Len(c) \in Nat, Len(e) \in Nat, NEW n \in Nat, n <= Len(c), n <= Len(e),
         \A q \in 1 .. n : c[q] = e[q]
  PROVE  \A q \in 0 .. n : At(c, q) = At(e, q)
<1> DEFINE G == {q \in 0 .. n : At(c, q) = At(e, q)}
<1>1. 0 \in G
  BY AtStart
<1>2. ASSUME NEW q \in 0 + 1 .. n, q - 1 \in G
      PROVE  q \in G
  <2>1. q \in 1 .. Len(c) /\ q \in 1 .. Len(e) /\ q \in 1 .. n
    OBVIOUS
  <2>2. At(c, q) = Walk(At(c, q - 1), c[q], q) /\ At(e, q) = Walk(At(e, q - 1), e[q], q)
    BY <2>1, AtNext
  <2>3. QED
    BY <1>2, <2>1, <2>2
<1> HIDE DEF G
<1>3. \A q \in 0 .. n : q \in G
  BY <1>1, <1>2, UpFrom
<1>4. QED
  BY <1>3 DEF G

\* A state of the walk has its fields, and what of it one block leaves alone.
Shaped(s) ==
  /\ s = [state |-> s.state, left |-> s.left, call |-> s.call, pending |-> s.pending,
          entries |-> s.entries, calls |-> s.calls, end |-> s.end]
  /\ s.state \in {"header", "payload", "rows", "stop", "corrupt"}
Settled(s, r) == r.entries = s.entries /\ r.calls = s.calls /\ r.end = s.end
Alike(s, r) == Settled(s, r) /\ r.call = s.call /\ r.pending = s.pending

\* A data header that the walk refuses, and what it makes of one it takes.
Refused(s, b) == (s.call # 0 /\ s.call # b.call) \/ b.name \in DOMAIN s.pending
Taken(s, b, p, r) ==
  /\ Settled(s, r)
  /\ r.state = IF Blocks[b.name] = 0 THEN "header" ELSE "payload"
  /\ r.left = Blocks[b.name]
  /\ r.call = b.call
  /\ DOMAIN r.pending = DOMAIN s.pending \union {b.name}
  /\ r.pending[b.name] = [call |-> b.call, at |-> p]
  /\ \A n \in DOMAIN s.pending : n # b.name => r.pending[n] = s.pending[n]

\* What it makes of the rows it accepts.
Accepted(s, b, p, r) ==
  /\ r.state = "header" /\ r.call = 0 /\ r.pending = <<>> /\ r.end = p
  /\ r.calls = s.calls \union {b.call}
  /\ \A n \in Names : r.entries[n] = IF n \in b.names THEN s.pending[n] ELSE s.entries[n]

\* The walk over one block, case by case.
Walks(s, b, p, r) ==
  /\ Shaped(r)
  /\ s.state \in {"stop", "corrupt"} => r = s
  /\ s.state = "payload" => /\ Alike(s, r) /\ r.left = s.left - 1
                            /\ r.state = IF s.left = 1 THEN "header" ELSE "payload"
  /\ s.state = "header" /\ b.kind = "zero" => Alike(s, r) /\ r.state = "stop"
  /\ s.state = "header" /\ b.kind = "data" =>
       IF Refused(s, b) THEN Alike(s, r) /\ r.state = "corrupt" ELSE Taken(s, b, p, r)
  /\ s.state = "header" /\ b.kind = "commit" =>
       Alike(s, r) /\ r.state = IF b.call = s.call THEN "rows" ELSE "corrupt"
  /\ s.state = "header" /\ b.kind \in {"payload", "rows"} => Alike(s, r) /\ r.state = "corrupt"
  /\ s.state = "rows" =>
       IF Mismatch(s, b) THEN Alike(s, r) /\ r.state = "corrupt" ELSE Accepted(s, b, p, r)

\* The walk over one block, case by case.
LEMMA WalkCases ==
  ASSUME NEW s, Shaped(s), NEW b \in Block, NEW p
  PROVE  Walks(s, b, p, Walk(s, b, p))
<1> DEFINE r == Walk(s, b, p)
<1>1. Blocklike(b)
  BY BlockFields
<1>2. CASE s.state \in {"stop", "corrupt"}
  <2>1. r = s
    BY <1>2 DEF Walk
  <2>2. QED
    BY <1>2, <2>1 DEF Walks
<1>3. CASE s.state = "payload"
  <2>1. r = [s EXCEPT !.left = @ - 1, !.state = IF s.left = 1 THEN "header" ELSE @]
    BY <1>3 DEF Walk
  <2> HIDE DEF r
  <2>2. QED
    BY <1>3, <2>1 DEF Walks, Shaped, Alike, Settled, r
<1>4. CASE s.state = "header" /\ b.kind = "zero"
  <2>1. r = [s EXCEPT !.state = "stop"]
    BY <1>4 DEF Walk
  <2> HIDE DEF r
  <2>2. QED
    BY <1>4, <2>1 DEF Walks, Shaped, Alike, Settled, r
<1>5. CASE s.state = "header" /\ b.kind = "data"
  <2>1. r = ReadData(s, b, p)
    BY <1>5 DEF Walk
  <2>2. CASE Refused(s, b)
    <3>1. r = [s EXCEPT !.state = "corrupt"]
      BY <2>1, <2>2 DEF ReadData, Refused
    <3> HIDE DEF r
    <3>2. QED
      BY <1>5, <2>2, <3>1 DEF Walks, Shaped, Alike, Settled, r
  <2>3. CASE ~Refused(s, b)
    <3> DEFINE q == Pending(s, b, p)
    <3>1. r = [s EXCEPT !.state = IF Blocks[b.name] = 0 THEN "header" ELSE "payload",
                        !.left = Blocks[b.name], !.call = b.call, !.pending = q]
      BY <2>1, <2>3 DEF ReadData, Refused
    <3>2. /\ DOMAIN q = DOMAIN s.pending \union {b.name}
          /\ q[b.name] = [call |-> b.call, at |-> p]
          /\ \A n \in DOMAIN s.pending : n # b.name => q[n] = s.pending[n]
      BY DEF Pending
    <3> HIDE DEF r, q
    <3>3. r.pending = q /\ Shaped(r)
      BY <1>5, <3>1 DEF Shaped
    <3>4. Settled(s, r) /\ r.call = b.call /\ r.left = Blocks[b.name]
          /\ r.state = IF Blocks[b.name] = 0 THEN "header" ELSE "payload"
      BY <3>1 DEF Shaped, Settled
    <3>5. Taken(s, b, p, r)
      BY <3>2, <3>3, <3>4 DEF Taken
    <3>6. QED
      BY <1>5, <2>3, <3>3, <3>5 DEF Walks, r
  <2>4. QED
    BY <2>2, <2>3
<1>6. CASE s.state = "header" /\ b.kind = "commit"
  <2>1. r = [s EXCEPT !.state = IF b.call = s.call THEN "rows" ELSE "corrupt"]
    BY <1>6 DEF Walk
  <2> HIDE DEF r
  <2>2. QED
    BY <1>6, <2>1 DEF Walks, Shaped, Alike, Settled, r
<1>7. CASE s.state = "header" /\ b.kind \in {"payload", "rows"}
  <2>1. r = [s EXCEPT !.state = "corrupt"]
    BY <1>7 DEF Walk
  <2> HIDE DEF r
  <2>2. QED
    BY <1>7, <2>1 DEF Walks, Shaped, Alike, Settled, r
<1>8. CASE s.state = "rows"
  <2>1. r = ReadRows(s, b, p)
    BY <1>8 DEF Walk
  <2>2. CASE Mismatch(s, b)
    <3>1. r = [s EXCEPT !.state = "corrupt"]
      BY <2>1, <2>2 DEF ReadRows
    <3> HIDE DEF r
    <3>2. QED
      BY <1>8, <2>2, <3>1 DEF Walks, Shaped, Alike, Settled, r
  <2>3. CASE ~Mismatch(s, b)
    <3> DEFINE e == [n \in Names |-> IF n \in b.names THEN s.pending[n] ELSE s.entries[n]]
    <3>1. r = [s EXCEPT !.state = "header", !.call = 0, !.pending = <<>>, !.entries = e,
                        !.calls = s.calls \union {b.call}, !.end = p]
      BY <2>1, <2>3 DEF ReadRows
    <3>2. \A n \in Names : e[n] = IF n \in b.names THEN s.pending[n] ELSE s.entries[n]
      OBVIOUS
    <3> HIDE DEF r, e
    <3>3. r.entries = e /\ Shaped(r)
      BY <3>1 DEF Shaped
    <3>4. r.state = "header" /\ r.call = 0 /\ r.pending = <<>> /\ r.end = p
          /\ r.calls = s.calls \union {b.call}
      BY <3>1 DEF Shaped
    <3>5. Accepted(s, b, p, r)
      BY <3>2, <3>3, <3>4 DEF Accepted
    <3>6. QED
      BY <1>8, <2>3, <3>3, <3>5 DEF Walks, r
  <2>4. QED
    BY <2>2, <2>3
<1>9. QED
  BY <1>1, <1>2, <1>3, <1>4, <1>5, <1>6, <1>7, <1>8 DEF Shaped, Blocklike

-----------------------------------------------------------------------------
(* The blocks of a transaction *)

\* What a concatenation holds.
LEMMA JoinHolds ==
  ASSUME NEW S, NEW p \in Seq(S), NEW q \in Seq(S)
  PROVE  /\ p \o q \in Seq(S) /\ Len(p \o q) = Len(p) + Len(q)
         /\ \A i \in 1 .. Len(p) : (p \o q)[i] = p[i]
         /\ \A i \in 1 .. Len(q) : (p \o q)[Len(p) + i] = q[i]
<1>1. p \o q \in Seq(S) /\ Len(p \o q) = Len(p) + Len(q)
  BY ConcatProperties
<1>2. \A i \in 1 .. Len(p) + Len(q) : (p \o q)[i] = IF i <= Len(p) THEN p[i] ELSE q[i - Len(p)]
  BY ConcatProperties
<1>3. Len(p) \in Nat /\ Len(q) \in Nat
  OBVIOUS
<1>4. \A i \in 1 .. Len(p) : i \in 1 .. Len(p) + Len(q) /\ i <= Len(p)
  BY <1>3
<1>5. \A i \in 1 .. Len(q) : /\ Len(p) + i \in 1 .. Len(p) + Len(q) /\ ~(Len(p) + i <= Len(p))
                             /\ Len(p) + i - Len(p) = i
  BY <1>3
<1> HIDE <1>3
<1>6. QED
  BY <1>1, <1>2, <1>4, <1>5

\* A member is its header and its payload.
LEMMA MemberBlocks ==
  ASSUME NEW t \in Appends, NEW n \in Names
  PROVE  /\ Member(t, n) \in Seq(Block) /\ Len(Member(t, n)) = 1 + Blocks[n]
         /\ Member(t, n)[1] = Header(t, n)
         /\ \A j \in 1 .. Blocks[n] : Member(t, n)[1 + j] = Payload(t, n)
<1> DEFINE h == <<Header(t, n)>>
           q == [i \in 1 .. Blocks[n] |-> Payload(t, n)]
<1>1. Header(t, n) \in Block /\ Payload(t, n) \in Block
  BY DEF Block
<1>2. Blocks[n] \in Nat
  BY BlocksAssumption
<1>3. h \in Seq(Block) /\ Len(h) = 1 /\ h[1] = Header(t, n)
  BY <1>1
<1>4. q \in Seq(Block) /\ Len(q) = Blocks[n] /\ \A j \in 1 .. Blocks[n] : q[j] = Payload(t, n)
  BY <1>1, <1>2
<1>5. Member(t, n) = h \o q
  BY DEF Member
<1> HIDE DEF h, q
<1>6. /\ h \o q \in Seq(Block) /\ Len(h \o q) = Len(h) + Len(q)
      /\ \A i \in 1 .. Len(h) : (h \o q)[i] = h[i]
      /\ \A i \in 1 .. Len(q) : (h \o q)[Len(h) + i] = q[i]
  <2>1. h \in Seq(Block) /\ q \in Seq(Block)
    BY <1>3, <1>4
  <2>2. QED
    BY <2>1, JoinHolds
<1>7. QED
  BY <1>2, <1>3, <1>4, <1>5, <1>6

\* The member of n lies whole at i.
MemberAt(D, t, n, i) ==
  /\ D[i] = Header(t, n) /\ i + Blocks[n] <= Len(D)
  /\ \A j \in 1 .. Blocks[n] : D[i + j] = Payload(t, n)

\* D is the members of the first k names, one behind the other.
LaidOut(D, t, names, k) ==
  /\ D \in Seq(Block)
  /\ \A i \in 1 .. Len(D) : Owner(D[i]) = t /\ D[i].kind \in {"data", "payload"}
  /\ \A i \in 1 .. Len(D) : D[i].kind = "data" =>
       \E x \in 1 .. k : /\ MemberAt(D, t, names[x], i)
                         /\ i + Blocks[names[x]] + 1 <= Len(D) => D[i + Blocks[names[x]] + 1].kind = "data"
  /\ \A i, j \in 1 .. Len(D) : D[i].kind = "data" /\ D[j].kind = "data" /\ D[i].name = D[j].name => i = j
  /\ \A x \in 1 .. k : \E i \in 1 .. Len(D) : D[i] = Header(t, names[x])
  /\ k >= 1 => Len(D) >= 1 /\ D[1] = Header(t, names[1])
  /\ k = 0 => D = <<>>

\* One member more.
LEMMA LaidOutNext ==
  ASSUME NEW t \in Appends, NEW names \in Seq(Names), IsInjective(names),
         NEW k \in 1 .. Len(names), NEW D, LaidOut(D, t, names, k - 1)
  PROVE  LaidOut(D \o Member(t, names[k]), t, names, k)
<1>1. PICK n \in Names : n = names[k]
  OBVIOUS
<1>2. PICK E \in Seq(Block) : E = Member(t, n)
  BY MemberBlocks
<1>3. PICK b \in Nat : b = Blocks[n]
  BY BlocksAssumption
<1>4. Len(E) = 1 + b /\ E[1] = Header(t, n) /\ \A j \in 1 .. b : E[1 + j] = Payload(t, n)
  BY <1>2, <1>3, MemberBlocks
<1>5. D \in Seq(Block)
  BY DEF LaidOut
<1>6. PICK F \in Seq(Block) : F = D \o E
  BY <1>5, JoinHolds
<1>7. D \in Seq(Block) /\ Len(D) \in Nat /\ Len(F) = Len(D) + 1 + b
      /\ \A i \in 1 .. Len(D) : F[i] = D[i]
  <2>1. Len(D \o E) = Len(D) + Len(E) /\ \A i \in 1 .. Len(D) : (D \o E)[i] = D[i]
    BY <1>5, JoinHolds
  <2>2. Len(D) \in Nat
    BY <1>5
  <2>3. Len(F) = Len(D) + (1 + b) /\ \A i \in 1 .. Len(D) : F[i] = D[i]
    BY <1>4, <1>6, <2>1
  <2>4. QED
    BY <1>5, <2>2, <2>3
<1>8. \A i \in Len(D) + 1 .. Len(F) : F[i] = E[i - Len(D)]
  <2> SUFFICES ASSUME NEW i \in Len(D) + 1 .. Len(F) PROVE F[i] = E[i - Len(D)]
    OBVIOUS
  <2>1. i - Len(D) \in 1 .. Len(E) /\ Len(D) + (i - Len(D)) = i
    BY <1>4, <1>7
  <2>2. (D \o E)[Len(D) + (i - Len(D))] = E[i - Len(D)]
    BY <1>5, <2>1, JoinHolds
  <2>3. QED
    BY <1>6, <2>1, <2>2
<1>9. F[Len(D) + 1] = Header(t, n)
  <2>1. Len(D) + 1 \in Len(D) + 1 .. Len(F) /\ Len(D) + 1 - Len(D) = 1
    BY <1>7
  <2>2. QED
    BY <1>4, <1>8, <2>1
<1>10. \A j \in 1 .. b : F[Len(D) + 1 + j] = Payload(t, n)
  <2> SUFFICES ASSUME NEW j \in 1 .. b PROVE F[Len(D) + 1 + j] = Payload(t, n)
    OBVIOUS
  <2>1. Len(D) + 1 + j \in Len(D) + 1 .. Len(F) /\ Len(D) + 1 + j - Len(D) = 1 + j
    BY <1>7
  <2>2. QED
    BY <1>4, <1>8, <2>1
<1>11. /\ Owner(Header(t, n)) = t /\ Header(t, n).kind = "data" /\ Header(t, n).name = n
       /\ Owner(Payload(t, n)) = t /\ Payload(t, n).kind = "payload"
  BY DEF Owner, Header, Payload
<1>12. \A i \in Len(D) + 1 .. Len(F) : i = Len(D) + 1 \/ (i # Len(D) + 1 /\ F[i] = Payload(t, n))
  <2> SUFFICES ASSUME NEW i \in Len(D) + 1 .. Len(F), i # Len(D) + 1 PROVE F[i] = Payload(t, n)
    OBVIOUS
  <2>1. i - Len(D) - 1 \in 1 .. b /\ Len(D) + 1 + (i - Len(D) - 1) = i
    BY <1>7
  <2>2. QED
    BY <1>10, <2>1
<1>13. \A i \in 1 .. Len(F) : i \in 1 .. Len(D) \/ i \in Len(D) + 1 .. Len(F)
  BY <1>7
<1>14. \A i \in 1 .. Len(F) : Owner(F[i]) = t /\ F[i].kind \in {"data", "payload"}
  BY <1>7, <1>9, <1>11, <1>12, <1>13 DEF LaidOut
<1>15. \A i \in 1 .. Len(F) : F[i].kind = "data" => i \in 1 .. Len(D) \/ i = Len(D) + 1
  BY <1>11, <1>12, <1>13
<1>16. Len(D) + 1 \in 1 .. Len(F)
  BY <1>7
<1>17. \A x \in 1 .. k - 1 : names[x] # n
  BY <1>1 DEF IsInjective
<1>18. \A i \in 1 .. Len(D) : D[i].kind = "data" => D[i].name # n
  <2> SUFFICES ASSUME NEW i \in 1 .. Len(D), D[i].kind = "data" PROVE D[i].name # n
    OBVIOUS
  <2>1. PICK x \in 1 .. k - 1 : D[i] = Header(t, names[x])
    BY DEF LaidOut, MemberAt
  <2>2. D[i].name = names[x]
    BY <2>1 DEF Header
  <2>3. QED
    BY <1>17, <2>1, <2>2
<1>19. ASSUME NEW i \in 1 .. Len(F), F[i].kind = "data"
       PROVE  \E x \in 1 .. k : /\ MemberAt(F, t, names[x], i)
                                /\ i + Blocks[names[x]] + 1 <= Len(F) => F[i + Blocks[names[x]] + 1].kind = "data"
  <2>1. CASE i = Len(D) + 1
    <3>1. MemberAt(F, t, names[k], i) /\ ~(i + Blocks[names[k]] + 1 <= Len(F))
      BY <1>1, <1>3, <1>7, <1>9, <1>10, <2>1 DEF MemberAt
    <3>2. QED
      BY <3>1
  <2>2. CASE i \in 1 .. Len(D)
    <3>1. D[i].kind = "data"
      BY <1>7, <1>19, <2>2
    <3>2. PICK x \in 1 .. k - 1 :
            /\ MemberAt(D, t, names[x], i)
            /\ i + Blocks[names[x]] + 1 <= Len(D) => D[i + Blocks[names[x]] + 1].kind = "data"
      BY <2>2, <3>1 DEF LaidOut
    <3>3. PICK m \in Nat : m = Blocks[names[x]]
      BY BlocksAssumption
    <3>4. D[i] = Header(t, names[x]) /\ i + m <= Len(D) /\ \A j \in 1 .. m : D[i + j] = Payload(t, names[x])
      BY <3>2, <3>3 DEF MemberAt
    <3>5. \A j \in 1 .. m : i + j \in 1 .. Len(D)
      BY <1>7, <2>2, <3>4
    <3>6. MemberAt(F, t, names[x], i)
      BY <1>7, <2>2, <3>3, <3>4, <3>5 DEF MemberAt
    <3>7. i + m + 1 <= Len(F) => F[i + m + 1].kind = "data"
      <4>1. CASE i + m = Len(D)
        BY <1>9, <1>11, <4>1
      <4>2. CASE i + m # Len(D)
        <5>1. Len(D) \in Nat /\ i \in Nat /\ m \in Nat /\ i + m <= Len(D) /\ i + m # Len(D)
          BY <1>7, <3>4, <4>2
        <5>2. i + m + 1 <= Len(D) /\ i + m + 1 \in 1 .. Len(D)
          BY <5>1
        <5>3. QED
          BY <1>7, <3>2, <3>3, <5>2
      <4>3. QED
        BY <4>1, <4>2
    <3>8. x \in 1 .. k
      OBVIOUS
    <3>9. QED
      BY <3>3, <3>6, <3>7, <3>8
  <2>3. QED
    BY <1>15, <1>19, <2>1, <2>2
<1>20. ASSUME NEW i \in 1 .. Len(F), NEW j \in 1 .. Len(F),
              F[i].kind = "data", F[j].kind = "data", F[i].name = F[j].name
       PROVE  i = j
  <2>1. CASE i \in 1 .. Len(D) /\ j \in 1 .. Len(D)
    BY <1>7, <1>20, <2>1 DEF LaidOut
  <2>2. CASE i = Len(D) + 1
    <3>1. F[j].name = n /\ F[j].kind = "data"
      BY <1>9, <1>11, <1>20, <2>2
    <3>2. j \notin 1 .. Len(D)
      BY <1>7, <1>18, <3>1
    <3>3. QED
      BY <1>15, <1>20, <2>2, <3>2
  <2>3. CASE j = Len(D) + 1
    <3>1. F[i].name = n /\ F[i].kind = "data"
      BY <1>9, <1>11, <1>20, <2>3
    <3>2. i \notin 1 .. Len(D)
      BY <1>7, <1>18, <3>1
    <3>3. QED
      BY <1>15, <1>20, <2>3, <3>2
  <2>4. QED
    BY <1>15, <1>20, <2>1, <2>2, <2>3
<1>21. ASSUME NEW x \in 1 .. k PROVE \E i \in 1 .. Len(F) : F[i] = Header(t, names[x])
  <2>1. CASE x = k
    BY <1>1, <1>9, <1>16, <2>1
  <2>2. CASE x # k
    <3>1. x \in 1 .. k - 1
      BY <2>2
    <3>2. PICK i \in 1 .. Len(D) : D[i] = Header(t, names[x])
      BY <3>1 DEF LaidOut
    <3>3. i \in 1 .. Len(F) /\ F[i] = Header(t, names[x])
      BY <1>7, <3>2
    <3>4. QED
      BY <3>3
  <2>3. QED
    BY <2>1, <2>2
<1>22. Len(F) >= 1 /\ F[1] = Header(t, names[1])
  <2>1. CASE k = 1
    <3>1. Len(D) = 0
      BY <2>1 DEF LaidOut
    <3>2. QED
      BY <1>1, <1>7, <1>9, <2>1, <3>1
  <2>2. CASE k # 1
    <3>1. Len(D) >= 1 /\ D[1] = Header(t, names[1])
      BY <2>2 DEF LaidOut
    <3>2. QED
      BY <1>7, <3>1
  <2>3. QED
    BY <2>1, <2>2
<1>23. LaidOut(F, t, names, k)
  BY <1>14, <1>19, <1>20, <1>21, <1>22 DEF LaidOut
<1>24. QED
  BY <1>1, <1>2, <1>6, <1>23

\* f joins the members of the first k names.
Joins(f, t, names, k) == f[0] = <<>> /\ \A i \in 1 .. k : f[i] = f[i - 1] \o Member(t, names[i])
MembersOf(w, t, names) ==
  w = [i \in 0 .. Len(names) |-> IF i = 0 THEN <<>> ELSE w[i - 1] \o Member(t, names[i])]

\* There is such a function for any number of names.
LEMMA JoinsExists == \A t, names : \A n \in Nat : \E f : Joins(f, t, names, n)
<1> SUFFICES ASSUME NEW t, NEW names, NEW n \in Nat PROVE \E f : Joins(f, t, names, n)
  OBVIOUS
<1> DEFINE G == {p \in 0 .. n : \E f : Joins(f, t, names, p)}
<1>1. 0 \in G
  <2>1. Joins([p \in {0} |-> <<>>], t, names, 0)
    BY DEF Joins
  <2>2. QED
    BY <2>1
<1>2. ASSUME NEW p \in 0 + 1 .. n, p - 1 \in G
      PROVE  p \in G
  <2>1. PICK f : Joins(f, t, names, p - 1)
    BY <1>2
  <2> DEFINE h == [q \in 0 .. p |-> IF q = p THEN f[p - 1] \o Member(t, names[p]) ELSE f[q]]
  <2>2. h[0] = <<>>
    BY <2>1 DEF Joins
  <2>3. ASSUME NEW q \in 1 .. p
        PROVE  h[q] = h[q - 1] \o Member(t, names[q])
    <3>1. q \in 0 .. p /\ q - 1 \in 0 .. p /\ q - 1 # p
      OBVIOUS
    <3>2. h[q - 1] = f[q - 1]
      BY <3>1
    <3>3. CASE q = p
      BY <3>1, <3>2, <3>3
    <3>4. CASE q # p
      <4>1. q \in 1 .. p - 1
        BY <3>4
      <4>2. f[q] = f[q - 1] \o Member(t, names[q])
        BY <2>1, <4>1 DEF Joins
      <4>3. QED
        BY <3>1, <3>2, <3>4, <4>2
    <3>5. QED
      BY <3>3, <3>4
  <2> HIDE DEF h
  <2>4. Joins(h, t, names, p)
    BY <2>2, <2>3 DEF Joins
  <2>5. QED
    BY <2>4
<1> HIDE DEF G
<1>3. \A p \in 0 .. n : p \in G
  BY <1>1, <1>2, UpFrom
<1>4. QED
  BY <1>3 DEF G

\* Members lays out all the names.
LEMMA MembersLaid ==
  ASSUME NEW t \in Appends, NEW names \in Seq(Names), IsInjective(names)
  PROVE  LaidOut(Members(t, names), t, names, Len(names))
<1> DEFINE w == CHOOSE v : MembersOf(v, t, names)
           G == {k \in 0 .. Len(names) : LaidOut(w[k], t, names, k)}
<1>1. Len(names) \in Nat
  OBVIOUS
<1>2. MembersOf(w, t, names)
  <2>1. PICK f : Joins(f, t, names, Len(names))
    BY <1>1, JoinsExists
  <2> DEFINE v == [p \in 0 .. Len(names) |-> f[p]]
  <2>2. v = [p \in 0 .. Len(names) |-> v[p]]
    OBVIOUS
  <2>3. ASSUME NEW p \in 0 .. Len(names)
        PROVE  v[p] = IF p = 0 THEN <<>> ELSE v[p - 1] \o Member(t, names[p])
    <3>1. CASE p = 0
      BY <2>1, <3>1 DEF Joins
    <3>2. CASE p # 0
      <4>1. p \in 1 .. Len(names) /\ p - 1 \in 0 .. Len(names)
        BY <1>1, <3>2
      <4>2. f[p] = f[p - 1] \o Member(t, names[p])
        BY <2>1, <4>1 DEF Joins
      <4>3. QED
        BY <3>2, <4>1, <4>2
    <3>3. QED
      BY <3>1, <3>2
  <2> HIDE DEF v
  <2>4. v = [p \in 0 .. Len(names) |-> IF p = 0 THEN <<>> ELSE v[p - 1] \o Member(t, names[p])]
    BY <2>2, <2>3
  <2>5. \E u : MembersOf(u, t, names)
    BY <2>4 DEF MembersOf
  <2>6. QED
    BY <2>5, Zenon
<1>3. Members(t, names) = w[Len(names)]
  BY DEF Members, MembersOf
<1> HIDE DEF w
<1>4. 0 \in G
  <2>1. 0 \in 0 .. Len(names)
    BY <1>1
  <2>2. w[0] = <<>>
    BY <1>2, <2>1 DEF MembersOf
  <2>3. LaidOut(<<>>, t, names, 0)
    <3>1. <<>> \in Seq(Block) /\ Len(<<>>) = 0
      BY EmptySeq
    <3>2. QED
      BY <3>1 DEF LaidOut
  <2>4. QED
    BY <2>1, <2>2, <2>3
<1>5. ASSUME NEW k \in 0 + 1 .. Len(names), k - 1 \in G
      PROVE  k \in G
  <2>1. k \in 0 .. Len(names) /\ k # 0 /\ k \in 1 .. Len(names)
    BY <1>1
  <2>2. w[k] = w[k - 1] \o Member(t, names[k])
    BY <1>2, <2>1 DEF MembersOf
  <2>3. LaidOut(w[k - 1], t, names, k - 1)
    BY <1>5
  <2>4. LaidOut(w[k - 1] \o Member(t, names[k]), t, names, k)
    BY <2>1, <2>3, LaidOutNext
  <2>5. QED
    BY <2>1, <2>2, <2>4
<1> HIDE DEF G
<1>6. \A k \in 0 .. Len(names) : k \in G
  BY <1>1, <1>4, <1>5, UpFrom
<1>7. Len(names) \in G
  BY <1>1, <1>6
<1>8. QED
  BY <1>3, <1>7 DEF G

\* The blocks of transaction t: a member for each name of S, and the COMMIT record.
Transaction(P, t, S, replace) ==
  /\ P \in Seq(Block) /\ Len(P) \in Nat /\ Len(P) >= 3
  /\ \A i \in 1 .. Len(P) : Owner(P[i]) = t
  /\ P[1].kind = "data"
  /\ \A i \in 1 .. Len(P) - 2 : P[i].kind \in {"data", "payload"}
  /\ \A i \in 1 .. Len(P) - 2 : P[i].kind = "data" =>
       /\ P[i].name \in S /\ P[i].name \in Names /\ P[i] = Header(t, P[i].name)
       /\ i + Blocks[P[i].name] <= Len(P) - 2
       /\ \A j \in 1 .. Blocks[P[i].name] : P[i + j] = Payload(t, P[i].name)
       /\ i + Blocks[P[i].name] < Len(P) - 2 => P[i + Blocks[P[i].name] + 1].kind = "data"
  /\ \A i, j \in 1 .. Len(P) - 2 : P[i].kind = "data" /\ P[j].kind = "data" /\ P[i].name = P[j].name => i = j
  /\ \A n \in S : \E i \in 1 .. Len(P) - 2 : P[i] = Header(t, n)
  /\ P[Len(P) - 1] = CommitHeader(t)
  /\ P[Len(P)] = Rows(t, S, replace)

\* append_members writes the blocks of one transaction: its members and its record.
LEMMA TransactionBlocks ==
  ASSUME NEW t \in Appends, NEW names \in Seq(Names), IsInjective(names), names # <<>>,
         NEW replace \in BOOLEAN, NEW S, S = {names[i] : i \in DOMAIN names}
  PROVE  /\ Transaction(Members(t, names) \o Record(t, S, replace), t, S, replace)
         /\ Members(t, names) \in Seq(Block)
         /\ Len(Members(t, names) \o Record(t, S, replace)) = Len(Members(t, names)) + 2
<1>1. PICK D : D = Members(t, names)
  OBVIOUS
<1>2. LaidOut(D, t, names, Len(names))
  BY <1>1, MembersLaid
<1>3. D \in Seq(Block)
  BY <1>2 DEF LaidOut
<1>4. Len(names) \in Nat /\ Len(names) >= 1 /\ DOMAIN names = 1 .. Len(names)
  BY EmptySeq
<1>5. S \in SUBSET Names
  BY <1>4
<1>6. PICK R : R = Record(t, S, replace)
  OBVIOUS
<1>7. R \in Seq(Block) /\ Len(R) = 2 /\ R[1] = CommitHeader(t) /\ R[2] = Rows(t, S, replace)
  <2>1. CommitHeader(t) \in Block /\ Rows(t, S, replace) \in Block
    <3>1. names[1] \in Names
      BY <1>4
    <3>2. QED
      BY <1>5, <3>1, BlocksOfTransaction
  <2>2. QED
    BY <1>6, <2>1 DEF Record
<1>8. PICK P : P = D \o R
  OBVIOUS
<1>9. /\ P \in Seq(Block) /\ Len(P) = Len(D) + 2
      /\ \A i \in 1 .. Len(D) : P[i] = D[i]
      /\ \A i \in 1 .. 2 : P[Len(D) + i] = R[i]
  <2>1. /\ D \o R \in Seq(Block) /\ Len(D \o R) = Len(D) + Len(R)
        /\ \A i \in 1 .. Len(D) : (D \o R)[i] = D[i]
        /\ \A i \in 1 .. Len(R) : (D \o R)[Len(D) + i] = R[i]
    <3>1. D \in Seq(Block)
      BY <1>3
    <3>2. R \in Seq(Block)
      BY <1>7
    <3>3. QED
      BY <3>1, <3>2, JoinHolds
  <2>2. QED
    BY <1>7, <1>8, <2>1
<1>10. Len(D) \in Nat /\ Len(D) >= 1 /\ D[1] = Header(t, names[1]) /\ Len(P) - 2 = Len(D)
       /\ Len(P) - 1 = Len(D) + 1 /\ Len(P) = Len(D) + 2
  <2>1. Len(D) \in Nat
    BY <1>3
  <2>2. Len(D) >= 1 /\ D[1] = Header(t, names[1])
    BY <1>2, <1>4 DEF LaidOut
  <2>3. QED
    BY <1>9, <2>1, <2>2
<1>11. P[Len(P) - 1] = CommitHeader(t) /\ P[Len(P)] = Rows(t, S, replace)
  BY <1>7, <1>9, <1>10
<1>12. Owner(CommitHeader(t)) = t /\ Owner(Rows(t, S, replace)) = t /\ \A n : Header(t, n).kind = "data"
  BY DEF Owner, CommitHeader, Rows, Header
<1>13. \A i \in 1 .. Len(P) : i \in 1 .. Len(D) \/ i = Len(P) - 1 \/ i = Len(P)
  BY <1>10
<1>14. \A i \in 1 .. Len(P) : Owner(P[i]) = t
  BY <1>2, <1>9, <1>11, <1>12, <1>13 DEF LaidOut
<1>15. P[1].kind = "data"
  BY <1>9, <1>10, <1>12
<1>16. \A i \in 1 .. Len(D) : P[i].kind \in {"data", "payload"}
  BY <1>2, <1>9 DEF LaidOut
<1>17. \A i, j \in 1 .. Len(D) : P[i].kind = "data" /\ P[j].kind = "data" /\ P[i].name = P[j].name => i = j
  BY <1>2, <1>9 DEF LaidOut
<1>18. \A n \in S : \E i \in 1 .. Len(D) : P[i] = Header(t, n)
  <2>1. \A x \in 1 .. Len(names) : \E i \in 1 .. Len(D) : D[i] = Header(t, names[x])
    BY <1>2 DEF LaidOut
  <2>2. QED
    BY <1>4, <1>9, <2>1
<1>19. ASSUME NEW i \in 1 .. Len(D), P[i].kind = "data"
       PROVE  /\ P[i].name \in S /\ P[i].name \in Names /\ P[i] = Header(t, P[i].name)
              /\ i + Blocks[P[i].name] <= Len(D)
              /\ \A j \in 1 .. Blocks[P[i].name] : P[i + j] = Payload(t, P[i].name)
              /\ i + Blocks[P[i].name] < Len(D) => P[i + Blocks[P[i].name] + 1].kind = "data"
  <2>1. PICK x \in 1 .. Len(names) :
          /\ MemberAt(D, t, names[x], i)
          /\ i + Blocks[names[x]] + 1 <= Len(D) => D[i + Blocks[names[x]] + 1].kind = "data"
    BY <1>2, <1>9, <1>19 DEF LaidOut
  <2>2. PICK n \in Names : n = names[x]
    BY <1>4
  <2>3. PICK b \in Nat : b = Blocks[n]
    BY BlocksAssumption
  <2>4. P[i] = Header(t, n) /\ i + b <= Len(D) /\ \A j \in 1 .. b : D[i + j] = Payload(t, n)
    BY <1>9, <2>1, <2>2, <2>3 DEF MemberAt
  <2>5. P[i].name = n /\ n \in S
    BY <1>4, <2>2, <2>4 DEF Header
  <2>6. \A j \in 1 .. b : i + j \in 1 .. Len(D)
    BY <1>10, <2>4
  <2>7. i + b < Len(D) => i + b + 1 <= Len(D) /\ i + b + 1 \in 1 .. Len(D)
    BY <1>10
  <2>8. \A j \in 1 .. b : P[i + j] = Payload(t, n)
    BY <1>9, <2>4, <2>6
  <2>9. i + b < Len(D) => P[i + b + 1].kind = "data"
    BY <1>9, <2>1, <2>2, <2>3, <2>7
  <2>10. QED
    BY <2>3, <2>4, <2>5, <2>8, <2>9
<1>20. Transaction(P, t, S, replace)
  BY <1>9, <1>10, <1>11, <1>14, <1>15, <1>16, <1>17, <1>18, <1>19 DEF Transaction
<1>21. QED
  BY <1>1, <1>3, <1>6, <1>8, <1>9, <1>20

-----------------------------------------------------------------------------
(* The steps of an append *)

Put(at, b) == [op |-> "write", at |-> at, block |-> b]
Step == {Sync, SyncDirectory} \union {Put(at, b) : at \in Nat, b \in Block}

\* The steps are told apart by their fields.
LEMMA StepFields ==
  /\ Sync \in Step /\ Sync.op = "sync" /\ SyncDirectory \in Step /\ SyncDirectory.op = "directory"
  /\ \A at \in Nat, b \in Block : Put(at, b) \in Step
  /\ \A at, b : Put(at, b).op = "write" /\ Put(at, b).at = at /\ Put(at, b).block = b
<1>1. Sync \in Step /\ SyncDirectory \in Step /\ \A at \in Nat, b \in Block : Put(at, b) \in Step
  BY DEF Step
<1>2. Sync.op = "sync" /\ SyncDirectory.op = "directory"
  BY DEF Sync, SyncDirectory
<1>3. \A at, b : Put(at, b).op = "write" /\ Put(at, b).at = at /\ Put(at, b).block = b
  BY DEF Put
<1>4. QED
  BY <1>1, <1>2, <1>3

\* Writing blocks is one step for each.
LEMMA WriteSteps ==
  ASSUME NEW from \in Nat, NEW B \in Seq(Block)
  PROVE  /\ Write(from, B) \in Seq(Step) /\ Len(Write(from, B)) = Len(B)
         /\ \A i \in 1 .. Len(B) : Write(from, B)[i] = Put(from + i, B[i])
<1> DEFINE q == [i \in 1 .. Len(B) |-> Put(from + i, B[i])]
<1>1. Len(B) \in Nat /\ \A i \in 1 .. Len(B) : B[i] \in Block /\ from + i \in Nat
  OBVIOUS
<1>2. \A i \in 1 .. Len(B) : Put(from + i, B[i]) \in Step
  BY <1>1, StepFields
<1>3. q \in Seq(Step) /\ Len(q) = Len(B) /\ \A i \in 1 .. Len(B) : q[i] = Put(from + i, B[i])
  BY <1>1, <1>2
<1>4. Write(from, B) = q
  BY DEF Write, Put
<1> HIDE DEF q
<1>5. QED
  BY <1>3, <1>4

\* One step more.
LEMMA AndThen ==
  ASSUME NEW q \in Seq(Step), NEW s \in Step
  PROVE  /\ q \o <<s>> \in Seq(Step) /\ Len(q \o <<s>>) = Len(q) + 1
         /\ \A i \in 1 .. Len(q) : (q \o <<s>>)[i] = q[i]
         /\ (q \o <<s>>)[Len(q) + 1] = s
<1>1. <<s>> \in Seq(Step) /\ Len(<<s>>) = 1 /\ <<s>>[1] = s
  OBVIOUS
<1>2. PICK r \in Seq(Step) : r = <<s>>
  BY <1>1
<1>3. /\ q \o r \in Seq(Step) /\ Len(q \o r) = Len(q) + Len(r)
      /\ \A i \in 1 .. Len(q) : (q \o r)[i] = q[i]
      /\ \A i \in 1 .. Len(r) : (q \o r)[Len(q) + i] = r[i]
  BY JoinHolds
<1>4. Len(r) = 1 /\ r[1] = s /\ 1 \in 1 .. Len(r)
  BY <1>1, <1>2
<1>5. QED
  BY <1>2, <1>3, <1>4

\* Writing the footer over position e, and making it durable.
Footed(q, e) ==
  /\ q \in Seq(Step) /\ Len(q) = 3
  /\ q[1] = Put(e + 1, Zero) /\ q[2] = Put(e + 2, Zero) /\ q[3] = Sync

\* Clearing an old tail and undoing an append are the same three steps.
LEMMA FooterSteps ==
  ASSUME NEW e \in Nat
  PROVE  Footed(Clearing(e), e) /\ Footed(Undoing(e), e)
<1>1. PICK F : F = Footer
  OBVIOUS
<1>2. F \in Seq(Block)
  BY <1>1, ZeroIsFree DEF Footer
<1>3. Len(F) = 2 /\ F[1] = Zero /\ F[2] = Zero
  BY <1>1 DEF Footer
<1>4. PICK q : q = Write(e, F)
  OBVIOUS
<1>5. q \in Seq(Step) /\ Len(q) = 2 /\ q[1] = Put(e + 1, Zero) /\ q[2] = Put(e + 2, Zero)
  <2>1. q \in Seq(Step) /\ Len(q) = Len(F) /\ \A i \in 1 .. Len(F) : q[i] = Put(e + i, F[i])
    BY <1>2, <1>4, WriteSteps
  <2>2. 1 \in 1 .. Len(F) /\ 2 \in 1 .. Len(F)
    BY <1>3
  <2>3. QED
    BY <1>3, <2>1, <2>2
<1>6. q \o <<Sync>> \in Seq(Step) /\ Len(q \o <<Sync>>) = 3
      /\ (\A i \in 1 .. 2 : (q \o <<Sync>>)[i] = q[i]) /\ (q \o <<Sync>>)[3] = Sync
  <2>1. q \in Seq(Step) /\ Sync \in Step
    BY <1>5, StepFields
  <2>2. /\ q \o <<Sync>> \in Seq(Step) /\ Len(q \o <<Sync>>) = Len(q) + 1
        /\ \A i \in 1 .. Len(q) : (q \o <<Sync>>)[i] = q[i]
        /\ (q \o <<Sync>>)[Len(q) + 1] = Sync
    BY <2>1, AndThen
  <2>3. QED
    BY <1>5, <2>2
<1>7. Footed(q \o <<Sync>>, e)
  BY <1>5, <1>6 DEF Footed
<1>8. QED
  BY <1>1, <1>4, <1>7 DEF Clearing, Undoing

\* The steps q of an append of the blocks P at e, behind the c steps that clear its place.
Stepped(q, e, P, c) ==
  /\ q \in Seq(Step) /\ Len(q) \in {c + Len(P) + 4, c + Len(P) + 5}
  /\ c = 0 \/ (c = 3 /\ q[1] = Put(e + 1, Zero) /\ q[2] = Put(e + 2, Zero) /\ q[3] = Sync)
  /\ \A i \in 1 .. Len(P) - 2 : q[c + i] = Put(e + i, P[i])
  /\ q[c + Len(P) - 1] = Sync
  /\ q[c + Len(P)] = Put(e + Len(P) - 1, P[Len(P) - 1])
  /\ q[c + Len(P) + 1] = Put(e + Len(P), P[Len(P)])
  /\ q[c + Len(P) + 2] = Put(e + Len(P) + 1, Zero)
  /\ q[c + Len(P) + 3] = Put(e + Len(P) + 2, Zero)
  /\ q[c + Len(P) + 4] = Sync
  /\ Len(q) = c + Len(P) + 5 => q[Len(q)] = SyncDirectory

\* First without the clearing.
LEMMA AppendingSteps ==
  ASSUME NEW t \in Appends, NEW names, NEW replace, NEW e \in Nat, NEW created \in BOOLEAN,
         NEW S, S = {names[i] : i \in DOMAIN names}, Members(t, names) \in Seq(Block),
         CommitHeader(t) \in Block, Rows(t, S, replace) \in Block
  PROVE  Stepped(Appending(t, names, replace, e, created), e, Members(t, names) \o Record(t, S, replace), 0)
<1>1. PICK D \in Seq(Block) : D = Members(t, names)
  OBVIOUS
<1>2. PICK M \in Nat : M = Len(D)
  OBVIOUS
<1>3. PICK R : R = Record(t, S, replace)
  OBVIOUS
<1>4. R \in Seq(Block)
  BY <1>3 DEF Record
<1>5. Len(R) = 2
  BY <1>3 DEF Record
<1>6. PICK P : P = D \o R
  OBVIOUS
<1>7. /\ P \in Seq(Block) /\ Len(P) = M + 2
      /\ \A i \in 1 .. M : P[i] = D[i]
      /\ P[M + 1] = R[1] /\ P[M + 2] = R[2]
  <2>1. /\ D \o R \in Seq(Block) /\ Len(D \o R) = Len(D) + Len(R)
        /\ \A i \in 1 .. Len(D) : (D \o R)[i] = D[i]
        /\ \A i \in 1 .. Len(R) : (D \o R)[Len(D) + i] = R[i]
    BY <1>4, JoinHolds
  <2>2. 1 \in 1 .. Len(R) /\ 2 \in 1 .. Len(R)
    BY <1>5
  <2>3. QED
    BY <1>2, <1>5, <1>6, <2>1, <2>2
<1>8. PICK T : T = R \o Footer
  OBVIOUS
<1>9. T \in Seq(Block) /\ Len(T) = 4 /\ T[1] = R[1] /\ T[2] = R[2] /\ T[3] = Zero /\ T[4] = Zero
  <2>1. PICK F : F = Footer
    OBVIOUS
  <2>2. F \in Seq(Block)
    BY <2>1, ZeroIsFree DEF Footer
  <2>3. Len(F) = 2 /\ F[1] = Zero /\ F[2] = Zero
    BY <2>1 DEF Footer
  <2>4. /\ R \o F \in Seq(Block) /\ Len(R \o F) = Len(R) + Len(F)
        /\ \A i \in 1 .. Len(R) : (R \o F)[i] = R[i]
        /\ \A i \in 1 .. Len(F) : (R \o F)[Len(R) + i] = F[i]
    BY <1>4, <2>2, JoinHolds
  <2>5. 1 \in 1 .. 2 /\ 2 \in 1 .. 2
    OBVIOUS
  <2>6. T = R \o F
    BY <1>8, <2>1
  <2>7. T[1] = R[1] /\ T[2] = R[2] /\ T[3] = F[1] /\ T[4] = F[2]
    BY <1>5, <2>3, <2>4, <2>5, <2>6
  <2>8. QED
    BY <1>5, <2>3, <2>4, <2>6, <2>7
<1>10. PICK q1 : q1 = Write(e, D)
  OBVIOUS
<1>11. q1 \in Seq(Step) /\ Len(q1) = M /\ \A i \in 1 .. M : q1[i] = Put(e + i, D[i])
  BY <1>2, <1>10, WriteSteps
<1>12. PICK q2 : q2 = q1 \o <<Sync>>
  OBVIOUS
<1>13. q2 \in Seq(Step) /\ Len(q2) = M + 1 /\ (\A i \in 1 .. M : q2[i] = q1[i]) /\ q2[M + 1] = Sync
  <2>1. q1 \in Seq(Step) /\ Sync \in Step
    BY <1>11, StepFields
  <2>2. /\ q1 \o <<Sync>> \in Seq(Step) /\ Len(q1 \o <<Sync>>) = Len(q1) + 1
        /\ \A i \in 1 .. Len(q1) : (q1 \o <<Sync>>)[i] = q1[i]
        /\ (q1 \o <<Sync>>)[Len(q1) + 1] = Sync
    BY <2>1, AndThen
  <2>3. QED
    BY <1>11, <1>12, <2>2
<1>14. PICK w : w = Write(e + M, T)
  OBVIOUS
<1>15. w \in Seq(Step) /\ Len(w) = 4 /\ \A i \in 1 .. 4 : w[i] = Put(e + M + i, T[i])
  <2>1. e + M \in Nat /\ T \in Seq(Block)
    BY <1>9
  <2>2. QED
    BY <1>9, <1>14, <2>1, WriteSteps
<1>16. PICK q3 : q3 = q2 \o w
  OBVIOUS
<1>17. q3 \in Seq(Step) /\ Len(q3) = M + 5 /\ (\A i \in 1 .. M + 1 : q3[i] = q2[i])
       /\ \A i \in 1 .. 4 : q3[M + 1 + i] = w[i]
  <2>1. q2 \in Seq(Step) /\ w \in Seq(Step)
    BY <1>13, <1>15
  <2>2. /\ q2 \o w \in Seq(Step) /\ Len(q2 \o w) = Len(q2) + Len(w)
        /\ \A i \in 1 .. Len(q2) : (q2 \o w)[i] = q2[i]
        /\ \A i \in 1 .. Len(w) : (q2 \o w)[Len(q2) + i] = w[i]
    BY <2>1, JoinHolds
  <2>3. Len(q2 \o w) = M + 5 /\ \A i \in 1 .. 4 : (q2 \o w)[M + 1 + i] = w[i]
    BY <1>13, <1>15, <2>2
  <2>4. QED
    BY <1>13, <1>16, <2>2, <2>3
<1>18. PICK q4 : q4 = q3 \o <<Sync>>
  OBVIOUS
<1>19. q4 \in Seq(Step) /\ Len(q4) = M + 6 /\ (\A i \in 1 .. M + 5 : q4[i] = q3[i]) /\ q4[M + 6] = Sync
  <2>1. q3 \in Seq(Step) /\ Sync \in Step
    BY <1>17, StepFields
  <2>2. /\ q3 \o <<Sync>> \in Seq(Step) /\ Len(q3 \o <<Sync>>) = Len(q3) + 1
        /\ \A i \in 1 .. Len(q3) : (q3 \o <<Sync>>)[i] = q3[i]
        /\ (q3 \o <<Sync>>)[Len(q3) + 1] = Sync
    BY <2>1, AndThen
  <2>3. Len(q3) = M + 5
    BY <1>17
  <2>4. PICK one : one = q3 \o <<Sync>>
    OBVIOUS
  <2>5. one \in Seq(Step) /\ Len(one) = M + 6 /\ (\A i \in 1 .. M + 5 : one[i] = q3[i]) /\ one[M + 6] = Sync
    BY <2>2, <2>3, <2>4
  <2>6. QED
    BY <1>18, <2>4, <2>5
<1>20. PICK q : q = IF created THEN q4 \o <<SyncDirectory>> ELSE q4 \o <<>>
  OBVIOUS
<1>21. q \in Seq(Step) /\ Len(q) \in {M + 6, M + 7} /\ (\A i \in 1 .. M + 6 : q[i] = q4[i])
       /\ (Len(q) = M + 7 => q[M + 7] = SyncDirectory)
  <2>1. q4 \in Seq(Step) /\ SyncDirectory \in Step
    BY <1>19, StepFields
  <2>2. /\ q4 \o <<SyncDirectory>> \in Seq(Step) /\ Len(q4 \o <<SyncDirectory>>) = Len(q4) + 1
        /\ \A i \in 1 .. Len(q4) : (q4 \o <<SyncDirectory>>)[i] = q4[i]
        /\ (q4 \o <<SyncDirectory>>)[Len(q4) + 1] = SyncDirectory
    BY <2>1, AndThen
  <2>3. q4 \o <<>> = q4
    BY <2>1, ConcatEmptySeq
  <2>4. CASE created
    BY <1>19, <1>20, <2>2, <2>4
  <2>5. CASE ~created
    BY <1>19, <1>20, <2>3, <2>5
  <2>6. QED
    BY <2>4, <2>5
<1>22. Appending(t, names, replace, e, created) = q
  <2>1. Appending(t, names, replace, e, created)
          = q4 \o (IF created THEN <<SyncDirectory>> ELSE <<>>)
    BY <1>1, <1>2, <1>3, <1>8, <1>10, <1>12, <1>14, <1>16, <1>18 DEF Appending
  <2>2. QED
    BY <1>20, <2>1
<1>23. \A i \in 1 .. M : q[i] = Put(e + i, P[i])
  <2> SUFFICES ASSUME NEW i \in 1 .. M PROVE q[i] = Put(e + i, P[i])
    OBVIOUS
  <2>1. i \in 1 .. M + 6 /\ i \in 1 .. M + 5 /\ i \in 1 .. M + 1
    OBVIOUS
  <2>2. q[i] = q4[i] /\ q4[i] = q3[i] /\ q3[i] = q2[i]
    BY <1>17, <1>19, <1>21, <2>1
  <2>3. q2[i] = q1[i] /\ q1[i] = Put(e + i, D[i]) /\ P[i] = D[i]
    BY <1>7, <1>11, <1>13
  <2>4. QED
    BY <2>2, <2>3
<1>24. q[M + 1] = Sync /\ q[M + 6] = Sync
  <2>1. M + 1 \in 1 .. M + 6 /\ M + 1 \in 1 .. M + 5 /\ M + 1 \in 1 .. M + 1 /\ M + 6 \in 1 .. M + 6
    OBVIOUS
  <2>2. q[M + 1] = q4[M + 1] /\ q4[M + 1] = q3[M + 1] /\ q3[M + 1] = q2[M + 1] /\ q[M + 6] = q4[M + 6]
    BY <1>17, <1>19, <1>21, <2>1
  <2>3. QED
    BY <1>13, <1>19, <2>2
<1>25. \A i \in 1 .. 4 : q[M + 1 + i] = Put(e + M + i, T[i])
  <2> SUFFICES ASSUME NEW i \in 1 .. 4 PROVE q[M + 1 + i] = Put(e + M + i, T[i])
    OBVIOUS
  <2>1. M + 1 + i \in 1 .. M + 6 /\ M + 1 + i \in 1 .. M + 5
    OBVIOUS
  <2>2. q[M + 1 + i] = q4[M + 1 + i] /\ q4[M + 1 + i] = q3[M + 1 + i]
    BY <1>19, <1>21, <2>1
  <2>3. q3[M + 1 + i] = w[i] /\ w[i] = Put(e + M + i, T[i])
    BY <1>15, <1>17
  <2>4. QED
    BY <2>2, <2>3
<1>26. /\ q[M + 2] = Put(e + M + 1, P[M + 1]) /\ q[M + 3] = Put(e + M + 2, P[M + 2])
       /\ q[M + 4] = Put(e + M + 3, Zero) /\ q[M + 5] = Put(e + M + 4, Zero)
  <2>1. M + 1 + 1 = M + 2 /\ M + 1 + 2 = M + 3 /\ M + 1 + 3 = M + 4 /\ M + 1 + 4 = M + 5
    OBVIOUS
  <2>2. 1 \in 1 .. 4 /\ 2 \in 1 .. 4 /\ 3 \in 1 .. 4 /\ 4 \in 1 .. 4
    OBVIOUS
  <2>3. q[M + 2] = Put(e + M + 1, T[1]) /\ q[M + 3] = Put(e + M + 2, T[2])
    BY <1>25, <2>1, <2>2
  <2>4. q[M + 4] = Put(e + M + 3, T[3]) /\ q[M + 5] = Put(e + M + 4, T[4])
    BY <1>25, <2>1, <2>2
  <2>5. T[1] = P[M + 1] /\ T[2] = P[M + 2] /\ T[3] = Zero /\ T[4] = Zero
    BY <1>7, <1>9
  <2>6. QED
    BY <2>3, <2>4, <2>5
<1>27. Stepped(q, e, P, 0)
  <2>1. /\ Len(P) - 2 = M /\ Len(P) - 1 = M + 1 /\ 0 + Len(P) + 4 = M + 6 /\ 0 + Len(P) + 5 = M + 7
        /\ 0 + Len(P) - 1 = M + 1 /\ 0 + Len(P) = M + 2 /\ 0 + Len(P) + 1 = M + 3
        /\ 0 + Len(P) + 2 = M + 4 /\ 0 + Len(P) + 3 = M + 5
        /\ e + Len(P) - 1 = e + M + 1 /\ e + Len(P) = e + M + 2 /\ e + Len(P) + 1 = e + M + 3
        /\ e + Len(P) + 2 = e + M + 4 /\ \A i \in 1 .. M : 0 + i = i
    BY <1>7
  <2>2. Len(P) = M + 2
    BY <1>7
  <2>3. QED
    BY <1>21, <1>23, <1>24, <1>26, <2>1, <2>2 DEF Stepped
<1>28. QED
  BY <1>1, <1>3, <1>6, <1>22, <1>27

\* With the clearing before it, if there is one.
LEMMA ClearedSteps ==
  ASSUME NEW q \in Seq(Step), NEW e \in Nat, NEW P, Len(P) \in Nat, Len(P) >= 3, Stepped(q, e, P, 0),
         NEW k, Footed(k, e)
  PROVE  Stepped(k \o q, e, P, 3)
<1>1. PICK L \in Nat : L = Len(P)
  OBVIOUS
<1>2. L >= 3 /\ Len(q) \in {L + 4, L + 5}
  BY <1>1 DEF Stepped
<1>3. PICK r : r = k \o q
  OBVIOUS
<1>4. /\ r \in Seq(Step) /\ Len(r) = 3 + Len(q)
      /\ \A i \in 1 .. 3 : r[i] = k[i]
      /\ \A i \in 1 .. Len(q) : r[3 + i] = q[i]
  <2>1. k \in Seq(Step)
    BY DEF Footed
  <2>2. Len(k) = 3
    BY DEF Footed
  <2>3. /\ k \o q \in Seq(Step) /\ Len(k \o q) = Len(k) + Len(q)
        /\ \A i \in 1 .. Len(k) : (k \o q)[i] = k[i]
        /\ \A i \in 1 .. Len(q) : (k \o q)[Len(k) + i] = q[i]
    BY <2>1, JoinHolds
  <2>4. QED
    BY <1>3, <2>2, <2>3
<1>5. r[1] = Put(e + 1, Zero) /\ r[2] = Put(e + 2, Zero) /\ r[3] = Sync
  <2>1. 1 \in 1 .. 3 /\ 2 \in 1 .. 3 /\ 3 \in 1 .. 3
    OBVIOUS
  <2>2. QED
    BY <1>4, <2>1 DEF Footed
<1>6. \A i \in 1 .. L - 2 : r[3 + i] = Put(e + i, P[i])
  <2> SUFFICES ASSUME NEW i \in 1 .. L - 2 PROVE r[3 + i] = Put(e + i, P[i])
    OBVIOUS
  <2>1. i \in 1 .. Len(q) /\ 0 + i = i
    BY <1>2
  <2>2. q[0 + i] = Put(e + i, P[i])
    BY <1>1 DEF Stepped
  <2>3. QED
    BY <1>4, <2>1, <2>2
<1>7. \A j \in -1 .. 4 : L + j \in 1 .. Len(q) /\ 3 + (L + j) = 3 + L + j
  BY <1>2
<1>8. \A j \in -1 .. 4 : r[3 + L + j] = q[L + j]
  BY <1>4, <1>7
<1>9. /\ q[L - 1] = Sync
      /\ q[L] = Put(e + L - 1, P[L - 1])
      /\ q[L + 1] = Put(e + L, P[L])
      /\ q[L + 2] = Put(e + L + 1, Zero)
      /\ q[L + 3] = Put(e + L + 2, Zero)
      /\ q[L + 4] = Sync
      /\ Len(q) = L + 5 => q[Len(q)] = SyncDirectory
  <2>1. 0 + L = L
    BY <1>1
  <2>2. QED
    BY <1>1, <2>1 DEF Stepped
<1>10. /\ r[3 + L - 1] = q[L - 1] /\ r[3 + L] = q[L] /\ r[3 + L + 1] = q[L + 1] /\ r[3 + L + 2] = q[L + 2]
       /\ r[3 + L + 3] = q[L + 3] /\ r[3 + L + 4] = q[L + 4]
  <2>1. -1 \in -1 .. 4 /\ 0 \in -1 .. 4 /\ 1 \in -1 .. 4 /\ 2 \in -1 .. 4 /\ 3 \in -1 .. 4 /\ 4 \in -1 .. 4
    OBVIOUS
  <2>2. L + (-1) = L - 1 /\ 3 + L + (-1) = 3 + L - 1 /\ L + 0 = L /\ 3 + L + 0 = 3 + L
    OBVIOUS
  <2>3. QED
    BY <1>8, <2>1, <2>2
<1>11. Len(r) = 3 + L + 5 => r[Len(r)] = SyncDirectory
  <2>1. ASSUME Len(r) = 3 + L + 5 PROVE Len(q) \in 1 .. Len(q) /\ Len(q) = L + 5 /\ Len(r) = 3 + Len(q)
    BY <1>2, <1>4, <2>1
  <2>2. QED
    BY <1>4, <1>9, <2>1
<1>12. Len(r) \in {3 + L + 4, 3 + L + 5}
  BY <1>2, <1>4
<1>13. Stepped(r, e, P, 3)
  BY <1>1, <1>4, <1>5, <1>6, <1>9, <1>10, <1>11, <1>12 DEF Stepped
<1>14. QED
  BY <1>3, <1>13

-----------------------------------------------------------------------------
(* What the walk finds in a content made of the blocks of the plans d *)

\* The plan of an append: where it starts, its blocks and its steps, the first `clear` of
\* which clear the place.  An append that has not begun has none yet.
Plans ==
  [Appends -> [start : Nat, blocks : Seq(Block), replace : BOOLEAN, clear : Nat, steps : Seq(Step)]]
Fin(d, t) == d[t].start + Len(d[t].blocks)
Known(d) ==
  /\ d \in Plans
  /\ \A t \in Appends : fate[t] # "new" =>
       /\ Transaction(d[t].blocks, t, asked[t], d[t].replace)
       /\ Stepped(d[t].steps, d[t].start, d[t].blocks, d[t].clear)

\* Block p of the content belongs to t.
Is(c, p, t) == p \in 1 .. Len(c) /\ Owner(c[p]) = t

\* The walk is between two transactions after p blocks.
Clean(c, p) ==
  /\ p \in 0 .. Len(c)
  /\ At(c, p).state = "header" /\ At(c, p).call = 0 /\ At(c, p).pending = <<>> /\ At(c, p).end = p

\* A block that belongs to an append lies where its plan has it.
Faithful(d, c) ==
  /\ c \in Seq(Block)
  /\ \A p \in 1 .. Len(c) : Owner(c[p]) # 0 =>
       /\ fate[Owner(c[p])] # "new"
       /\ p > d[Owner(c[p])].start /\ p <= Fin(d, Owner(c[p]))
       /\ c[p] = d[Owner(c[p])].blocks[p - d[Owner(c[p])].start]

\* Of two appends in one content the later one starts no earlier in the file.
Layered(d, c) ==
  \A p, q \in 1 .. Len(c) : 0 < Owner(c[p]) /\ Owner(c[p]) < Owner(c[q]) =>
    d[Owner(c[p])].start <= d[Owner(c[q])].start

\* The header of n that t wrote lies at q, and the entry points there.
Points(c, entry, t, n, q) ==
  q \in 1 .. Len(c) /\ c[q] = Header(t, n) /\ entry = [call |-> t, at |-> q]

\* Between two transactions nothing is pending; inside one, its first block follows the
\* end of the committed prefix and the pending members are headers of it.
Inside(c, s, p) ==
  s.state \in {"header", "payload", "rows"} =>
    IF s.call = 0
    THEN s.state = "header" /\ s.pending = <<>> /\ s.end = p
    ELSE /\ s.call \in Appends /\ s.end < p /\ Is(c, s.end + 1, s.call)
         /\ \A n \in DOMAIN s.pending : /\ n \in Names
                                        /\ \E q \in s.end + 1 .. p : Points(c, s.pending[n], s.call, n, q)

\* A committed transaction has its first and last block in the committed prefix.
Committed(d, c, s) ==
  \A t \in s.calls : /\ t \in Appends /\ Is(c, d[t].start + 1, t) /\ Is(c, Fin(d, t), t)
                     /\ Fin(d, t) <= s.end

\* Each name is shown as the last committed transaction that wrote it has it.
Shown(c, s) ==
  \A n \in Names :
    \/ s.entries[n] = NoEntry /\ \A u \in s.calls : n \notin asked[u]
    \/ \E t \in s.calls, q \in 1 .. Len(c) :
         /\ n \in asked[t] /\ Points(c, s.entries[n], t, n, q) /\ q <= s.end
         /\ \A u \in s.calls : n \in asked[u] => u <= t

Reading(d, c, s, p) ==
  /\ Shaped(s) /\ Inside(c, s, p) /\ s.end \in 0 .. p /\ Clean(c, s.end)
  /\ Committed(d, c, s) /\ Shown(c, s)

\* The plan of the append a block belongs to.
Owned(d, c, p, t, e, P) ==
  /\ e = d[t].start /\ P = d[t].blocks /\ Fin(d, t) = e + Len(P)
  /\ Transaction(P, t, asked[t], d[t].replace) /\ Len(P) \in Nat /\ Len(P) >= 3
  /\ p - e \in 1 .. Len(P) /\ c[p] = P[p - e]

\* The plan of a call that has begun.
LEMMA PlanKnown ==
  ASSUME NEW d, Known(d), NEW t \in Appends, fate[t] # "new"
  PROVE  \E e \in Nat, P \in Seq(Block) :
           /\ e = d[t].start /\ P = d[t].blocks /\ Fin(d, t) = e + Len(P)
           /\ Transaction(P, t, asked[t], d[t].replace) /\ Len(P) \in Nat /\ Len(P) >= 3
<1>1. PICK e \in Nat : e = d[t].start
  BY DEF Known, Plans
<1>2. PICK P \in Seq(Block) : P = d[t].blocks
  BY DEF Known, Plans
<1>3. Transaction(P, t, asked[t], d[t].replace)
  BY <1>2 DEF Known
<1>4. Len(P) \in Nat /\ Len(P) >= 3
  BY <1>3 DEF Transaction
<1>5. QED
  BY <1>1, <1>2, <1>3, <1>4 DEF Fin

\* A block of an append has its place in the plan of that append.
LEMMA OwnerPlan ==
  ASSUME NEW d, Known(d), NEW c, Faithful(d, c), NEW p \in 1 .. Len(c), NEW t, Owner(c[p]) = t, t # 0
  PROVE  /\ t \in Appends /\ fate[t] # "new"
         /\ \E e \in Nat, P \in Seq(Block) : Owned(d, c, p, t, e, P)
<1>1. c[p] \in Block
  BY DEF Faithful
<1>2. t \in Appends
  BY <1>1, BlockFields DEF Blocklike
<1>3. fate[t] # "new" /\ p > d[t].start /\ p <= Fin(d, t) /\ c[p] = d[t].blocks[p - d[t].start]
  BY DEF Faithful
<1>4. PICK e \in Nat, P \in Seq(Block) :
           /\ e = d[t].start /\ P = d[t].blocks /\ Fin(d, t) = e + Len(P)
           /\ Transaction(P, t, asked[t], d[t].replace) /\ Len(P) \in Nat /\ Len(P) >= 3
  BY <1>2, <1>3, PlanKnown
<1>5. p > e /\ p <= e + Len(P) /\ c[p] = P[p - e]
  BY <1>3, <1>4
<1>6. p - e \in 1 .. Len(P)
  BY <1>4, <1>5
<1>7. QED
  BY <1>2, <1>3, <1>4, <1>5, <1>6 DEF Owned

\* The rows of an append are the last block of its plan.
LEMMA OwnerRows ==
  ASSUME NEW d, Known(d), NEW c, Faithful(d, c), NEW p \in 1 .. Len(c), c[p].kind = "rows",
         NEW t, Owner(c[p]) = t, t # 0
  PROVE  p = Fin(d, t) /\ c[p] = Rows(t, asked[t], d[t].replace)
<1>1. PICK e \in Nat, P \in Seq(Block) : Owned(d, c, p, t, e, P)
  BY OwnerPlan
<1>2. Fin(d, t) = e + Len(P)
  BY <1>1 DEF Owned
<1>3. Transaction(P, t, asked[t], d[t].replace) /\ Len(P) \in Nat
  BY <1>1 DEF Owned
<1>4. p - e \in 1 .. Len(P) /\ P[p - e] = c[p]
  BY <1>1 DEF Owned
<1>5. p - e \notin 1 .. Len(P) - 2
  BY <1>3, <1>4 DEF Transaction
<1>6. p - e # Len(P) - 1
  BY <1>3, <1>4 DEF Transaction, CommitHeader
<1>7. p - e = Len(P)
  BY <1>3, <1>4, <1>5, <1>6
<1>8. P[Len(P)] = Rows(t, asked[t], d[t].replace)
  BY <1>3 DEF Transaction
<1>9. QED
  BY <1>2, <1>3, <1>4, <1>7, <1>8

\* Rows are accepted only where their transaction follows the committed prefix.
LEMMA RowsAtStart ==
  ASSUME NEW d, Known(d), NEW c, Faithful(d, c), NEW p \in 1 .. Len(c), NEW s,
         Inside(c, s, p - 1), s.end \in 0 .. p - 1, s.state = "rows", ~Mismatch(s, c[p])
  PROVE  /\ s.call \in Appends /\ s.call # 0 /\ s.end = d[s.call].start /\ p = Fin(d, s.call)
         /\ c[p].names = asked[s.call] /\ DOMAIN s.pending = asked[s.call] /\ c[p].call = s.call
         /\ Is(c, s.end + 1, s.call) /\ Is(c, p, s.call)
<1>1. PICK t : t = s.call
  OBVIOUS
<1>2. t # 0 /\ t \in Appends /\ Is(c, s.end + 1, t)
  <2>1. t # 0
    BY <1>1 DEF Inside
  <2>2. QED
    BY <1>1, <2>1 DEF Inside
<1>3. c[p].kind = "rows" /\ c[p].call = t /\ c[p].names = DOMAIN s.pending
  BY <1>1 DEF Mismatch
<1>4. Owner(c[p]) = t
  BY <1>3 DEF Owner
<1>5. p = Fin(d, t) /\ c[p] = Rows(t, asked[t], d[t].replace)
  BY <1>2, <1>3, <1>4, OwnerRows
<1>6. DOMAIN s.pending = asked[t]
  BY <1>3, <1>5 DEF Rows
<1>7. PICK e \in Nat, P \in Seq(Block) : Owned(d, c, p, t, e, P)
  BY <1>2, <1>4, OwnerPlan
<1>8. e = d[t].start
  BY <1>7 DEF Owned
<1>9. Transaction(P, t, asked[t], d[t].replace) /\ Len(P) \in Nat /\ Len(P) >= 3
  BY <1>7 DEF Owned
<1>10. PICK n : n = P[1].name
  OBVIOUS
<1>11. n \in asked[t] /\ P[1] = Header(t, n)
  <2>1. 1 \in 1 .. Len(P) - 2
    BY <1>9
  <2>2. QED
    BY <1>9, <1>10, <2>1 DEF Transaction
<1>12. PICK q \in s.end + 1 .. p - 1 : Points(c, s.pending[n], t, n, q)
  BY <1>1, <1>2, <1>6, <1>11 DEF Inside
<1>13. q \in 1 .. Len(c) /\ c[q] = Header(t, n)
  BY <1>12 DEF Points
<1>14. Owner(c[q]) = t
  BY <1>13 DEF Owner, Header
<1>15. q - e \in 1 .. Len(P) /\ P[q - e] = Header(t, n)
  <2>1. PICK f \in Nat, Q \in Seq(Block) : Owned(d, c, q, t, f, Q)
    BY <1>2, <1>13, <1>14, OwnerPlan
  <2>2. f = e /\ Q = P
    BY <1>7, <2>1 DEF Owned
  <2>3. QED
    BY <1>13, <2>1, <2>2 DEF Owned
<1>16. q - e = 1
  <2>1. P[Len(P)] # Header(t, n) /\ P[Len(P) - 1] # Header(t, n)
    BY <1>9 DEF Transaction, CommitHeader, Rows, Header
  <2>2. q - e \in 1 .. Len(P) - 2 /\ 1 \in 1 .. Len(P) - 2
    <3>1. PICK x : x = q - e
      OBVIOUS
    <3>2. PICK L \in Nat : L = Len(P) /\ L >= 3
      BY <1>9
    <3>3. x \in 1 .. L /\ x # L /\ x # L - 1
      BY <1>15, <2>1, <3>1, <3>2
    <3>4. x \in 1 .. L - 2 /\ 1 \in 1 .. L - 2
      BY <3>2, <3>3
    <3>5. QED
      BY <3>1, <3>2, <3>4
  <2>3. P[q - e].kind = "data" /\ P[1].kind = "data" /\ P[q - e].name = P[1].name
    BY <1>11, <1>15 DEF Header
  <2>4. QED
    BY <1>9, <2>2, <2>3 DEF Transaction
<1>17. s.end + 1 \in 1 .. Len(c) /\ Owner(c[s.end + 1]) = t
  BY <1>2 DEF Is
<1>18. s.end + 1 > e
  BY <1>2, <1>8, <1>17 DEF Faithful
<1>19. s.end = e
  BY <1>8, <1>12, <1>16, <1>18
<1>20. QED
  BY <1>1, <1>2, <1>3, <1>4, <1>5, <1>6, <1>8, <1>19 DEF Is, Rows

\* A block that settles nothing leaves the reading as it is.
LEMMA SettledKeeps ==
  ASSUME NEW d, NEW c, NEW p \in Nat, NEW s, Reading(d, c, s, p), NEW r, Shaped(r), Settled(s, r),
         Inside(c, r, p + 1)
  PROVE  Reading(d, c, r, p + 1)
<1>1. r.end \in 0 .. p + 1 /\ Clean(c, r.end)
  BY DEF Reading, Settled
<1>2. Committed(d, c, r)
  BY DEF Reading, Settled, Committed
<1>3. Shown(c, r)
  BY DEF Reading, Settled, Shown
<1>4. QED
  BY <1>1, <1>2, <1>3 DEF Reading

\* Inside a transaction the pending members stay where they are.
LEMMA AlikeKeeps ==
  ASSUME NEW c, NEW p \in Nat, NEW s, Inside(c, s, p), s.end \in 0 .. p, NEW r, Alike(s, r), s.call # 0,
         s.state \in {"header", "payload", "rows"}
  PROVE  Inside(c, r, p + 1)
<1>1. /\ s.call \in Appends /\ s.end < p /\ Is(c, s.end + 1, s.call)
      /\ \A n \in DOMAIN s.pending : /\ n \in Names
                                     /\ \E q \in s.end + 1 .. p : Points(c, s.pending[n], s.call, n, q)
  BY DEF Inside
<1>2. r.end = s.end /\ r.call = s.call /\ r.pending = s.pending
  BY DEF Alike, Settled
<1>3. \A q \in s.end + 1 .. p : q \in s.end + 1 .. p + 1
  OBVIOUS
<1>4. r.end < p + 1
  BY <1>1, <1>2
<1>5. \A n \in DOMAIN r.pending : /\ n \in Names
                                  /\ \E q \in r.end + 1 .. p + 1 : Points(c, r.pending[n], r.call, n, q)
  BY <1>1, <1>2, <1>3
<1>6. QED
  BY <1>1, <1>2, <1>4, <1>5 DEF Inside

\* A header that is taken opens a transaction or belongs to the open one.
LEMMA TakenKeeps ==
  ASSUME NEW c, c \in Seq(Block), NEW p \in Nat, p + 1 <= Len(c), NEW s, Inside(c, s, p), s.end \in 0 .. p,
         NEW r, Taken(s, c[p + 1], p + 1, r), s.state = "header", c[p + 1].kind = "data",
         ~Refused(s, c[p + 1])
  PROVE  Inside(c, r, p + 1)
<1>1. p + 1 \in 1 .. Len(c) /\ c[p + 1] \in Block
  OBVIOUS
<1>2. PICK b \in Block : b = c[p + 1]
  BY <1>1
<1>3. Blocklike(b) /\ b.kind = "data"
  BY <1>2, BlockFields
<1>4. PICK t : t = b.call
  OBVIOUS
<1>5. Owner(b) = t /\ t \in Appends /\ t # 0 /\ b.name \in Names /\ b = Header(t, b.name)
  <2>1. Owner(b) = b.call
    BY <1>3 DEF Owner
  <2>2. t # 0
    BY <1>3, <1>4, <2>1, ZeroIsFree DEF Blocklike, Zero
  <2>3. QED
    BY <1>3, <1>4, <2>1, <2>2 DEF Blocklike
<1>6. Is(c, p + 1, t)
  BY <1>1, <1>2, <1>5 DEF Is
<1>7. /\ r.end = s.end /\ r.call = t
      /\ DOMAIN r.pending = DOMAIN s.pending \union {b.name}
      /\ r.pending[b.name] = [call |-> t, at |-> p + 1]
      /\ \A n \in DOMAIN s.pending : n # b.name => r.pending[n] = s.pending[n]
  BY <1>2, <1>4 DEF Taken, Settled
<1>8. Points(c, r.pending[b.name], t, b.name, p + 1)
  BY <1>1, <1>2, <1>5, <1>7 DEF Points
<1>9. p + 1 \in r.end + 1 .. p + 1 /\ r.end < p + 1
  BY <1>7
<1>10. CASE s.call = 0
  <2>1. s.end = p /\ s.pending = <<>>
    BY <1>10 DEF Inside
  <2>2. DOMAIN r.pending = {b.name}
    <3>1. DOMAIN <<>> = {}
      OBVIOUS
    <3>2. QED
      BY <1>7, <2>1, <3>1
  <2>3. Is(c, r.end + 1, t)
    BY <1>6, <1>7, <2>1
  <2>4. \A n \in DOMAIN r.pending : /\ n \in Names
                                    /\ \E q \in r.end + 1 .. p + 1 : Points(c, r.pending[n], r.call, n, q)
    BY <1>5, <1>7, <1>8, <1>9, <2>2
  <2>5. QED
    BY <1>5, <1>7, <1>9, <2>3, <2>4 DEF Inside
<1>11. CASE s.call # 0
  <2>1. s.call = t
    BY <1>2, <1>4, <1>11 DEF Refused
  <2>2. /\ s.end < p /\ Is(c, s.end + 1, t)
        /\ \A n \in DOMAIN s.pending : /\ n \in Names
                                       /\ \E q \in s.end + 1 .. p : Points(c, s.pending[n], t, n, q)
    BY <1>11, <2>1 DEF Inside
  <2>3. \A q \in s.end + 1 .. p : q \in s.end + 1 .. p + 1
    OBVIOUS
  <2>4. ASSUME NEW n \in DOMAIN r.pending
        PROVE  n \in Names /\ \E q \in r.end + 1 .. p + 1 : Points(c, r.pending[n], t, n, q)
    <3>1. CASE n = b.name
      BY <1>5, <1>8, <1>9, <3>1
    <3>2. CASE n # b.name
      <4>1. n \in DOMAIN s.pending /\ r.pending[n] = s.pending[n]
        BY <1>7, <3>2
      <4>2. QED
        BY <1>7, <2>2, <2>3, <4>1
    <3>3. QED
      BY <3>1, <3>2
  <2>5. QED
    BY <1>5, <1>7, <1>9, <2>2, <2>4 DEF Inside
<1>12. QED
  BY <1>10, <1>11

\* Accepted rows add their transaction to the committed ones, as the newest of them.
LEMMA AcceptedKeeps ==
  ASSUME NEW d, Known(d), NEW c, Faithful(d, c), Layered(d, c), NEW p \in Nat, p + 1 <= Len(c),
         NEW s, Reading(d, c, s, p), s.state = "rows", ~Mismatch(s, c[p + 1]),
         NEW r, r = At(c, p + 1), Shaped(r), Accepted(s, c[p + 1], p + 1, r)
  PROVE  Reading(d, c, r, p + 1)
<1>1. p + 1 \in 1 .. Len(c) /\ p + 1 - 1 = p /\ Len(c) \in Nat
  BY DEF Faithful
<1>2. PICK t : t = s.call
  OBVIOUS
<1>3. Inside(c, s, p) /\ s.end \in 0 .. p
  BY DEF Reading
<1>4. /\ t \in Appends /\ t # 0 /\ s.end = d[t].start /\ p + 1 = Fin(d, t)
      /\ c[p + 1].names = asked[t] /\ DOMAIN s.pending = asked[t] /\ c[p + 1].call = t
      /\ Is(c, s.end + 1, t) /\ Is(c, p + 1, t)
  <2>1. Inside(c, s, p + 1 - 1) /\ s.end \in 0 .. p + 1 - 1
    BY <1>1, <1>3
  <2>2. QED
    BY <1>1, <1>2, <2>1, RowsAtStart
<1>5. /\ r.state = "header" /\ r.call = 0 /\ r.pending = <<>> /\ r.end = p + 1
      /\ r.calls = s.calls \union {t}
      /\ \A n \in Names : r.entries[n] = IF n \in asked[t] THEN s.pending[n] ELSE s.entries[n]
  BY <1>4 DEF Accepted
<1>6. Inside(c, r, p + 1)
  BY <1>5 DEF Inside
<1>7. Clean(c, r.end) /\ r.end \in 0 .. p + 1
  BY <1>1, <1>5 DEF Clean
<1>8. Committed(d, c, r)
  <2>1. \A u \in s.calls : /\ u \in Appends /\ Is(c, d[u].start + 1, u) /\ Is(c, Fin(d, u), u)
                           /\ Fin(d, u) <= s.end
    BY DEF Reading, Committed
  <2>2. \A u \in s.calls : Fin(d, u) <= p + 1
    <3>1. SUFFICES ASSUME NEW u \in s.calls PROVE Fin(d, u) <= p + 1
      OBVIOUS
    <3>2. Fin(d, u) \in 1 .. Len(c) /\ Fin(d, u) <= s.end
      BY <2>1 DEF Is
    <3>3. QED
      BY <1>3, <3>2
  <2>3. Is(c, d[t].start + 1, t) /\ Is(c, Fin(d, t), t) /\ Fin(d, t) <= p + 1
    BY <1>1, <1>4
  <2>4. QED
    BY <1>4, <1>5, <2>1, <2>2, <2>3 DEF Committed
<1>9. \A u \in s.calls : u <= t
  <2>1. SUFFICES ASSUME NEW u \in s.calls PROVE u <= t
    OBVIOUS
  <2>2. /\ u \in Appends /\ Is(c, d[u].start + 1, u) /\ Is(c, Fin(d, u), u) /\ Fin(d, u) <= s.end
    BY DEF Reading, Committed
  <2>3. u \in Nat /\ u # 0 /\ t \in Nat /\ t # 0
    BY <1>4, <2>2, CallsAssumption DEF Appends
  <2>4. Fin(d, u) \in 1 .. Len(c) /\ Owner(c[Fin(d, u)]) = u /\ d[u].start + 1 \in 1 .. Len(c)
    BY <2>2 DEF Is
  <2>5. Fin(d, u) > d[u].start
    BY <2>3, <2>4 DEF Faithful
  <2>6. Fin(d, u) <= d[t].start
    BY <1>4, <2>2
  <2>7. ASSUME u > t PROVE d[t].start <= d[u].start
    <3>1. s.end + 1 \in 1 .. Len(c) /\ Owner(c[s.end + 1]) = t
      BY <1>4 DEF Is
    <3>2. 0 < t /\ t < u
      BY <2>3, <2>7
    <3>3. QED
      BY <2>4, <3>1, <3>2 DEF Layered
  <2>8. d[u].start \in Nat /\ d[t].start \in Nat
    BY <1>4, <2>2 DEF Known, Plans
  <2>9. Fin(d, u) \in Nat
    BY <2>4
  <2>10. QED
    BY <2>3, <2>5, <2>6, <2>7, <2>8, <2>9
<1>10. Shown(c, r)
  <2>1. SUFFICES ASSUME NEW n \in Names
        PROVE  \/ r.entries[n] = NoEntry /\ \A u \in r.calls : n \notin asked[u]
               \/ \E v \in r.calls, q \in 1 .. Len(c) :
                    /\ n \in asked[v] /\ Points(c, r.entries[n], v, n, q) /\ q <= r.end
                    /\ \A u \in r.calls : n \in asked[u] => u <= v
    BY DEF Shown
  <2>2. CASE n \in asked[t]
    <3>1. PICK q \in s.end + 1 .. p : Points(c, s.pending[n], t, n, q)
      BY <1>2, <1>3, <1>4, <2>2 DEF Inside
    <3>2. q \in 1 .. Len(c) /\ q <= r.end
      BY <1>1, <1>3, <1>5
    <3>3. Points(c, r.entries[n], t, n, q)
      BY <1>5, <2>2, <3>1
    <3>4. t \in r.calls /\ \A u \in r.calls : u <= t
      <4>1. t <= t
        BY <1>4, CallsAssumption DEF Appends
      <4>2. QED
        BY <1>5, <1>9, <4>1
    <3>5. QED
      BY <2>2, <3>2, <3>3, <3>4
  <2>3. CASE n \notin asked[t]
    <3>1. r.entries[n] = s.entries[n]
      BY <1>5, <2>3
    <3>2. CASE s.entries[n] = NoEntry /\ \A u \in s.calls : n \notin asked[u]
      BY <1>5, <2>3, <3>1, <3>2
    <3>3. CASE \E v \in s.calls, q \in 1 .. Len(c) :
                 /\ n \in asked[v] /\ Points(c, s.entries[n], v, n, q) /\ q <= s.end
                 /\ \A u \in s.calls : n \in asked[u] => u <= v
      <4>1. PICK v \in s.calls, q \in 1 .. Len(c) :
                 /\ n \in asked[v] /\ Points(c, s.entries[n], v, n, q) /\ q <= s.end
                 /\ \A u \in s.calls : n \in asked[u] => u <= v
        BY <3>3
      <4>2. q <= r.end /\ Points(c, r.entries[n], v, n, q)
        BY <1>3, <1>5, <3>1, <4>1
      <4>3. v \in r.calls /\ \A u \in r.calls : n \in asked[u] => u <= v
        BY <1>5, <2>3, <4>1
      <4>4. QED
        BY <4>1, <4>2, <4>3
    <3>4. QED
      BY <3>2, <3>3 DEF Reading, Shown
  <2>4. QED
    BY <2>2, <2>3
<1>11. QED
  BY <1>6, <1>7, <1>8, <1>10 DEF Reading

\* So the walk reads the whole content in this way.
LEMMA ReadingNext ==
  ASSUME NEW d, Known(d), NEW c, Faithful(d, c), Layered(d, c), NEW p \in Nat, p + 1 <= Len(c),
         Reading(d, c, At(c, p), p)
  PROVE  Reading(d, c, At(c, p + 1), p + 1)
<1>1. Len(c) \in Nat /\ p + 1 \in 1 .. Len(c) /\ p + 1 - 1 = p /\ c \in Seq(Block)
  BY DEF Faithful
<1>2. PICK b \in Block : b = c[p + 1]
  BY <1>1
<1>3. PICK s : s = At(c, p)
  OBVIOUS
<1>4. PICK r : r = At(c, p + 1)
  OBVIOUS
<1> SUFFICES Reading(d, c, r, p + 1)
  BY <1>4
<1>5. r = Walk(s, b, p + 1)
  BY <1>1, <1>2, <1>3, <1>4, AtNext
<1>6. Shaped(s) /\ Inside(c, s, p) /\ s.end \in 0 .. p /\ Reading(d, c, s, p)
  BY <1>3 DEF Reading
<1>7. Walks(s, b, p + 1, r)
  BY <1>5, <1>6, WalkCases
<1>8. Shaped(r) /\ Blocklike(b)
  BY <1>7, BlockFields DEF Walks
<1>9. ASSUME Settled(s, r), Inside(c, r, p + 1) PROVE Reading(d, c, r, p + 1)
  BY <1>6, <1>8, <1>9, SettledKeeps
<1>10. ASSUME Alike(s, r), r.state \in {"stop", "corrupt"} PROVE Reading(d, c, r, p + 1)
  BY <1>9, <1>10 DEF Alike, Inside
<1>11. ASSUME Alike(s, r), s.call # 0, s.state \in {"header", "payload", "rows"}
       PROVE  Reading(d, c, r, p + 1)
  BY <1>6, <1>9, <1>11, AlikeKeeps DEF Alike
<1>12. CASE s.state \in {"stop", "corrupt"}
  <2>1. r = s
    BY <1>7, <1>12 DEF Walks
  <2>2. QED
    BY <1>10, <1>12, <2>1 DEF Alike, Settled
<1>13. CASE s.state = "payload"
  <2>1. Alike(s, r) /\ s.call # 0
    BY <1>6, <1>7, <1>13 DEF Walks, Inside
  <2>2. QED
    BY <1>11, <1>13, <2>1
<1>14. CASE s.state = "header" /\ b.kind = "zero"
  BY <1>7, <1>10, <1>14 DEF Walks
<1>15. CASE s.state = "header" /\ b.kind = "data"
  <2>1. CASE Refused(s, b)
    BY <1>7, <1>10, <1>15, <2>1 DEF Walks
  <2>2. CASE ~Refused(s, b)
    <3>1. Taken(s, b, p + 1, r)
      BY <1>7, <1>15, <2>2 DEF Walks
    <3>2. Inside(c, r, p + 1)
      BY <1>1, <1>2, <1>6, <1>15, <2>2, <3>1, TakenKeeps
    <3>3. QED
      BY <1>9, <3>1, <3>2 DEF Taken
  <2>3. QED
    BY <2>1, <2>2
<1>16. CASE s.state = "header" /\ b.kind = "commit"
  <2>1. Alike(s, r) /\ r.state = IF b.call = s.call THEN "rows" ELSE "corrupt"
    BY <1>7, <1>16 DEF Walks
  <2>2. b.call # 0
    <3>1. Owner(b) = b.call
      BY <1>16 DEF Owner
    <3>2. b # Zero
      BY <1>16 DEF Zero
    <3>3. QED
      BY <1>8, <3>1, <3>2 DEF Blocklike
  <2>3. CASE b.call = s.call
    BY <1>11, <1>16, <2>1, <2>2, <2>3
  <2>4. CASE b.call # s.call
    BY <1>10, <2>1, <2>4
  <2>5. QED
    BY <2>3, <2>4
<1>17. CASE s.state = "header" /\ b.kind \in {"payload", "rows"}
  BY <1>7, <1>10, <1>17 DEF Walks
<1>18. CASE s.state = "rows"
  <2>1. CASE Mismatch(s, b)
    BY <1>7, <1>10, <1>18, <2>1 DEF Walks
  <2>2. CASE ~Mismatch(s, b)
    <3>1. Accepted(s, b, p + 1, r)
      BY <1>7, <1>18, <2>2 DEF Walks
    <3>2. QED
      BY <1>2, <1>4, <1>6, <1>8, <1>18, <2>2, <3>1, AcceptedKeeps
  <2>3. QED
    BY <2>1, <2>2
<1>19. QED
  BY <1>6, <1>8, <1>12, <1>13, <1>14, <1>15, <1>16, <1>17, <1>18 DEF Shaped, Blocklike

\* The walk over any content made of planned blocks reads whole transactions.
LEMMA Readings ==
  ASSUME NEW d, Known(d), NEW c, Faithful(d, c), Layered(d, c)
  PROVE  \A p \in 0 .. Len(c) : Reading(d, c, At(c, p), p)
<1>1. Len(c) \in Nat
  BY DEF Faithful
<1> DEFINE G == {p \in 0 .. Len(c) : Reading(d, c, At(c, p), p)}
<1>2. 0 \in G
  <2>1. At(c, 0) = Scan0
    BY <1>1, AtStart
  <2>2. PICK s : s = Scan0
    OBVIOUS
  <2>3. /\ s.state = "header" /\ s.call = 0 /\ s.pending = <<>> /\ s.end = 0 /\ s.calls = {}
        /\ \A n \in Names : s.entries[n] = NoEntry
    BY <2>2 DEF Scan0
  <2>4. Shaped(s)
    BY <2>2 DEF Scan0, Shaped
  <2>5. Inside(c, s, 0) /\ Committed(d, c, s) /\ Shown(c, s)
    BY <2>3 DEF Inside, Committed, Shown
  <2>6. Clean(c, 0)
    BY <1>1, <2>1, <2>2, <2>3 DEF Clean
  <2>7. Reading(d, c, s, 0)
    BY <2>3, <2>4, <2>5, <2>6 DEF Reading
  <2>8. QED
    BY <1>1, <2>1, <2>2, <2>7
<1>3. ASSUME NEW p \in 0 + 1 .. Len(c), p - 1 \in G
      PROVE  p \in G
  <2>1. PICK q \in Nat : q = p - 1
    BY <1>1
  <2>2. q + 1 = p /\ q + 1 <= Len(c) /\ Reading(d, c, At(c, q), q)
    BY <1>1, <1>3, <2>1
  <2>3. Reading(d, c, At(c, q + 1), q + 1)
    BY <2>2, ReadingNext
  <2>4. QED
    BY <1>1, <2>2, <2>3
<1> HIDE DEF G
<1>4. \A p \in 0 .. Len(c) : p \in G
  BY <1>1, <1>2, <1>3, UpFrom
<1>5. QED
  BY <1>4 DEF G

\* A block either settles nothing or is accepted rows.
LEMMA WalkSettles ==
  ASSUME NEW s, Shaped(s), NEW b \in Block, NEW p, NEW r, Walks(s, b, p, r)
  PROVE  \/ Settled(s, r)
         \/ s.state = "rows" /\ ~Mismatch(s, b) /\ Accepted(s, b, p, r)
<1>1. Blocklike(b)
  BY BlockFields
<1>2. CASE s.state \in {"stop", "corrupt"}
  BY <1>2 DEF Walks, Settled
<1>3. CASE s.state = "payload"
  BY <1>3 DEF Walks, Alike
<1>4. CASE s.state = "header" /\ b.kind = "zero"
  BY <1>4 DEF Walks, Alike
<1>5. CASE s.state = "header" /\ b.kind = "data"
  BY <1>5 DEF Walks, Alike, Taken
<1>6. CASE s.state = "header" /\ b.kind = "commit"
  BY <1>6 DEF Walks, Alike
<1>7. CASE s.state = "header" /\ b.kind \in {"payload", "rows"}
  BY <1>7 DEF Walks, Alike
<1>8. CASE s.state = "rows"
  BY <1>8 DEF Walks, Alike
<1>9. QED
  BY <1>1, <1>2, <1>3, <1>4, <1>5, <1>6, <1>7, <1>8 DEF Shaped, Blocklike

\* What the walk has settled stays settled.
LEMMA Onward ==
  ASSUME NEW d, Known(d), NEW c, Faithful(d, c), Layered(d, c),
         NEW p \in 0 .. Len(c), NEW q \in p .. Len(c)
  PROVE  At(c, p).end <= At(c, q).end /\ At(c, p).calls \subseteq At(c, q).calls
<1>1. Len(c) \in Nat /\ p \in Nat /\ c \in Seq(Block)
  BY DEF Faithful
<1> DEFINE G == {x \in p .. Len(c) : At(c, p).end <= At(c, x).end /\ At(c, p).calls \subseteq At(c, x).calls}
<1>2. \A x \in 0 .. Len(c) : At(c, x).end \in 0 .. x /\ Shaped(At(c, x))
  BY Readings DEF Reading
<1>3. p \in G
  BY <1>1, <1>2
<1>4. ASSUME NEW x \in p + 1 .. Len(c), x - 1 \in G
      PROVE  x \in G
  <2>1. x \in 1 .. Len(c) /\ x - 1 \in 0 .. Len(c) /\ x \in 0 .. Len(c) /\ x \in p .. Len(c)
    BY <1>1
  <2>2. PICK s : s = At(c, x - 1)
    OBVIOUS
  <2>3. PICK r : r = At(c, x)
    OBVIOUS
  <2>4. PICK b \in Block : b = c[x]
    BY <1>1, <2>1
  <2>5. r = Walk(s, b, x)
    BY <1>1, <2>1, <2>2, <2>3, <2>4, AtNext
  <2>6. Shaped(s) /\ s.end \in 0 .. x - 1 /\ At(c, p).end \in 0 .. p
    BY <1>1, <1>2, <2>1, <2>2
  <2>7. Walks(s, b, x, r)
    BY <2>5, <2>6, WalkCases
  <2>8. Settled(s, r) \/ Accepted(s, b, x, r)
    BY <2>6, <2>7, WalkSettles
  <2>9. s.end <= r.end /\ s.calls \subseteq r.calls
    BY <2>1, <2>6, <2>8 DEF Settled, Accepted
  <2>10. r.end \in 0 .. x
    BY <1>2, <2>1, <2>3
  <2>11. At(c, p).end <= r.end /\ At(c, p).calls \subseteq r.calls
    BY <1>4, <2>2, <2>6, <2>9, <2>10
  <2>12. QED
    BY <2>1, <2>3, <2>11
<1> HIDE DEF G
<1>5. \A x \in p .. Len(c) : x \in G
  BY <1>1, <1>3, <1>4, UpFrom
<1>6. QED
  BY <1>5 DEF G

\* A transaction whose first block is there is either read to its end or to nothing.
LEMMA ReadWhole ==
  ASSUME NEW d, Known(d), NEW c, Faithful(d, c), Layered(d, c), NEW t \in Appends,
         NEW e, e = d[t].start, Is(c, e + 1, t), Clean(c, e),
         NEW q \in e + 1 .. Len(c), At(c, q).end # e
  PROVE  At(c, q).end >= Fin(d, t)
<1>1. Len(c) \in Nat /\ c \in Seq(Block) /\ e \in Nat /\ t # 0
  BY CallsAssumption DEF Faithful, Clean, Appends
<1>2. e + 1 \in 1 .. Len(c) /\ Owner(c[e + 1]) = t
  BY DEF Is
<1>3. PICK o \in 1 .. Len(c) : o = e + 1
  BY <1>2
<1>4. PICK f \in Nat, P \in Seq(Block) : Owned(d, c, o, t, f, P)
  BY <1>1, <1>2, <1>3, OwnerPlan
<1>5. Fin(d, t) = e + Len(P) /\ Len(P) \in Nat /\ Len(P) >= 3
  BY <1>4 DEF Owned
<1>6. PICK z \in Nat : z = Fin(d, t)
  BY <1>1, <1>5
<1>7. \A x \in 0 .. Len(c) : Reading(d, c, At(c, x), x)
  BY Readings
<1> DEFINE Half(s) == /\ s.end = e
                      /\ s.state \in {"stop", "corrupt"} \/ s.call = t
           G == {x \in e + 1 .. Len(c) : Half(At(c, x)) \/ At(c, x).end >= z}
<1>8. e + 1 \in G
  <2>1. PICK s : s = At(c, e)
    OBVIOUS
  <2>2. PICK r : r = At(c, e + 1)
    OBVIOUS
  <2>3. PICK b \in Block : b = c[e + 1]
    BY <1>1, <1>2
  <2>4. r = Walk(s, b, e + 1)
    <3>1. e + 1 - 1 = e
      BY <1>1
    <3>2. QED
      BY <1>1, <1>2, <2>1, <2>2, <2>3, <3>1, AtNext
  <2>5. Shaped(s) /\ s.state = "header" /\ s.call = 0 /\ s.end = e
    BY <1>7, <2>1 DEF Clean, Reading
  <2>6. Walks(s, b, e + 1, r)
    BY <2>4, <2>5, WalkCases
  <2>7. Settled(s, r)
    BY <2>5, <2>6, WalkSettles
  <2>8. b.kind = "data"
    <3>1. b = P[e + 1 - f] /\ f = e
      <4>1. e = f
        BY <1>4 DEF Owned
      <4>2. c[o] = P[o - f]
        BY <1>4 DEF Owned
      <4>3. QED
        BY <1>3, <2>3, <4>1, <4>2
    <3>2. e + 1 - f = 1
      BY <1>1, <3>1
    <3>3. P[1].kind = "data"
      BY <1>4 DEF Owned, Transaction
    <3>4. QED
      BY <3>1, <3>2, <3>3
  <2>9. Owner(b) = t /\ Owner(b) = b.call
    BY <1>2, <2>3, <2>8 DEF Owner
  <2>10. r.state = "corrupt" \/ r.call = t
    BY <2>5, <2>6, <2>8, <2>9 DEF Walks, Taken
  <2>11. Half(r)
    BY <2>5, <2>7, <2>10 DEF Settled
  <2>12. QED
    BY <1>2, <1>1, <2>2, <2>11
<1>9. ASSUME NEW x \in e + 1 + 1 .. Len(c), x - 1 \in G
      PROVE  x \in G
  <2>1. x \in 1 .. Len(c) /\ x - 1 \in 0 .. Len(c) /\ x \in x - 1 .. Len(c) /\ x \in e + 1 .. Len(c)
    BY <1>1
  <2>2. PICK s : s = At(c, x - 1)
    OBVIOUS
  <2>3. PICK r : r = At(c, x)
    OBVIOUS
  <2>4. PICK b \in Block : b = c[x]
    BY <1>1, <2>1
  <2>5. r = Walk(s, b, x)
    BY <1>1, <2>1, <2>2, <2>3, <2>4, AtNext
  <2>6. Shaped(s) /\ Inside(c, s, x - 1) /\ s.end \in 0 .. x - 1
    BY <1>7, <2>1, <2>2 DEF Reading
  <2>7. Walks(s, b, x, r)
    BY <2>5, <2>6, WalkCases
  <2>8. CASE s.end >= z
    <3>1. s.end <= r.end
      BY <2>1, <2>2, <2>3, Onward
    <3>2. r.end \in 0 .. x
      BY <1>7, <2>1, <2>3 DEF Reading
    <3>3. r.end >= z
      BY <1>6, <2>6, <2>8, <3>1, <3>2
    <3>4. QED
      BY <2>1, <2>3, <3>3
  <2>9. CASE Half(s)
    <3>1. CASE Settled(s, r)
      <4>1. CASE s.state \in {"stop", "corrupt"}
        BY <2>1, <2>3, <2>7, <2>9, <4>1 DEF Walks
      <4>2. CASE s.call = t
        <5>1. \/ r.state \in {"stop", "corrupt"} \/ r.call = s.call
              \/ r.call = b.call /\ ~Refused(s, b)
              \/ s.state = "rows" /\ ~Mismatch(s, b)
          <6>1. Blocklike(b)
            BY BlockFields
          <6>2. CASE s.state = "header" /\ b.kind = "data"
            BY <2>7, <6>2 DEF Walks, Alike, Taken
          <6>3. CASE ~(s.state = "header" /\ b.kind = "data")
            BY <2>6, <2>7, <6>1, <6>3 DEF Walks, Alike, Shaped, Blocklike
          <6>4. QED
            BY <6>2, <6>3
        <5>2. CASE s.state = "rows" /\ ~Mismatch(s, b)
          <6>1. r.end = x
            BY <2>7, <5>2 DEF Walks, Accepted
          <6>2. QED
            BY <1>1, <2>6, <3>1, <6>1 DEF Settled
        <5>3. CASE r.call = b.call /\ ~Refused(s, b)
          BY <1>1, <2>1, <2>3, <2>9, <3>1, <4>2, <5>3 DEF Refused, Settled
        <5>4. QED
          BY <2>1, <2>3, <2>9, <3>1, <4>2, <5>1, <5>2, <5>3 DEF Settled
      <4>3. QED
        BY <2>9, <4>1, <4>2
    <3>2. CASE s.state = "rows" /\ ~Mismatch(s, b) /\ Accepted(s, b, x, r)
      <4>1. s.call = t
        BY <2>9, <3>2
      <4>2. x = Fin(d, s.call)
        BY <2>1, <2>4, <2>6, <3>2, RowsAtStart
      <4>3. r.end = z
        BY <1>6, <3>2, <4>1, <4>2 DEF Accepted
      <4>4. QED
        BY <1>6, <2>1, <2>3, <4>3
    <3>3. QED
      BY <2>6, <2>7, <3>1, <3>2, WalkSettles
  <2>10. QED
    BY <1>9, <2>2, <2>8, <2>9
<1> HIDE DEF G
<1>10. \A x \in e + 1 .. Len(c) : x \in G
  <2>1. e + 1 \in Nat
    BY <1>1
  <2>2. QED
    BY <1>1, <1>8, <1>9, <2>1, UpFrom
<1>11. QED
  BY <1>6, <1>10 DEF G

\* The rows may add the names of t to what the walk shows.
Admits(d, t, s) == d[t].replace \/ \A n \in asked[t] : s.entries[n] = NoEntry

\* The first k blocks of P lie in the content behind e.
Lies(c, e, P, k) == e + k <= Len(c) /\ \A i \in 1 .. k : c[e + i] = P[i]

\* The walk has read j blocks of the members of t: at a header it is where the next one
\* belongs, in a payload it knows what is left of it.
Midway(P, t, S, s0, s, j) ==
  /\ Shaped(s) /\ Settled(s0, s)
  /\ s.call = IF j = 0 THEN 0 ELSE t
  /\ \A n : n \in DOMAIN s.pending <=> n \in S /\ \E i \in 1 .. j : P[i] = Header(t, n)
  /\ \/ s.state = "header" /\ (j < Len(P) - 2 => P[j + 1].kind = "data")
     \/ /\ s.state = "payload"
        /\ \E i \in 1 .. j : /\ P[i].kind = "data"
                             /\ s.left = i + Blocks[P[i].name] - j /\ s.left > 0

\* One more block of the members is read.
LEMMA MidwayNext ==
  ASSUME NEW t \in Appends, NEW S, NEW replace, NEW P, Transaction(P, t, S, replace),
         NEW j \in Nat, j + 1 <= Len(P) - 2, NEW s0, NEW s, Midway(P, t, S, s0, s, j),
         NEW p, NEW r, Walks(s, P[j + 1], p, r)
  PROVE  Midway(P, t, S, s0, r, j + 1)
<1>1. PICK L \in Nat : L = Len(P) /\ L >= 3
  BY DEF Transaction
<1>2. j + 1 \in 1 .. L - 2 /\ j + 1 \in 1 .. L
  BY <1>1
<1>3. PICK b : b = P[j + 1]
  OBVIOUS
<1>4. Owner(b) = t /\ t # 0 /\ b.kind \in {"data", "payload"}
  BY <1>1, <1>2, <1>3, CallsAssumption DEF Transaction, Appends
<1>5. b.call = t
  BY <1>4 DEF Owner
<1>6. Shaped(r) /\ Walks(s, b, p, r)
  BY <1>3 DEF Walks
<1>7. \A i, k \in 1 .. L - 2 : P[i].kind = "data" /\ P[k].kind = "data" /\ P[i].name = P[k].name => i = k
  BY <1>1 DEF Transaction
<1>8. \A n : Header(t, n).kind = "data" /\ Header(t, n).name = n
  BY DEF Header
<1>9. \A i \in 1 .. j + 1 : i \in 1 .. j \/ i = j + 1
  OBVIOUS
<1>10. \A i \in 1 .. j : i \in 1 .. L - 2 /\ i \in 1 .. j + 1 /\ i # j + 1
  BY <1>1
<1>11. CASE s.state = "header"
  <2>1. b.kind = "data"
    BY <1>1, <1>2, <1>3, <1>11 DEF Midway
  <2>2. PICK n : n = b.name
    OBVIOUS
  <2>3. PICK m \in Nat : m = Blocks[n] /\ n \in Names
    <3>1. n \in Names
      BY <1>1, <1>2, <1>3, <2>1, <2>2 DEF Transaction
    <3>2. QED
      BY <3>1, BlocksAssumption
  <2>4. /\ n \in S /\ b = Header(t, n) /\ j + 1 + m <= L - 2
        /\ j + 1 + m < L - 2 => P[j + 1 + m + 1].kind = "data"
    BY <1>1, <1>2, <1>3, <2>1, <2>2, <2>3 DEF Transaction
  <2>5. ~Refused(s, b)
    <3>1. s.call = 0 \/ s.call = b.call
      BY <1>5 DEF Midway
    <3>2. n \notin DOMAIN s.pending
      <4>1. SUFFICES ASSUME NEW i \in 1 .. j, P[i] = Header(t, n) PROVE FALSE
        BY DEF Midway
      <4>2. P[i].kind = "data" /\ P[i].name = n /\ P[j + 1].kind = "data" /\ P[j + 1].name = n
        BY <1>3, <1>8, <2>1, <2>2, <4>1
      <4>3. QED
        BY <1>2, <1>7, <1>10, <4>2
    <3>3. QED
      BY <2>2, <3>1, <3>2 DEF Refused
  <2>6. Taken(s, b, p, r)
    BY <1>6, <1>11, <2>1, <2>5 DEF Walks
  <2>7. /\ Settled(s0, r) /\ r.call = t /\ r.left = m
        /\ r.state = IF m = 0 THEN "header" ELSE "payload"
        /\ DOMAIN r.pending = DOMAIN s.pending \union {n}
    BY <1>5, <2>2, <2>3, <2>6 DEF Taken, Settled, Midway
  <2>8. ASSUME NEW x
        PROVE  x \in DOMAIN r.pending <=> x \in S /\ \E i \in 1 .. j + 1 : P[i] = Header(t, x)
    <3>1. CASE x = n
      <4>1. j + 1 \in 1 .. j + 1 /\ P[j + 1] = Header(t, x)
        BY <1>3, <2>4, <3>1
      <4>2. x \in DOMAIN r.pending /\ x \in S
        BY <2>4, <2>7, <3>1
      <4>3. QED
        BY <4>1, <4>2
    <3>2. CASE x # n
      <4>1. P[j + 1] # Header(t, x)
        BY <1>3, <1>8, <2>4, <3>2
      <4>2. x \in DOMAIN r.pending <=> x \in DOMAIN s.pending
        BY <2>7, <3>2
      <4>3. x \in DOMAIN s.pending <=> x \in S /\ \E i \in 1 .. j : P[i] = Header(t, x)
        BY DEF Midway
      <4>4. (\E i \in 1 .. j + 1 : P[i] = Header(t, x)) <=> \E i \in 1 .. j : P[i] = Header(t, x)
        BY <1>9, <1>10, <4>1
      <4>5. QED
        BY <4>2, <4>3, <4>4
    <3>3. QED
      BY <3>1, <3>2
  <2>9. j + 1 # 0
    OBVIOUS
  <2>10. CASE m = 0
    <3>1. r.state = "header" /\ (j + 1 < L - 2 => P[j + 1 + 1].kind = "data")
      <4>1. j + 1 + m = j + 1 /\ j + 1 + m + 1 = j + 1 + 1
        BY <2>10
      <4>2. QED
        BY <2>4, <2>7, <2>10, <4>1
    <3>2. QED
      BY <1>1, <1>6, <2>7, <2>8, <2>9, <3>1 DEF Midway
  <2>11. CASE m # 0
    <3>1. r.state = "payload" /\ r.left = j + 1 + Blocks[P[j + 1].name] - (j + 1) /\ r.left > 0
      <4>1. j + 1 + m - (j + 1) = m /\ m > 0
        BY <2>11
      <4>2. QED
        BY <1>3, <2>2, <2>3, <2>7, <2>11, <4>1
    <3>2. j + 1 \in 1 .. j + 1 /\ P[j + 1].kind = "data"
      BY <1>3, <2>1
    <3>3. QED
      BY <1>6, <2>7, <2>8, <2>9, <3>1, <3>2 DEF Midway
  <2>12. QED
    BY <2>10, <2>11
<1>12. CASE s.state = "payload"
  <2>1. PICK i \in 1 .. j : P[i].kind = "data" /\ s.left = i + Blocks[P[i].name] - j /\ s.left > 0
    BY <1>12 DEF Midway
  <2>2. PICK n : n = P[i].name
    OBVIOUS
  <2>3. PICK m \in Nat : m = Blocks[n] /\ n \in Names
    <3>1. n \in Names
      BY <1>1, <1>10, <2>1, <2>2 DEF Transaction
    <3>2. QED
      BY <3>1, BlocksAssumption
  <2>4. /\ i + m <= L - 2
        /\ \A k \in 1 .. m : P[i + k] = Payload(t, n)
        /\ i + m < L - 2 => P[i + m + 1].kind = "data"
    BY <1>1, <1>10, <2>1, <2>2, <2>3 DEF Transaction
  <2>5. s.left = i + m - j /\ s.left > 0
    BY <2>1, <2>2, <2>3
  <2>6. j + 1 - i \in 1 .. m /\ i + (j + 1 - i) = j + 1
    BY <2>5
  <2>7. b = Payload(t, n)
    BY <1>3, <2>4, <2>6
  <2>8. Alike(s, r) /\ r.left = s.left - 1 /\ r.state = IF s.left = 1 THEN "header" ELSE "payload"
    BY <1>6, <1>12 DEF Walks
  <2>9. j # 0 /\ j + 1 # 0
    OBVIOUS
  <2>10. Settled(s0, r) /\ r.call = t /\ r.pending = s.pending
    BY <2>8, <2>9 DEF Alike, Settled, Midway
  <2>11. ASSUME NEW x
         PROVE  x \in DOMAIN r.pending <=> x \in S /\ \E k \in 1 .. j + 1 : P[k] = Header(t, x)
    <3>1. P[j + 1] # Header(t, x)
      BY <1>3, <2>7 DEF Payload, Header
    <3>2. x \in DOMAIN s.pending <=> x \in S /\ \E k \in 1 .. j : P[k] = Header(t, x)
      BY DEF Midway
    <3>3. (\E k \in 1 .. j + 1 : P[k] = Header(t, x)) <=> \E k \in 1 .. j : P[k] = Header(t, x)
      BY <1>9, <1>10, <3>1
    <3>4. QED
      BY <2>10, <3>2, <3>3
  <2>12. CASE s.left = 1
    <3>1. i + m = j + 1 /\ r.state = "header"
      BY <2>5, <2>8, <2>12
    <3>2. j + 1 < L - 2 => P[j + 1 + 1].kind = "data"
      BY <2>4, <3>1
    <3>3. QED
      BY <1>1, <1>6, <2>9, <2>10, <2>11, <3>1, <3>2 DEF Midway
  <2>13. CASE s.left # 1
    <3>1. r.left = i + m - (j + 1) /\ r.left > 0 /\ r.state = "payload"
      BY <2>5, <2>8, <2>13
    <3>2. i \in 1 .. j + 1
      OBVIOUS
    <3>3. \E k \in 1 .. j + 1 : P[k].kind = "data" /\ r.left = k + Blocks[P[k].name] - (j + 1) /\ r.left > 0
      BY <2>1, <2>2, <2>3, <3>1, <3>2
    <3>4. QED
      BY <1>6, <2>9, <2>10, <2>11, <3>1, <3>3 DEF Midway
  <2>14. QED
    BY <2>12, <2>13
<1>13. QED
  BY <1>11, <1>12 DEF Midway

\* The walk over the members of t, from between two transactions.
LEMMA ReadMembers ==
  ASSUME NEW c \in Seq(Block), NEW t \in Appends, NEW S, NEW replace, NEW P, Transaction(P, t, S, replace),
         NEW e \in Nat, Clean(c, e), Shaped(At(c, e)), NEW k \in Nat, k <= Len(P) - 2, Lies(c, e, P, k)
  PROVE  \A j \in 0 .. k : Midway(P, t, S, At(c, e), At(c, e + j), j)
<1>1. PICK L \in Nat : L = Len(P) /\ L >= 3
  BY DEF Transaction
<1>2. Len(c) \in Nat /\ e + k <= Len(c)
  BY DEF Lies
<1> DEFINE G == {j \in 0 .. k : Midway(P, t, S, At(c, e), At(c, e + j), j)}
<1>3. 0 \in G
  <2>1. PICK s : s = At(c, e)
    OBVIOUS
  <2>2. s.state = "header" /\ s.call = 0 /\ s.pending = <<>> /\ Shaped(s)
    BY <2>1 DEF Clean
  <2>3. P[0 + 1].kind = "data" /\ t # 0
    BY CallsAssumption DEF Transaction, Appends
  <2>4. DOMAIN s.pending = {}
    <3>1. DOMAIN <<>> = {}
      OBVIOUS
    <3>2. QED
      BY <2>2, <3>1
  <2>5. Midway(P, t, S, s, s, 0)
    BY <2>2, <2>3, <2>4 DEF Midway, Settled
  <2>6. e + 0 = e
    OBVIOUS
  <2>7. QED
    BY <2>1, <2>5, <2>6
<1>4. ASSUME NEW x \in 0 + 1 .. k, x - 1 \in G
      PROVE  x \in G
  <2>1. PICK j \in Nat : j = x - 1
    OBVIOUS
  <2>2. j + 1 = x /\ j + 1 <= L - 2 /\ j + 1 \in 1 .. k /\ e + j + 1 \in 1 .. Len(c)
        /\ e + j + 1 - 1 = e + j /\ e + (j + 1) = e + j + 1
    BY <1>1, <1>2, <2>1
  <2>3. PICK s : s = At(c, e + j)
    OBVIOUS
  <2>4. PICK r : r = At(c, e + j + 1)
    OBVIOUS
  <2>5. PICK b \in Block : b = c[e + j + 1]
    BY <2>2
  <2>6. b = P[j + 1]
    BY <2>2, <2>5 DEF Lies
  <2>7. r = Walk(s, b, e + j + 1)
    BY <1>2, <2>2, <2>3, <2>4, <2>5, AtNext
  <2>8. Midway(P, t, S, At(c, e), s, j)
    BY <1>4, <2>1, <2>3
  <2>9. Walks(s, b, e + j + 1, r)
    BY <2>7, <2>8, WalkCases DEF Midway
  <2>10. Midway(P, t, S, At(c, e), r, j + 1)
    <3>1. j + 1 <= Len(P) - 2
      BY <1>1, <2>2
    <3>2. Walks(s, P[j + 1], e + j + 1, r)
      BY <2>6, <2>9
    <3>3. QED
      BY <2>8, <3>1, <3>2, MidwayNext
  <2>11. QED
    BY <2>2, <2>4, <2>10
<1> HIDE DEF G
<1>5. \A j \in 0 .. k : j \in G
  BY <1>3, <1>4, UpFrom
<1>6. QED
  BY <1>5 DEF G

\* Behind all its members the walk expects a header and has every name pending.
LEMMA MembersRead ==
  ASSUME NEW t \in Appends, NEW S, NEW replace, NEW P, Transaction(P, t, S, replace), NEW s0, NEW s,
         Midway(P, t, S, s0, s, Len(P) - 2)
  PROVE  s.state = "header" /\ s.call = t /\ DOMAIN s.pending = S
<1>1. PICK L \in Nat : L = Len(P) /\ L >= 3
  BY DEF Transaction
<1>2. s.call = t
  BY <1>1 DEF Midway
<1>3. ASSUME s.state = "payload" PROVE FALSE
  <2>1. PICK i \in 1 .. L - 2 : P[i].kind = "data" /\ s.left = i + Blocks[P[i].name] - (L - 2) /\ s.left > 0
    BY <1>1, <1>3 DEF Midway
  <2>2. i + Blocks[P[i].name] <= L - 2 /\ P[i].name \in Names
    BY <1>1, <2>1 DEF Transaction
  <2>3. Blocks[P[i].name] \in Nat
    BY <2>2, BlocksAssumption
  <2>4. QED
    BY <2>1, <2>2, <2>3
<1>4. \A n : n \in DOMAIN s.pending <=> n \in S
  BY <1>1 DEF Midway, Transaction
<1>5. QED
  BY <1>2, <1>3, <1>4 DEF Midway

\* One block further is the COMMIT header, and with the rows the transaction is committed.
LEMMA ReadRecord ==
  ASSUME NEW c \in Seq(Block), NEW t \in Appends, NEW S, NEW replace, NEW P, Transaction(P, t, S, replace),
         NEW e \in Nat, Clean(c, e), Shaped(At(c, e)), Lies(c, e, P, Len(P) - 1)
  PROVE  /\ At(c, e + Len(P) - 1).state = "rows" /\ At(c, e + Len(P) - 1).call = t
         /\ DOMAIN At(c, e + Len(P) - 1).pending = S /\ Settled(At(c, e), At(c, e + Len(P) - 1))
         /\ Shaped(At(c, e + Len(P) - 1))
<1>1. PICK L \in Nat : L = Len(P) /\ L >= 3
  BY DEF Transaction
<1>2. Len(c) \in Nat /\ e + (L - 1) <= Len(c)
  BY <1>1 DEF Lies
<1>3. Lies(c, e, P, L - 2)
  BY <1>1, <1>2 DEF Lies
<1>4. PICK s : s = At(c, e + (L - 2))
  OBVIOUS
<1>5. Midway(P, t, S, At(c, e), s, L - 2)
  <2>1. L - 2 \in Nat /\ L - 2 <= Len(P) - 2 /\ L - 2 \in 0 .. L - 2
    BY <1>1
  <2>2. QED
    BY <1>3, <1>4, <2>1, ReadMembers
<1>6. s.state = "header" /\ s.call = t /\ DOMAIN s.pending = S /\ Shaped(s) /\ Settled(At(c, e), s)
  <2>1. Midway(P, t, S, At(c, e), s, Len(P) - 2)
    BY <1>1, <1>5
  <2>2. s.state = "header" /\ s.call = t /\ DOMAIN s.pending = S
    BY <2>1, MembersRead
  <2>3. Shaped(s) /\ Settled(At(c, e), s)
    BY <2>1 DEF Midway
  <2>4. QED
    BY <2>2, <2>3
<1>7. e + L - 1 \in 1 .. Len(c) /\ e + L - 1 - 1 = e + (L - 2) /\ e + (L - 1) = e + L - 1
      /\ L - 1 \in 1 .. L - 1
  BY <1>1, <1>2
<1>8. PICK b \in Block : b = c[e + L - 1]
  BY <1>7
<1>9. b = CommitHeader(t)
  <2>1. c[e + (L - 1)] = P[L - 1]
    BY <1>1, <1>7 DEF Lies
  <2>2. QED
    BY <1>1, <1>7, <1>8, <2>1 DEF Transaction
<1>10. PICK r : r = At(c, e + L - 1)
  OBVIOUS
<1>11. r = Walk(s, b, e + L - 1)
  BY <1>2, <1>4, <1>7, <1>8, <1>10, AtNext
<1>12. Walks(s, b, e + L - 1, r)
  BY <1>6, <1>11, WalkCases
<1>13. b.kind = "commit" /\ b.call = t
  BY <1>9 DEF CommitHeader
<1>14. Alike(s, r) /\ r.state = "rows" /\ Shaped(r)
  BY <1>6, <1>12, <1>13 DEF Walks
<1>15. QED
  BY <1>1, <1>6, <1>10, <1>14 DEF Alike, Settled

\* The whole of transaction t lies behind the prefix at e, where it is admitted.
Submitted(d, c, t, e, P) ==
  /\ t \in Appends /\ e \in Nat /\ c \in Seq(Block) /\ P = d[t].blocks
  /\ Transaction(P, t, asked[t], d[t].replace)
  /\ Clean(c, e) /\ Shaped(At(c, e)) /\ Lies(c, e, P, Len(P)) /\ Admits(d, t, At(c, e))

\* Then the walk commits it.
LEMMA ReadTransaction ==
  ASSUME NEW d, NEW c, NEW t, NEW P, NEW e, Submitted(d, c, t, e, P), NEW f, f = e + Len(P)
  PROVE  Clean(c, f) /\ At(c, f).calls = At(c, e).calls \union {t}
<1>1. /\ t \in Appends /\ e \in Nat /\ c \in Seq(Block) /\ P = d[t].blocks
      /\ Transaction(P, t, asked[t], d[t].replace)
      /\ Clean(c, e) /\ Shaped(At(c, e)) /\ Lies(c, e, P, Len(P)) /\ Admits(d, t, At(c, e))
  BY DEF Submitted
<1>2. PICK L \in Nat : L = Len(P) /\ L >= 3
  BY <1>1 DEF Transaction
<1>3. Len(c) \in Nat /\ e + L <= Len(c)
  BY <1>1, <1>2 DEF Lies
<1>4. Lies(c, e, P, L - 1)
  BY <1>1, <1>2, <1>3 DEF Lies
<1>5. PICK s : s = At(c, e + L - 1)
  OBVIOUS
<1>6. s.state = "rows" /\ s.call = t /\ DOMAIN s.pending = asked[t] /\ Settled(At(c, e), s) /\ Shaped(s)
  <2>1. Lies(c, e, P, Len(P) - 1)
    BY <1>2, <1>4
  <2>2. PICK S, replace : S = asked[t] /\ replace = d[t].replace
    OBVIOUS
  <2>3. Transaction(P, t, S, replace)
    BY <1>1, <2>2
  <2>4. /\ At(c, e + Len(P) - 1).state = "rows" /\ At(c, e + Len(P) - 1).call = t
        /\ DOMAIN At(c, e + Len(P) - 1).pending = S /\ Settled(At(c, e), At(c, e + Len(P) - 1))
        /\ Shaped(At(c, e + Len(P) - 1))
    <3>1. c \in Seq(Block) /\ t \in Appends /\ e \in Nat
      BY <1>1
    <3>2. Clean(c, e)
      BY <1>1
    <3>3. Shaped(At(c, e))
      BY <1>1
    <3>4. QED
      BY <2>1, <2>3, <3>1, <3>2, <3>3, ReadRecord
  <2>5. /\ At(c, e + Len(P) - 1).state = "rows" /\ At(c, e + Len(P) - 1).call = t
        /\ DOMAIN At(c, e + Len(P) - 1).pending = asked[t] /\ Settled(At(c, e), At(c, e + Len(P) - 1))
        /\ Shaped(At(c, e + Len(P) - 1))
    BY <2>2, <2>4
  <2>6. s = At(c, e + Len(P) - 1)
    BY <1>2, <1>5
  <2>7. QED
    BY <2>5, <2>6
<1>7. e + L \in 1 .. Len(c) /\ L \in 1 .. L
  <2>1. L \in Nat /\ L >= 3 /\ e \in Nat /\ Len(c) \in Nat /\ e + L <= Len(c)
    BY <1>1, <1>2, <1>3
  <2>2. QED
    BY <2>1
<1>8. PICK b \in Block : b = c[e + L]
  BY <1>1, <1>7
<1>9. b = Rows(t, asked[t], d[t].replace)
  <2>1. c[e + L] = P[L]
    BY <1>1, <1>2, <1>7 DEF Lies
  <2>2. QED
    BY <1>1, <1>2, <1>8, <2>1 DEF Transaction
<1>10. PICK r : r = At(c, e + L)
  OBVIOUS
<1>11. r = Walk(s, b, e + L)
  BY <1>1, <1>3, <1>5, <1>7, <1>8, <1>10, AtNext
<1>12. Walks(s, b, e + L, r)
  BY <1>6, <1>11, WalkCases
<1>13. ~Mismatch(s, b)
  <2>1. b.kind = "rows" /\ b.call = t /\ b.names = asked[t] /\ b.replace = d[t].replace
    BY <1>9 DEF Rows
  <2>2. d[t].replace \/ \A n \in asked[t] : s.entries[n] = NoEntry
    BY <1>1, <1>6 DEF Admits, Settled
  <2>3. QED
    BY <1>6, <2>1, <2>2 DEF Mismatch
<1>14. Accepted(s, b, e + L, r)
  BY <1>6, <1>12, <1>13 DEF Walks
<1>15. b.call = t
  BY <1>9 DEF Rows
<1>16. e + L \in 0 .. Len(c)
  BY <1>7
<1>17. QED
  BY <1>1, <1>2, <1>6, <1>10, <1>14, <1>15, <1>16 DEF Accepted, Clean, Settled

\* Over zero blocks the walk stops at a header and raises nothing.
LEMMA ZerosRead ==
  ASSUME NEW c \in Seq(Block), NEW e \in 0 .. Len(c), Shaped(At(c, e)), At(c, e).state \in {"header", "payload", "stop"},
         \A p \in e + 1 .. Len(c) : Owner(c[p]) = 0
  PROVE  \A p \in e .. Len(c) : At(c, p).state \in {"header", "payload", "stop"}
<1>1. Len(c) \in Nat /\ e \in Nat
  OBVIOUS
<1> DEFINE G == {p \in e .. Len(c) : Shaped(At(c, p)) /\ At(c, p).state \in {"header", "payload", "stop"}}
<1>2. e \in G
  BY <1>1
<1>3. ASSUME NEW p \in e + 1 .. Len(c), p - 1 \in G
      PROVE  p \in G
  <2>1. p \in 1 .. Len(c)
    BY <1>1
  <2>2. PICK s : s = At(c, p - 1)
    OBVIOUS
  <2>3. PICK r : r = At(c, p)
    OBVIOUS
  <2>4. PICK b \in Block : b = c[p]
    BY <2>1
  <2>5. r = Walk(s, b, p)
    BY <1>1, <2>1, <2>2, <2>3, <2>4, AtNext
  <2>6. Shaped(s) /\ s.state \in {"header", "payload", "stop"}
    BY <1>3, <2>2
  <2>7. Walks(s, b, p, r)
    BY <2>5, <2>6, WalkCases
  <2>8. b.kind = "zero"
    BY <2>4, BlockFields, ZeroIsFree DEF Blocklike
  <2>9. Shaped(r) /\ r.state \in {"header", "payload", "stop"}
    BY <2>6, <2>7, <2>8 DEF Walks
  <2>10. QED
    BY <1>1, <2>1, <2>3, <2>9
<1> HIDE DEF G
<1>4. \A p \in e .. Len(c) : p \in G
  BY <1>1, <1>2, <1>3, UpFrom
<1>5. QED
  BY <1>4 DEF G

\* A footer behind a committed prefix ends the walk there.
LEMMA FooterStops ==
  ASSUME NEW c \in Seq(Block), NEW e, Clean(c, e), Shaped(At(c, e)), e + 1 <= Len(c), c[e + 1] = Zero
  PROVE  Scan(c).state = "stop" /\ Settled(At(c, e), Scan(c))
<1>1. Len(c) \in Nat /\ e \in Nat /\ e + 1 \in 1 .. Len(c) /\ e + 1 - 1 = e
  BY DEF Clean
<1> DEFINE G == {p \in e + 1 .. Len(c) : /\ Shaped(At(c, p)) /\ At(c, p).state = "stop"
                                         /\ Settled(At(c, e), At(c, p))}
<1>2. e + 1 \in G
  <2>1. At(c, e + 1) = Walk(At(c, e), c[e + 1], e + 1)
    BY <1>1, AtNext
  <2>2. PICK s : s = At(c, e)
    OBVIOUS
  <2>3. PICK r : r = At(c, e + 1)
    OBVIOUS
  <2>4. Walks(s, Zero, e + 1, r)
    BY <2>1, <2>2, <2>3, WalkCases, ZeroIsFree
  <2>5. Shaped(r) /\ r.state = "stop" /\ Settled(s, r)
    BY <2>2, <2>4, ZeroIsFree DEF Walks, Clean, Alike
  <2>6. QED
    BY <1>1, <2>2, <2>3, <2>5
<1>3. ASSUME NEW p \in e + 1 + 1 .. Len(c), p - 1 \in G
      PROVE  p \in G
  <2>1. p \in 1 .. Len(c) /\ p \in e + 1 .. Len(c)
    BY <1>1
  <2>2. PICK b \in Block : b = c[p]
    BY <2>1
  <2>3. At(c, p) = Walk(At(c, p - 1), b, p)
    BY <1>1, <2>1, <2>2, AtNext
  <2>4. PICK s : s = At(c, p - 1)
    OBVIOUS
  <2>5. Shaped(s) /\ s.state = "stop" /\ Settled(At(c, e), s)
    BY <1>3, <2>4
  <2>6. Walks(s, b, p, At(c, p))
    BY <2>3, <2>4, <2>5, WalkCases
  <2>7. At(c, p) = s
    BY <2>5, <2>6 DEF Walks
  <2>8. QED
    BY <2>1, <2>5, <2>7
<1> HIDE DEF G
<1>4. \A p \in e + 1 .. Len(c) : p \in G
  <2>1. e + 1 \in Nat
    BY <1>1
  <2>2. QED
    BY <1>1, <1>2, <1>3, <2>1, UpFrom
<1>5. Len(c) \in e + 1 .. Len(c)
  BY <1>1
<1>6. Scan(c) = At(c, Len(c))
  BY <1>1, ScanIsLast
<1>7. QED
  BY <1>4, <1>5, <1>6 DEF G

\* Behind the prefix at e the content has only blocks of t, from its first one on and then
\* zero blocks, and no zero block between a COMMIT header and its rows.
Calm(c, e, t) ==
  /\ Clean(c, e)
  /\ \A p \in e + 1 .. Len(c) : Owner(c[p]) \in {0, t}
  /\ \A p, q \in e + 1 .. Len(c) : p < q /\ Owner(c[p]) = 0 => Owner(c[q]) = 0
  /\ \A p \in e + 1 .. Len(c) - 1 : c[p].kind = "commit" => c[p + 1].kind = "rows"

\* The blocks of t in a calm content are the first ones of its plan.
LEMMA CalmLies ==
  ASSUME NEW d, Known(d), NEW c, Faithful(d, c), NEW t \in Appends, NEW e, e = d[t].start,
         NEW k \in Nat, k > 0, e + k <= Len(c), Clean(c, e), \A p \in e + 1 .. e + k : Owner(c[p]) = t
  PROVE  \E P \in Seq(Block) :
           /\ P = d[t].blocks /\ Transaction(P, t, asked[t], d[t].replace) /\ fate[t] # "new"
           /\ k <= Len(P) /\ Lies(c, e, P, k)
<1>1. Len(c) \in Nat /\ e \in Nat /\ t # 0 /\ c \in Seq(Block)
  BY CallsAssumption DEF Faithful, Clean, Appends
<1>2. e + k \in 1 .. Len(c) /\ e + k \in e + 1 .. e + k
  BY <1>1
<1>3. fate[t] # "new"
  BY <1>1, <1>2 DEF Faithful
<1>4. PICK f \in Nat, P \in Seq(Block) :
           /\ f = d[t].start /\ P = d[t].blocks /\ Fin(d, t) = f + Len(P)
           /\ Transaction(P, t, asked[t], d[t].replace) /\ Len(P) \in Nat /\ Len(P) >= 3
  BY <1>3, PlanKnown
<1>5. e + k <= e + Len(P)
  <2>1. Owner(c[e + k]) = t
    BY <1>2
  <2>2. e + k <= Fin(d, t)
    BY <1>1, <1>2, <2>1 DEF Faithful
  <2>3. QED
    BY <1>4, <2>2
<1>6. ASSUME NEW i \in 1 .. k PROVE c[e + i] = P[i]
  <2>1. e + i \in 1 .. Len(c) /\ e + i \in e + 1 .. e + k /\ e + i - e = i
    <3>1. i \in Nat /\ i >= 1 /\ i <= k
      OBVIOUS
    <3>2. QED
      BY <1>1, <3>1
  <2>2. Owner(c[e + i]) = t
    BY <2>1
  <2>3. PICK p \in 1 .. Len(c) : p = e + i
    BY <2>1
  <2>4. c[p] = d[t].blocks[p - d[t].start]
    BY <1>1, <2>2, <2>3 DEF Faithful
  <2>5. p - e = i /\ d[t].blocks = P /\ d[t].start = e
    BY <1>1, <1>4, <2>3
  <2>6. c[p] = P[i]
    BY <2>4, <2>5
  <2>7. QED
    BY <2>3, <2>6
<1>7. k <= Len(P)
  BY <1>1, <1>4, <1>5
<1>8. QED
  BY <1>3, <1>4, <1>6, <1>7 DEF Lies

\* The append t, if there is one, starts at e, and its rows will be accepted.
Ahead(d, c, t, e) ==
  /\ t = 0 \/ t \in Appends
  /\ t \in Appends => e = d[t].start /\ Admits(d, t, At(c, e))

\* How far the walk has come behind k blocks of t.
LEMMA CalmState ==
  ASSUME NEW d, Known(d), NEW c, Faithful(d, c), Layered(d, c), NEW t, NEW e, Ahead(d, c, t, e),
         NEW k \in Nat, e + k <= Len(c), Clean(c, e), \A p \in e + 1 .. e + k : Owner(c[p]) = t,
         k > 0 => t # 0
  PROVE  \/ At(c, e + k).state \in {"header", "payload"}
         \/ k > 0 /\ At(c, e + k).state = "rows" /\ c[e + k].kind = "commit"
<1>1. Len(c) \in Nat /\ e \in Nat /\ c \in Seq(Block) /\ e \in 0 .. Len(c) /\ At(c, e).state = "header"
  BY DEF Faithful, Clean
<1>2. CASE k = 0
  <2>1. e + k = e
    BY <1>1, <1>2
  <2>2. QED
    BY <1>1, <2>1
<1>3. CASE k > 0
  <2>1. t \in Appends /\ e = d[t].start /\ Admits(d, t, At(c, e))
    BY <1>3 DEF Ahead
  <2>2. PICK P \in Seq(Block) :
           /\ P = d[t].blocks /\ Transaction(P, t, asked[t], d[t].replace)
           /\ k <= Len(P) /\ Lies(c, e, P, k)
    BY <1>3, <2>1, CalmLies
  <2>3. Shaped(At(c, e))
    BY <1>1, Readings DEF Reading
  <2>4. PICK L \in Nat : L = Len(P) /\ L >= 3
    BY <2>2 DEF Transaction
  <2>5. CASE k = L
    <3>1. Lies(c, e, P, Len(P)) /\ Admits(d, t, At(c, e))
      BY <2>1, <2>2, <2>4, <2>5
    <3>2. Submitted(d, c, t, e, P)
      BY <1>1, <2>1, <2>2, <2>3, <3>1 DEF Submitted
    <3>3. PICK f : f = e + Len(P)
      OBVIOUS
    <3>4. Clean(c, f)
      BY <3>2, <3>3, ReadTransaction
    <3>5. QED
      BY <2>4, <2>5, <3>3, <3>4 DEF Clean
  <2>6. CASE k = L - 1
    <3>1. Lies(c, e, P, Len(P) - 1)
      BY <2>2, <2>4, <2>6
    <3>2. PICK S, replace : S = asked[t] /\ replace = d[t].replace
      OBVIOUS
    <3>3. Transaction(P, t, S, replace)
      BY <2>2, <3>2
    <3>4. At(c, e + Len(P) - 1).state = "rows"
      <4>1. t \in Appends
        BY <2>1
      <4>2. c \in Seq(Block)
        BY <1>1
      <4>3. e \in Nat
        BY <1>1
      <4>4. /\ At(c, e + Len(P) - 1).state = "rows" /\ At(c, e + Len(P) - 1).call = t
            /\ DOMAIN At(c, e + Len(P) - 1).pending = S /\ Settled(At(c, e), At(c, e + Len(P) - 1))
            /\ Shaped(At(c, e + Len(P) - 1))
        BY <2>3, <3>1, <3>3, <4>1, <4>2, <4>3, ReadRecord
      <4>5. QED
        BY <4>4
    <3>5. e + Len(P) - 1 = e + k
      BY <1>1, <2>4, <2>6
    <3>6. c[e + k] = P[L - 1]
      BY <2>2, <2>6, <1>3 DEF Lies
    <3>7. P[L - 1].kind = "commit"
      BY <2>2, <2>4 DEF Transaction, CommitHeader
    <3>8. QED
      BY <1>3, <3>4, <3>5, <3>6, <3>7
  <2>7. CASE k <= L - 2
    <3>1. PICK S, replace : S = asked[t] /\ replace = d[t].replace
      OBVIOUS
    <3>2. Transaction(P, t, S, replace) /\ k <= Len(P) - 2 /\ k \in 0 .. k
      BY <2>2, <2>4, <2>7, <3>1
    <3>3. Midway(P, t, S, At(c, e), At(c, e + k), k)
      BY <1>1, <2>1, <2>2, <2>3, <3>2, ReadMembers
    <3>4. QED
      BY <3>3 DEF Midway
  <2>8. QED
    BY <2>2, <2>4, <2>5, <2>6, <2>7
<1>4. QED
  BY <1>2, <1>3

\* A calm content is readable.
LEMMA CalmReadable ==
  ASSUME NEW d, Known(d), NEW c, Faithful(d, c), Layered(d, c), NEW t, NEW e, Ahead(d, c, t, e),
         Calm(c, e, t)
  PROVE  Readable(Scan(c))
<1>1. Len(c) \in Nat /\ e \in Nat /\ c \in Seq(Block) /\ e <= Len(c) /\ Clean(c, e)
  BY DEF Faithful, Clean, Calm
<1>2. Scan(c) = At(c, Len(c))
  BY <1>1, ScanIsLast
<1> DEFINE Z == {p \in e + 1 .. Len(c) : Owner(c[p]) = 0}
<1>3. CASE Z = {}
  <2>1. \A p \in e + 1 .. Len(c) : Owner(c[p]) = t
    BY <1>3 DEF Calm
  <2>2. PICK k \in Nat : k = Len(c) - e
    <3>1. Len(c) - e \in Nat
      <4>1. Len(c) \in Nat /\ e \in Nat /\ e <= Len(c)
        BY <1>1
      <4>2. QED
        BY <4>1
    <3>2. QED
      BY <3>1
  <2>3. e + k = Len(c)
    BY <1>1, <2>2
  <2>4. k > 0 => t # 0
    <3>1. SUFFICES ASSUME k > 0, t = 0 PROVE FALSE
      OBVIOUS
    <3>2. e + 1 \in e + 1 .. Len(c)
      BY <1>1, <2>3, <3>1
    <3>3. e + 1 \in Z
      BY <2>1, <3>1, <3>2
    <3>4. QED
      BY <1>3, <3>3
  <2>5. e + k <= Len(c) /\ \A p \in e + 1 .. e + k : Owner(c[p]) = t
    BY <1>1, <2>1, <2>3
  <2>6. At(c, e + k).state \in {"header", "payload", "rows"}
    <3>1. e + k <= Len(c)
      BY <2>5
    <3>2. \A p \in e + 1 .. e + k : Owner(c[p]) = t
      BY <2>5
    <3>3. Clean(c, e)
      BY <1>1
    <3>4. \/ At(c, e + k).state \in {"header", "payload"}
          \/ k > 0 /\ At(c, e + k).state = "rows" /\ c[e + k].kind = "commit"
      BY <2>4, <3>1, <3>2, <3>3, CalmState
    <3>5. QED
      BY <3>4
  <2>7. QED
    BY <1>2, <2>3, <2>6 DEF Readable
<1>4. CASE Z # {}
  <2>1. PICK z \in Z : \A y \in Z : z <= y
    <3>1. IsFiniteSet(Z)
      <4>1. IsFiniteSet(e + 1 .. Len(c)) /\ Z \subseteq e + 1 .. Len(c)
        BY <1>1, FS_Interval
      <4>2. QED
        BY <4>1, FS_Subset
    <3>2. \A y \in Z : y \in Int
      BY <1>1
    <3> HIDE DEF Z
    <3>3. QED
      BY <1>4, <3>1, <3>2, Least
  <2>2. PICK k \in Nat : k = z - 1 - e
    BY <1>1
  <2>3. e + k = z - 1 /\ e + k + 1 = z /\ z \in e + 1 .. Len(c) /\ e + k <= Len(c) /\ e + k \in 0 .. Len(c)
        /\ Owner(c[z]) = 0
    BY <1>1, <2>2
  <2>4. \A p \in e + 1 .. e + k : Owner(c[p]) = t /\ t # 0
    <3>1. SUFFICES ASSUME NEW p \in e + 1 .. e + k PROVE Owner(c[p]) = t /\ t # 0
      OBVIOUS
    <3>2. p \in e + 1 .. Len(c) /\ ~(z <= p)
      BY <1>1, <2>3
    <3>3. p \notin Z
      BY <2>1, <3>2
    <3>4. QED
      BY <3>2, <3>3 DEF Calm
  <2>5. \A p \in e + 1 .. e + k : Owner(c[p]) = t
    BY <2>4
  <2>6. k > 0 => t # 0
    <3>1. k > 0 => e + k \in e + 1 .. e + k
      BY <1>1
    <3>2. QED
      BY <2>4, <3>1
  <2>7. \/ At(c, e + k).state \in {"header", "payload"}
        \/ k > 0 /\ At(c, e + k).state = "rows" /\ c[e + k].kind = "commit"
    <3>1. e + k <= Len(c)
      BY <2>3
    <3>2. Clean(c, e)
      BY <1>1
    <3>3. QED
      BY <2>5, <2>6, <3>1, <3>2, CalmState
  <2>8. \A p \in z .. Len(c) : Owner(c[p]) = 0
    <3>1. SUFFICES ASSUME NEW p \in z .. Len(c) PROVE Owner(c[p]) = 0
      OBVIOUS
    <3>2. p \in e + 1 .. Len(c) /\ (p = z \/ z < p)
      BY <1>1, <2>3
    <3>3. QED
      BY <2>3, <3>2 DEF Calm
  <2>9. ~(k > 0 /\ c[e + k].kind = "commit")
    <3>1. SUFFICES ASSUME k > 0, c[e + k].kind = "commit" PROVE FALSE
      OBVIOUS
    <3>2. e + k \in e + 1 .. Len(c) - 1
      BY <1>1, <2>3, <3>1
    <3>3. c[z].kind = "rows"
      BY <2>3, <3>1, <3>2 DEF Calm
    <3>4. z \in 1 .. Len(c)
      BY <1>1, <2>3
    <3>5. c[z] = Zero
      BY <1>1, <2>3, <3>4, BlockFields DEF Blocklike
    <3>6. QED
      BY <3>3, <3>5, ZeroIsFree
  <2>10. At(c, e + k).state \in {"header", "payload"}
    BY <2>7, <2>9
  <2>11. Shaped(At(c, e + k))
    BY <2>3, Readings DEF Reading
  <2>12. \A p \in e + k + 1 .. Len(c) : Owner(c[p]) = 0
    BY <2>3, <2>8
  <2>13. \A p \in e + k .. Len(c) : At(c, p).state \in {"header", "payload", "stop"}
    BY <1>1, <2>3, <2>10, <2>11, <2>12, ZerosRead
  <2>14. Len(c) \in e + k .. Len(c)
    BY <1>1, <2>3
  <2>15. QED
    BY <1>2, <2>13, <2>14 DEF Readable
<1>5. QED
  BY <1>3, <1>4

-----------------------------------------------------------------------------
(* What holds of the file and of every content the platter may hold *)

\* A transaction whose first block is there has no foreign block before its last one.
Whole(d, c) ==
  \A t \in Appends : Is(c, d[t].start + 1, t) =>
    \A q \in 1 .. Len(c) : Owner(c[q]) = t => \A p \in d[t].start + 1 .. q : Owner(c[p]) = t

\* An append started where the walk is between two transactions.
Rooted(d, c) == \A p \in 1 .. Len(c) : Owner(c[p]) # 0 => Clean(c, d[Owner(c[p])].start)

\* A transaction that was undone has lost its first block.
Undone(d, c) == \A t \in Appends : fate[t] = "failed" => ~Is(c, d[t].start + 1, t)

\* An acknowledged transaction is committed.
Kept(d, c) ==
  \A t \in Appends : fate[t] = "done" => Clean(c, Fin(d, t)) /\ t \in At(c, Fin(d, t)).calls

Image(d, c) ==
  /\ Faithful(d, c) /\ Whole(d, c) /\ Rooted(d, c) /\ Layered(d, c) /\ Undone(d, c)
  /\ ~DirectoryMayForget => Kept(d, c)

\* No append in the content starts behind e.
Under(d, c, e) == \A p \in 1 .. Len(c) : Owner(c[p]) # 0 => d[Owner(c[p])].start <= e

\* The committed prefix at e, seen by the append t that starts there.
Base(d, c, t, e) ==
  /\ e = d[t].start /\ Clean(c, e) /\ Under(d, c, e)
  /\ ~DirectoryMayForget => \A u \in Appends : fate[u] = "done" => Fin(d, u) <= e

\* The content with block b at p.
Overwritten(c, p, b, r) ==
  /\ r \in Seq(Block) /\ Len(r) = IF p <= Len(c) THEN Len(c) ELSE p
  /\ r[p] = b
  /\ \A q \in 1 .. Len(c) : q # p => r[q] = c[q]

\* The write of the model replaces or appends one block.
LEMMA WriteOverwrites ==
  ASSUME NEW c \in Seq(Block), NEW p \in 1 .. Len(c) + 1, NEW b \in Block, NEW r,
         r = IF p \in DOMAIN c THEN [c EXCEPT ![p] = b] ELSE Append(c, b)
  PROVE  Overwritten(c, p, b, r)
<1>1. DOMAIN c = 1 .. Len(c) /\ Len(c) \in Nat
  OBVIOUS
<1>2. CASE p \in 1 .. Len(c)
  <2>1. r = [c EXCEPT ![p] = b]
    BY <1>1, <1>2
  <2>2. r \in Seq(Block) /\ Len(r) = Len(c)
    BY <1>1, <1>2, <2>1, ExceptSeq
  <2>3. r[p] = b /\ \A q \in 1 .. Len(c) : q # p => r[q] = c[q]
    BY <1>1, <1>2, <2>1
  <2>4. QED
    BY <1>2, <2>2, <2>3 DEF Overwritten
<1>3. CASE p \notin 1 .. Len(c)
  <2>1. p = Len(c) + 1
    BY <1>1, <1>3
  <2>2. p \notin DOMAIN c
    BY <1>1, <1>3
  <2>3. r = Append(c, b)
    BY <2>2
  <2>4. Append(c, b) \in Seq(Block) /\ Len(Append(c, b)) = Len(c) + 1
    BY AppendProperties
  <2>5. Append(c, b)[Len(c) + 1] = b /\ \A q \in 1 .. Len(c) : Append(c, b)[q] = c[q]
    BY AppendProperties
  <2>6. ~(p <= Len(c))
    BY <1>1, <2>1
  <2>7. QED
    BY <2>1, <2>3, <2>4, <2>5, <2>6 DEF Overwritten
<1>4. QED
  BY <1>2, <1>3

\* A write behind e leaves the prefix up to e alone.
LEMMA PrefixKept ==
  ASSUME NEW c \in Seq(Block), NEW e \in Nat, e <= Len(c), NEW p \in e + 1 .. Len(c) + 1, NEW b, NEW r,
         Overwritten(c, p, b, r)
  PROVE  /\ \A q \in 0 .. e : At(r, q) = At(c, q)
         /\ \A q \in 0 .. e : Clean(c, q) => Clean(r, q)
<1>1. Len(c) \in Nat /\ Len(r) \in Nat /\ e <= Len(r) /\ Len(c) <= Len(r)
  BY DEF Overwritten
<1>2. \A q \in 1 .. e : r[q] = c[q]
  BY <1>1 DEF Overwritten
<1>3. \A q \in 0 .. e : At(r, q) = At(c, q)
  BY <1>1, <1>2, AtAgrees
<1>4. QED
  BY <1>1, <1>3 DEF Clean

\* A write of the open append t to block i of its place: a block of its plan or a zero block.
Writing(d, c, t, e, i, b, r) ==
  /\ t \in Appends /\ fate[t] = "open" /\ \A u \in Appends : u > t => fate[u] = "new"
  /\ i \in Nat /\ i >= 1 /\ e + i <= Len(c) + 1
  /\ b \in Block /\ Overwritten(c, e + i, b, r)
  /\ b = Zero \/ (i <= Len(d[t].blocks) /\ b = d[t].blocks[i])
  /\ i > 1 => Owner(c[e + 1]) \in {0, t}
  /\ Is(r, e + 1, t) =>
       \A q \in 1 .. Len(r) : Owner(r[q]) = t => \A p \in e + 1 .. q : Owner(r[p]) = t

\* What is where after the write.
Changed(d, c, t, e, i, b, r) ==
  /\ t \in Appends /\ t # 0 /\ fate[t] = "open" /\ e \in Nat /\ e <= Len(c) /\ Len(c) \in Nat /\ Len(r) \in Nat
  /\ r \in Seq(Block) /\ e + i \in 1 .. Len(r) /\ e + i \in e + 1 .. Len(c) + 1
  /\ r[e + i] = b /\ Owner(b) \in {0, t}
  /\ Owner(b) = t => i <= Len(d[t].blocks) /\ b = d[t].blocks[i]
  /\ Fin(d, t) = e + Len(d[t].blocks)
  /\ \A q \in 1 .. Len(r) : q # e + i => q \in 1 .. Len(c) /\ r[q] = c[q]
  /\ \A q \in 0 .. e : At(r, q) = At(c, q)
  /\ \A q \in 0 .. e : Clean(c, q) => Clean(r, q)

\* A write changes one block, and no step of the walk before it.
LEMMA WriteFields ==
  ASSUME NEW d, Known(d), NEW c, Faithful(d, c), NEW t, NEW e, Base(d, c, t, e), NEW i, NEW b, NEW r,
         Writing(d, c, t, e, i, b, r)
  PROVE  Changed(d, c, t, e, i, b, r)
<1>1. t \in Appends /\ t # 0 /\ fate[t] = "open"
  BY CallsAssumption DEF Writing, Appends
<1>2. c \in Seq(Block) /\ Len(c) \in Nat /\ e \in 0 .. Len(c) /\ e \in Nat /\ e <= Len(c)
  BY DEF Faithful, Base, Clean
<1>3. i \in Nat /\ i >= 1 /\ e + i <= Len(c) + 1 /\ b \in Block /\ Overwritten(c, e + i, b, r)
  BY DEF Writing
<1>4. PICK p \in e + 1 .. Len(c) + 1 : p = e + i
  BY <1>2, <1>3
<1>5. r \in Seq(Block) /\ Len(r) = (IF p <= Len(c) THEN Len(c) ELSE p) /\ r[p] = b
      /\ \A q \in 1 .. Len(c) : q # p => r[q] = c[q]
  BY <1>3, <1>4 DEF Overwritten
<1>6. Len(r) \in Nat /\ p \in 1 .. Len(r)
  BY <1>2, <1>4, <1>5
<1>7. \A q \in 1 .. Len(r) : q # p => q \in 1 .. Len(c) /\ r[q] = c[q]
  BY <1>2, <1>4, <1>5
<1>8. PICK f \in Nat, P \in Seq(Block) :
        /\ f = d[t].start /\ P = d[t].blocks /\ Fin(d, t) = f + Len(P)
        /\ Transaction(P, t, asked[t], d[t].replace) /\ Len(P) \in Nat /\ Len(P) >= 3
  BY <1>1, PlanKnown
<1>9. Fin(d, t) = e + Len(d[t].blocks)
  BY <1>8 DEF Base
<1>10. b = Zero \/ (i <= Len(P) /\ b = P[i])
  BY <1>8 DEF Writing
<1>11. i <= Len(P) => i \in 1 .. Len(P) /\ Owner(P[i]) = t
  <2>1. i <= Len(P) => i \in 1 .. Len(P)
    BY <1>3, <1>8
  <2>2. \A j \in 1 .. Len(P) : Owner(P[j]) = t
    BY <1>8 DEF Transaction
  <2>3. QED
    BY <2>1, <2>2
<1>12. Owner(b) \in {0, t} /\ (Owner(b) = t => i <= Len(P) /\ b = P[i])
  BY <1>1, <1>10, <1>11, ZeroIsFree
<1>13. /\ \A q \in 0 .. e : At(r, q) = At(c, q)
       /\ \A q \in 0 .. e : Clean(c, q) => Clean(r, q)
  BY <1>2, <1>3, <1>4, PrefixKept
<1>14. QED
  BY <1>1, <1>2, <1>4, <1>5, <1>6, <1>7, <1>8, <1>9, <1>12, <1>13 DEF Changed

\* An append that starts before e ends there, too.
LEMMA EndsBefore ==
  ASSUME NEW d, Known(d), NEW c, Faithful(d, c), Layered(d, c), NEW u \in Appends, NEW e, Clean(c, e),
         NEW f, f = d[u].start, Is(c, f + 1, u), Clean(c, f), f < e
  PROVE  Fin(d, u) <= e
<1>1. e \in 0 .. Len(c) /\ f \in 0 .. Len(c) /\ Len(c) \in Nat /\ At(c, e).end = e
  BY DEF Clean, Faithful
<1>2. e \in f + 1 .. Len(c) /\ At(c, e).end # f
  BY <1>1
<1>3. At(c, e).end >= Fin(d, u)
  BY <1>2, ReadWhole
<1>4. PICK h \in Nat, P \in Seq(Block) :
           /\ h = d[u].start /\ P = d[u].blocks /\ Fin(d, u) = h + Len(P)
           /\ Transaction(P, u, asked[u], d[u].replace) /\ Len(P) \in Nat /\ Len(P) >= 3
  <2>1. PICK o \in 1 .. Len(c) : o = f + 1 /\ Owner(c[o]) = u
    BY DEF Is
  <2>2. u # 0
    BY CallsAssumption DEF Appends
  <2>3. fate[u] # "new"
    BY <2>1, <2>2 DEF Faithful
  <2>4. QED
    BY <2>3, PlanKnown
<1>5. Fin(d, u) \in Nat
  BY <1>4
<1>6. QED
  BY <1>1, <1>3, <1>5

\* After a write every block lies where its plan has it.
LEMMA FaithfulWritten ==
  ASSUME NEW d, Known(d), NEW c, Image(d, c), NEW t, NEW e, Base(d, c, t, e), NEW i, NEW b, NEW r,
         Writing(d, c, t, e, i, b, r)
  PROVE  Faithful(d, r) /\ Rooted(d, r) /\ Under(d, r, e)
<1>1. Faithful(d, c) /\ Rooted(d, c)
  BY DEF Image
<1>2. Changed(d, c, t, e, i, b, r)
  BY <1>1, WriteFields
<1>3. /\ t \in Appends /\ t # 0 /\ fate[t] = "open" /\ e \in Nat /\ e <= Len(c) /\ Len(c) \in Nat /\ Len(r) \in Nat
      /\ r \in Seq(Block) /\ e + i \in 1 .. Len(r) /\ e + i \in e + 1 .. Len(c) + 1
      /\ r[e + i] = b /\ Owner(b) \in {0, t}
      /\ Owner(b) = t => i <= Len(d[t].blocks) /\ b = d[t].blocks[i]
      /\ Fin(d, t) = e + Len(d[t].blocks)
      /\ \A q \in 1 .. Len(r) : q # e + i => q \in 1 .. Len(c) /\ r[q] = c[q]
      /\ \A q \in 0 .. e : At(r, q) = At(c, q)
      /\ \A q \in 0 .. e : Clean(c, q) => Clean(r, q)
  BY <1>2 DEF Changed
<1>4. i \in Nat /\ i >= 1 /\ e = d[t].start /\ Clean(c, e) /\ Under(d, c, e)
  BY DEF Writing, Base
<1>5. ASSUME NEW p \in 1 .. Len(r), Owner(r[p]) # 0
      PROVE  /\ fate[Owner(r[p])] # "new"
             /\ p > d[Owner(r[p])].start /\ p <= Fin(d, Owner(r[p]))
             /\ r[p] = d[Owner(r[p])].blocks[p - d[Owner(r[p])].start]
             /\ Clean(r, d[Owner(r[p])].start) /\ d[Owner(r[p])].start <= e
  <2>1. CASE p = e + i
    <3>1. r[p] = b /\ Owner(b) = t
      BY <1>3, <1>5, <2>1
    <3>2. i <= Len(d[t].blocks) /\ b = d[t].blocks[i]
      BY <1>3, <3>1
    <3>3. p > e /\ p - e = i
      <4>1. e \in Nat /\ i \in Nat /\ i >= 1
        BY <1>3, <1>4
      <4>2. QED
        BY <2>1, <4>1
    <3>4. p <= Fin(d, t)
      <4>1. Len(d[t].blocks) \in Nat
        <5>1. PICK h \in Nat, P \in Seq(Block) :
                /\ h = d[t].start /\ P = d[t].blocks /\ Fin(d, t) = h + Len(P)
                /\ Transaction(P, t, asked[t], d[t].replace) /\ Len(P) \in Nat /\ Len(P) >= 3
          BY <1>3, PlanKnown
        <5>2. QED
          BY <5>1
      <4>2. QED
        BY <1>3, <1>4, <2>1, <3>2, <4>1
    <3>5. Clean(r, e)
      <4>1. e \in 0 .. e
        BY <1>3
      <4>2. QED
        BY <1>3, <1>4, <4>1
    <3>6. d[t].start = e
      BY <1>4
    <3>7. QED
      BY <1>3, <3>1, <3>2, <3>3, <3>4, <3>5, <3>6
  <2>2. CASE p # e + i
    <3>1. p \in 1 .. Len(c) /\ r[p] = c[p]
      BY <1>3, <2>2
    <3>2. Owner(c[p]) # 0
      BY <1>5, <3>1
    <3>3. /\ fate[Owner(r[p])] # "new"
          /\ p > d[Owner(r[p])].start /\ p <= Fin(d, Owner(r[p]))
          /\ r[p] = d[Owner(r[p])].blocks[p - d[Owner(r[p])].start]
      BY <1>1, <3>1, <3>2 DEF Faithful
    <3>4. Clean(c, d[Owner(r[p])].start) /\ d[Owner(r[p])].start <= e
      BY <1>1, <1>4, <3>1, <3>2 DEF Rooted, Under
    <3>5. d[Owner(r[p])].start \in 0 .. e
      BY <1>3, <3>4 DEF Clean
    <3>6. Clean(r, d[Owner(r[p])].start)
      BY <1>3, <3>4, <3>5
    <3>7. QED
      BY <3>3, <3>4, <3>6
  <2>3. QED
    BY <2>1, <2>2
<1>6. Faithful(d, r)
  BY <1>3, <1>5 DEF Faithful
<1>7. Rooted(d, r) /\ Under(d, r, e)
  BY <1>5 DEF Rooted, Under
<1>8. QED
  BY <1>6, <1>7

\* After a write the later append still starts no earlier in the file.
LEMMA LayeredWritten ==
  ASSUME NEW d, Known(d), NEW c, Image(d, c), NEW t, NEW e, Base(d, c, t, e), NEW i, NEW b, NEW r,
         Writing(d, c, t, e, i, b, r)
  PROVE  Layered(d, r)
<1>1. Faithful(d, c) /\ Layered(d, c) /\ e = d[t].start /\ Under(d, c, e) /\ \A u \in Appends : u > t => fate[u] = "new"
  BY DEF Image, Base, Writing
<1>2. Changed(d, c, t, e, i, b, r)
  BY <1>1, WriteFields
<1>3. Faithful(d, r) /\ Under(d, r, e)
  BY FaithfulWritten
<1>4. SUFFICES ASSUME NEW p \in 1 .. Len(r), NEW q \in 1 .. Len(r), 0 < Owner(r[p]), Owner(r[p]) < Owner(r[q])
               PROVE  d[Owner(r[p])].start <= d[Owner(r[q])].start
  BY DEF Layered
<1>5. Owner(r[p]) \in Appends /\ Owner(r[q]) \in Appends /\ fate[Owner(r[q])] # "new"
  <2>1. r[p] \in Block /\ r[q] \in Block
    BY <1>2 DEF Changed
  <2>2. Owner(r[p]) # 0
    BY <1>4
  <2>3. Owner(r[p]) \in Appends
    BY <2>1, <2>2, BlockFields DEF Blocklike
  <2>4. Owner(r[q]) # 0
    <3>1. Owner(r[q]) = 0 \/ Owner(r[q]) \in Appends
      BY <2>1, BlockFields DEF Blocklike
    <3>2. QED
      BY <1>4, <2>3 DEF Appends
  <2>5. QED
    BY <1>3, <2>1, <2>3, <2>4, BlockFields DEF Blocklike, Faithful
<1>6. CASE Owner(r[q]) = t
  <2>1. Owner(r[p]) # 0
    BY <1>4
  <2>2. QED
    BY <1>1, <1>6, <1>3, <2>1 DEF Under
<1>7. CASE Owner(r[q]) # t /\ Owner(r[p]) # t
  <2>1. p # e + i /\ q # e + i
    <3>1. Owner(r[q]) # 0 /\ Owner(r[p]) # 0
      BY <1>4, <1>5, CallsAssumption DEF Appends
    <3>2. QED
      BY <1>7, <1>2, <3>1 DEF Changed
  <2>2. p \in 1 .. Len(c) /\ q \in 1 .. Len(c) /\ r[p] = c[p] /\ r[q] = c[q]
    BY <1>2, <2>1 DEF Changed
  <2>3. QED
    BY <1>1, <1>4, <2>2 DEF Layered
<1>8. CASE Owner(r[p]) = t /\ Owner(r[q]) # t
  <2>1. Owner(r[q]) > t
    BY <1>4, <1>5, <1>8, CallsAssumption DEF Appends
  <2>2. QED
    BY <1>1, <1>5, <2>1
<1>9. QED
  BY <1>6, <1>7, <1>8

\* After a write a transaction whose first block is there still has no foreign block inside.
LEMMA WholeWritten ==
  ASSUME NEW d, Known(d), NEW c, Image(d, c), NEW t, NEW e, Base(d, c, t, e), NEW i, NEW b, NEW r,
         Writing(d, c, t, e, i, b, r)
  PROVE  Whole(d, r)
<1>1. Faithful(d, c) /\ Layered(d, c) /\ Whole(d, c) /\ Rooted(d, c) /\ e = d[t].start /\ Under(d, c, e) /\ Clean(c, e)
      /\ (i > 1 => Owner(c[e + 1]) \in {0, t}) /\ i \in Nat /\ i >= 1
  BY DEF Image, Base, Writing
<1>2. Changed(d, c, t, e, i, b, r)
  BY <1>1, WriteFields
<1>3. SUFFICES ASSUME NEW u \in Appends, Is(r, d[u].start + 1, u), NEW q \in 1 .. Len(r), Owner(r[q]) = u,
                      NEW p \in d[u].start + 1 .. q
               PROVE  Owner(r[p]) = u
  BY DEF Whole
<1>4. CASE u = t
  BY <1>1, <1>3, <1>4 DEF Writing
<1>5. CASE u # t
  <2>1. u # 0
    BY CallsAssumption DEF Appends
  <2>2. q # e + i /\ d[u].start + 1 # e + i
    BY <1>3, <1>5, <1>2, <2>1 DEF Changed, Is
  <2>3. PICK f : f = d[u].start
    OBVIOUS
  <2>4. q \in 1 .. Len(c) /\ Owner(c[q]) = u
    BY <1>3, <1>2, <2>2 DEF Changed
  <2>5. f + 1 \in 1 .. Len(r) /\ r[f + 1] = c[f + 1] /\ Is(c, f + 1, u) /\ c[f + 1] = r[f + 1]
    BY <1>3, <1>2, <2>2, <2>3 DEF Changed, Is
  <2>6. Clean(c, f) /\ f <= e /\ f \in Nat
    <3>1. Owner(c[q]) # 0
      BY <2>1, <2>4
    <3>2. Clean(c, f)
      BY <1>1, <2>3, <2>4, <3>1 DEF Rooted
    <3>3. f <= e
      BY <1>1, <2>3, <2>4, <3>1 DEF Under
    <3>4. QED
      BY <3>2, <3>3 DEF Clean
  <2>7. p \in f + 1 .. q /\ Owner(c[p]) = u
    BY <1>1, <1>3, <2>3, <2>4, <2>5 DEF Whole
  <2>8. p # e + i
    <3>1. CASE f < e
      <4>1. Fin(d, u) <= e
        BY <1>1, <2>3, <2>5, <2>6, <3>1, EndsBefore
      <4>2. q <= Fin(d, u)
        BY <1>1, <2>1, <2>4 DEF Faithful
      <4>3. PICK h \in Nat, P \in Seq(Block) :
           /\ h = d[u].start /\ P = d[u].blocks /\ Fin(d, u) = h + Len(P)
           /\ Transaction(P, u, asked[u], d[u].replace) /\ Len(P) \in Nat /\ Len(P) >= 3
        BY <1>1, <2>1, <2>4, PlanKnown DEF Faithful
      <4>4. p <= e
        <5>1. Fin(d, u) \in Nat
          BY <4>3
        <5>2. Fin(d, u) \in Nat /\ e \in Nat /\ Len(c) \in Nat
          BY <5>1, <1>2 DEF Changed
        <5>3. q <= e /\ p <= q
          BY <2>4, <2>6, <2>7, <4>1, <4>2, <5>2
        <5>4. QED
          BY <2>4, <2>6, <2>7, <5>2, <5>3
      <4>5. QED
        BY <1>1, <1>2, <4>4, <2>6, <2>7 DEF Changed
    <3>2. CASE f = e
      <4>1. Owner(c[e + 1]) = u
        BY <2>5, <3>2 DEF Is
      <4>2. i = 1
        BY <1>1, <1>5, <2>1, <4>1
      <4>3. QED
        BY <2>2, <2>3, <3>2, <4>2
    <3>3. QED
      BY <1>2, <2>6, <3>1, <3>2 DEF Changed
  <2>9. p \in 1 .. Len(r)
    BY <1>2, <2>6, <2>7, <1>3 DEF Changed
  <2>10. QED
    BY <1>2, <2>7, <2>8, <2>9 DEF Changed
<1>6. QED
  BY <1>4, <1>5

\* A write behind the committed prefix keeps all that holds of a content.
LEMMA ImageWritten ==
  ASSUME NEW d, Known(d), NEW c, Image(d, c), NEW t, NEW e, Base(d, c, t, e), NEW i, NEW b, NEW r,
         Writing(d, c, t, e, i, b, r)
  PROVE  Image(d, r) /\ Base(d, r, t, e) /\ At(r, e) = At(c, e)
<1>1. Faithful(d, c) /\ Undone(d, c) /\ e = d[t].start /\ Clean(c, e) /\ fate[t] = "open"
      /\ (~DirectoryMayForget => Kept(d, c))
      /\ (~DirectoryMayForget => \A u \in Appends : fate[u] = "done" => Fin(d, u) <= e)
  BY DEF Image, Base, Writing
<1>2. Changed(d, c, t, e, i, b, r)
  BY <1>1, WriteFields
<1>3. Faithful(d, r) /\ Rooted(d, r) /\ Under(d, r, e) /\ Layered(d, r) /\ Whole(d, r)
  BY FaithfulWritten, LayeredWritten, WholeWritten
<1>4. Undone(d, r)
  <2>1. SUFFICES ASSUME NEW u \in Appends, fate[u] = "failed", Is(r, d[u].start + 1, u) PROVE FALSE
    BY DEF Undone
  <2>2. u # t /\ u # 0
    BY <1>1, <2>1, CallsAssumption DEF Appends
  <2>3. d[u].start + 1 # e + i
    BY <1>2, <2>1, <2>2 DEF Changed, Is
  <2>4. Is(c, d[u].start + 1, u)
    BY <1>2, <2>1, <2>3 DEF Changed, Is
  <2>5. QED
    BY <1>1, <2>1, <2>4 DEF Undone
<1>5. ~DirectoryMayForget => Kept(d, r)
  <2>1. SUFFICES ASSUME ~DirectoryMayForget, NEW u \in Appends, fate[u] = "done"
                 PROVE  Clean(r, Fin(d, u)) /\ u \in At(r, Fin(d, u)).calls
    BY DEF Kept
  <2>2. Clean(c, Fin(d, u)) /\ u \in At(c, Fin(d, u)).calls /\ Fin(d, u) <= e
    BY <1>1, <2>1 DEF Kept
  <2>3. Fin(d, u) \in 0 .. e
    BY <1>2, <2>2 DEF Clean, Changed
  <2>4. QED
    BY <1>2, <2>2, <2>3 DEF Changed
<1>6. Clean(r, e) /\ At(r, e) = At(c, e)
  <2>1. e \in 0 .. e
    BY <1>2 DEF Changed
  <2>2. QED
    BY <1>1, <1>2, <2>1 DEF Changed
<1>7. QED
  BY <1>1, <1>3, <1>4, <1>5, <1>6 DEF Image, Base

\* What the append puts at block i of its place: its own blocks, then the footer.
Target(P, i) == IF i <= Len(P) THEN P[i] ELSE Zero

\* How many of these are written after j of its steps, the first k of which clear the place.
Written(P, k, j) ==
  IF j <= k THEN 0
  ELSE IF j - k <= Len(P) - 2 THEN j - k
  ELSE IF j - k <= Len(P) + 3 THEN j - k - 1 ELSE Len(P) + 2

\* The kinds of a step.
Move(e, P, k, j, s) ==
  \/ /\ j < k /\ j + 1 \in 1 .. 2 /\ s = Put(e + (j + 1), Zero)
     /\ Written(P, k, j) = 0 /\ Written(P, k, j + 1) = 0
  \/ /\ j >= k /\ j + 1 < k + Len(P) + 4
     /\ Written(P, k, j) \in Nat /\ Written(P, k, j + 1) = Written(P, k, j) + 1
     /\ s = Put(e + Written(P, k, j + 1), Target(P, Written(P, k, j + 1)))
  \/ s = Sync /\ Written(P, k, j + 1) = Written(P, k, j) /\ Written(P, k, j) \in Nat /\ j + 1 >= k
  \/ s = SyncDirectory /\ Written(P, k, j + 1) = Written(P, k, j) /\ j >= k + Len(P) + 4 /\ Written(P, k, j) \in Nat

\* Every step of a plan is of one of these kinds.
LEMMA StepMoves ==
  ASSUME NEW q, NEW e \in Nat, NEW P, Len(P) \in Nat, Len(P) >= 3, NEW k \in Nat, Stepped(q, e, P, k),
         NEW j \in Nat, j + 1 <= Len(q)
  PROVE  Move(e, P, k, j, q[j + 1])
<1>1. k \in {0, 3} /\ Len(q) \in {k + Len(P) + 4, k + Len(P) + 5}
  BY DEF Stepped
<1>2. CASE j < k
  <2>1. k = 3 /\ q[1] = Put(e + 1, Zero) /\ q[2] = Put(e + 2, Zero) /\ q[3] = Sync
    BY <1>1, <1>2 DEF Stepped
  <2>2. Written(P, k, j) = 0 /\ Written(P, k, j + 1) = 0
    BY <1>2 DEF Written
  <2>3. j = 0 \/ j = 1 \/ j = 2
    BY <1>2, <2>1
  <2>4. CASE j = 0
    BY <1>2, <2>1, <2>2, <2>4 DEF Move
  <2>5. CASE j = 1
    BY <1>2, <2>1, <2>2, <2>5 DEF Move
  <2>6. CASE j = 2
    BY <1>2, <2>1, <2>2, <2>6 DEF Move
  <2>7. QED
    BY <2>3, <2>4, <2>5, <2>6
<1>3. CASE j >= k /\ j - k + 1 <= Len(P) - 2
  <2>1. PICK i \in 1 .. Len(P) - 2 : i = j - k + 1
    BY <1>3
  <2>2. Written(P, k, j) = i - 1 /\ Written(P, k, j + 1) = i
    BY <1>3, <2>1 DEF Written
  <2>3. q[k + i] = Put(e + i, P[i])
    BY <2>1 DEF Stepped
  <2>4. k + i = j + 1 /\ Target(P, i) = P[i] /\ j + 1 < k + Len(P) + 4 /\ i - 1 \in Nat /\ i = i - 1 + 1
    BY <1>3, <2>1 DEF Target
  <2>5. QED
    BY <1>3, <2>2, <2>3, <2>4 DEF Move
<1>4. CASE j >= k /\ j - k + 1 = Len(P) - 1
  <2>1. j + 1 = k + Len(P) - 1
    BY <1>4
  <2>2. q[j + 1] = Sync
    BY <2>1 DEF Stepped
  <2>3. Written(P, k, j + 1) = Written(P, k, j) /\ Written(P, k, j) \in Nat
    BY <1>4 DEF Written
  <2>4. j + 1 >= k
    BY <1>4
  <2>5. QED
    BY <2>2, <2>3, <2>4 DEF Move
<1>5. CASE j >= k /\ j - k + 1 \in Len(P) .. Len(P) + 3
  <2>1. PICK i \in Len(P) - 1 .. Len(P) + 2 : i = j - k
    BY <1>5
  <2>2. Written(P, k, j) = i - 1 /\ Written(P, k, j + 1) = i
    BY <1>5, <2>1 DEF Written
  <2>3. j + 1 = k + i + 1 /\ j + 1 < k + Len(P) + 4 /\ i - 1 \in Nat /\ i = i - 1 + 1
    BY <1>5, <2>1
  <2>4. q[j + 1] = Put(e + i, Target(P, i))
    <3>1. i = Len(P) - 1 \/ i = Len(P) \/ i = Len(P) + 1 \/ i = Len(P) + 2
      BY <2>1
    <3>2. CASE i = Len(P) - 1
      <4>1. j + 1 = k + Len(P) /\ e + i = e + Len(P) - 1 /\ Target(P, i) = P[Len(P) - 1]
        BY <2>3, <3>2 DEF Target
      <4>2. QED
        BY <4>1 DEF Stepped
    <3>3. CASE i = Len(P)
      <4>1. j + 1 = k + Len(P) + 1 /\ e + i = e + Len(P) /\ Target(P, i) = P[Len(P)]
        BY <2>3, <3>3 DEF Target
      <4>2. QED
        BY <4>1 DEF Stepped
    <3>4. CASE i = Len(P) + 1
      <4>1. j + 1 = k + Len(P) + 2 /\ e + i = e + Len(P) + 1 /\ Target(P, i) = Zero
        BY <2>3, <3>4 DEF Target
      <4>2. QED
        BY <4>1 DEF Stepped
    <3>5. CASE i = Len(P) + 2
      <4>1. j + 1 = k + Len(P) + 3 /\ e + i = e + Len(P) + 2 /\ Target(P, i) = Zero
        BY <2>3, <3>5 DEF Target
      <4>2. QED
        BY <4>1 DEF Stepped
    <3>6. QED
      BY <3>1, <3>2, <3>3, <3>4, <3>5
  <2>5. QED
    BY <1>5, <2>2, <2>3, <2>4 DEF Move
<1>6. CASE j >= k /\ j - k + 1 = Len(P) + 4
  <2>1. j + 1 = k + Len(P) + 4
    BY <1>6
  <2>2. q[j + 1] = Sync
    BY <2>1 DEF Stepped
  <2>3. Written(P, k, j + 1) = Written(P, k, j) /\ Written(P, k, j) \in Nat
    BY <1>6 DEF Written
  <2>4. j + 1 >= k
    BY <1>6
  <2>5. QED
    BY <2>2, <2>3, <2>4 DEF Move
<1>7. CASE j >= k /\ j - k + 1 = Len(P) + 5
  <2>1. j + 1 = k + Len(P) + 5 /\ Len(q) = k + Len(P) + 5 /\ j + 1 = Len(q) /\ j >= k + Len(P) + 4
    BY <1>1, <1>7
  <2>2. q[j + 1] = SyncDirectory
    BY <2>1 DEF Stepped
  <2>3. Written(P, k, j + 1) = Written(P, k, j) /\ Written(P, k, j) \in Nat
    BY <1>7 DEF Written
  <2>4. QED
    BY <2>1, <2>2, <2>3 DEF Move
<1>8. \/ j < k
      \/ j >= k /\ j - k + 1 <= Len(P) - 2
      \/ j >= k /\ j - k + 1 = Len(P) - 1
      \/ j >= k /\ j - k + 1 \in Len(P) .. Len(P) + 3
      \/ j >= k /\ j - k + 1 = Len(P) + 4
      \/ j >= k /\ j - k + 1 = Len(P) + 5
  BY <1>1
<1>9. QED
  BY <1>2, <1>3, <1>4, <1>5, <1>6, <1>7, <1>8

\* The steps that are left when j of them have been taken.
Rest(todo, q, j) ==
  /\ todo \in Seq(Step) /\ j \in Nat /\ Len(q) \in Nat /\ Len(todo) = Len(q) - j
  /\ \A i \in 1 .. Len(todo) : todo[i] = q[j + i]

\* Taking the first of the steps left is taking the next one of the plan.
LEMMA RestNext ==
  ASSUME NEW todo, NEW q, NEW j, Rest(todo, q, j), todo # <<>>
  PROVE  /\ j \in Nat /\ j + 1 <= Len(q) /\ Head(todo) = q[j + 1] /\ Rest(Tail(todo), q, j + 1)
<1>1. todo \in Seq(Step) /\ j \in Nat /\ Len(q) \in Nat /\ Len(todo) = Len(q) - j /\ Len(todo) \in Nat
      /\ \A i \in 1 .. Len(todo) : todo[i] = q[j + i]
  BY DEF Rest
<1>2. Len(todo) >= 1
  BY <1>1, EmptySeq
<1>3. Head(todo) = todo[1] /\ 1 \in 1 .. Len(todo)
  BY <1>1, <1>2
<1>4. Tail(todo) \in Seq(Step) /\ Len(Tail(todo)) = Len(todo) - 1
      /\ \A i \in 1 .. Len(todo) - 1 : Tail(todo)[i] = todo[i + 1]
  BY <1>1, <1>2, HeadTailProperties
<1>5. ASSUME NEW i \in 1 .. Len(todo) - 1
      PROVE  Tail(todo)[i] = q[j + 1 + i]
  <2>1. i + 1 \in 1 .. Len(todo) /\ j + (i + 1) = j + 1 + i
    BY <1>1
  <2>2. QED
    BY <1>1, <1>4, <2>1
<1>6. QED
  BY <1>1, <1>2, <1>3, <1>4, <1>5 DEF Rest

\* What the file and the images hold of the open append after j of its steps.
Placed(P, k, t, e, j, c, images) ==
  /\ \A i \in 1 .. Written(P, k, j) : e + i <= Len(c) /\ c[e + i] = Target(P, i)
  /\ \A i \in 1 .. 2 : j < k /\ i <= j => e + i <= Len(c) /\ c[e + i] = Zero
  /\ j >= k + Len(P) + 4 => images = {c}
  /\ \A x \in images : \A p \in 1 .. Len(x) : Owner(x[p]) = t => p <= e + Written(P, k, j)
  /\ faults = 0 => Len(c) <= e + 2 \/ Len(c) <= e + Written(P, k, j)

\* The open append t with its plan.
Open(d, t, e, P, k) ==
  /\ t \in Appends /\ fate[t] = "open" /\ \A u \in Appends : u > t => fate[u] = "new"
  /\ e = d[t].start /\ P = d[t].blocks /\ k = d[t].clear
  /\ e \in Nat /\ Len(P) \in Nat /\ Len(P) >= 3 /\ k \in Nat
  /\ P \in Seq(Block) /\ Transaction(P, t, asked[t], d[t].replace)

\* The blocks of the plan belong to the append, those of the footer to none.
LEMMA TargetOwner ==
  ASSUME NEW d, NEW t, NEW e, NEW P, NEW k, Open(d, t, e, P, k), NEW i \in Nat, i >= 1
  PROVE  /\ Target(P, i) \in Block
         /\ i <= Len(P) => Target(P, i) = P[i] /\ Owner(Target(P, i)) = t
         /\ i > Len(P) => Target(P, i) = Zero /\ Owner(Target(P, i)) = 0
<1>1. P \in Seq(Block) /\ Len(P) \in Nat /\ \A x \in 1 .. Len(P) : Owner(P[x]) = t
  BY DEF Open, Transaction
<1>2. CASE i <= Len(P)
  <2>1. i \in 1 .. Len(P)
    BY <1>1, <1>2
  <2>2. P[i] \in Block
    BY <1>1, <2>1
  <2>3. QED
    BY <1>1, <1>2, <2>1, <2>2 DEF Target
<1>3. CASE i > Len(P)
  <2>1. ~(i <= Len(P))
    BY <1>1, <1>3
  <2>2. QED
    BY <2>1, ZeroIsFree DEF Target
<1>4. QED
  BY <1>1, <1>2, <1>3

\* The next block of the append's own place.
LEMMA WriteTarget ==
  ASSUME NEW d, NEW t, NEW e, NEW P, NEW k, Open(d, t, e, P, k), NEW j \in Nat, j >= k,
         NEW c \in Seq(Block), NEW images, c \in images, e <= Len(c), Placed(P, k, t, e, j, c, images),
         NEW i, Written(P, k, j) \in Nat, i = Written(P, k, j) + 1, Written(P, k, j + 1) = i,
         j + 1 < k + Len(P) + 4,
         NEW r, Overwritten(c, e + i, Target(P, i), r)
  PROVE  Writing(d, c, t, e, i, Target(P, i), r) /\ Placed(P, k, t, e, j + 1, r, images \union {r})
<1>1. t \in Appends /\ t # 0 /\ fate[t] = "open" /\ e \in Nat /\ Len(P) \in Nat /\ Len(P) >= 3 /\ k \in Nat
      /\ (\A u \in Appends : u > t => fate[u] = "new") /\ P = d[t].blocks
  BY CallsAssumption DEF Open, Appends
<1>2. PICK w \in Nat : w = Written(P, k, j)
  OBVIOUS
<1>3. i \in Nat /\ i >= 1 /\ i = w + 1 /\ Len(c) \in Nat
  BY <1>2
<1>4. /\ \A x \in 1 .. w : e + x <= Len(c) /\ c[e + x] = Target(P, x)
      /\ \A y \in images : \A p \in 1 .. Len(y) : Owner(y[p]) = t => p <= e + w
      /\ faults = 0 => Len(c) <= e + 2 \/ Len(c) <= e + w
  BY <1>2 DEF Placed
<1>5. PICK z : z = e + i
  OBVIOUS
<1>6. z \in Nat /\ z <= Len(c) + 1 /\ z = e + i /\ z >= 1
  <2>1. CASE w = 0
    BY <1>1, <1>3, <1>5, <2>1
  <2>2. CASE w # 0
    <3>1. w \in 1 .. w
      BY <1>2, <2>2
    <3>2. e + w <= Len(c)
      BY <1>4, <3>1
    <3>3. e \in Nat /\ w \in Nat
      BY <1>1, <1>2
    <3>4. e + i = e + w + 1 /\ e + i \in Nat /\ e + i >= 1
      BY <1>3, <3>3
    <3>5. e + w + 1 <= Len(c) + 1
      BY <1>3, <3>2, <3>3
    <3>6. QED
      BY <1>5, <3>4, <3>5
  <2>3. QED
    BY <2>1, <2>2
<1>7. PICK b : b = Target(P, i)
  OBVIOUS
<1>8. b \in Block /\ (i <= Len(P) => b = P[i] /\ Owner(b) = t) /\ (i > Len(P) => b = Zero /\ Owner(b) = 0)
  BY <1>3, <1>7, TargetOwner
<1>9. r \in Seq(Block) /\ Len(r) = (IF z <= Len(c) THEN Len(c) ELSE z) /\ r[z] = b
      /\ \A q \in 1 .. Len(c) : q # z => r[q] = c[q]
  BY <1>5, <1>7 DEF Overwritten
<1>10. Len(r) \in Nat /\ Len(c) <= Len(r) /\ z <= Len(r) /\ z \in 1 .. Len(r)
  BY <1>3, <1>6, <1>9
<1>11. ASSUME NEW x \in 1 .. i
       PROVE  e + x <= Len(r) /\ r[e + x] = Target(P, x)
  <2>1. CASE x = i
    BY <1>5, <1>7, <1>9, <1>10, <2>1
  <2>2. CASE x # i
    <3>1. x \in 1 .. w
      BY <1>2, <1>3, <2>2
    <3>2. e + x <= Len(c) /\ c[e + x] = Target(P, x) /\ e + x \in 1 .. Len(c) /\ e + x # z
      BY <1>1, <1>3, <1>4, <1>5, <2>2, <3>1
    <3>3. QED
      BY <1>9, <1>10, <3>2, <1>3
  <2>3. QED
    BY <2>1, <2>2
<1>12. ASSUME NEW q \in 1 .. Len(r), Owner(r[q]) = t
       PROVE  q <= e + i
  <2>1. CASE q = z
    BY <1>5, <1>6, <2>1
  <2>2. CASE q # z
    <3>1. q \in 1 .. Len(c)
      BY <1>3, <1>6, <1>9, <2>2
    <3>2. Owner(c[q]) = t
      BY <1>9, <1>12, <2>2, <3>1
    <3>3. q <= e + w
      BY <1>4, <3>1, <3>2
    <3>4. QED
      BY <1>1, <1>3, <3>1, <3>3
  <2>3. QED
    BY <2>1, <2>2
<1>13. ASSUME NEW q \in 1 .. Len(r), Owner(r[q]) = t, NEW p \in e + 1 .. q
       PROVE  Owner(r[p]) = t
  <2>1. q <= e + i
    BY <1>12, <1>13
  <2>2. PICK y \in Nat : y = q - e
    BY <1>1, <1>10, <1>13
  <2>3. PICK x \in Nat : x = p - e
    BY <1>1, <1>10, <1>13
  <2>4. y \in 1 .. i /\ x \in 1 .. y /\ q = e + y /\ p = e + x /\ x \in 1 .. i
    <3>1. e \in Nat /\ i \in Nat /\ q \in Nat /\ p \in Nat
      BY <1>1, <1>3, <1>10, <1>13
    <3>2. p >= e + 1 /\ p <= q
      BY <1>13, <3>1
    <3>3. QED
      BY <2>1, <2>2, <2>3, <3>1, <3>2
  <2>5. Owner(Target(P, y)) = t
    BY <1>11, <1>13, <2>4
  <2>6. y <= Len(P)
    <3>1. y > Len(P) => Owner(Target(P, y)) = 0
      BY <2>4, TargetOwner
    <3>2. QED
      BY <1>1, <2>2, <2>5, <3>1
  <2>7. x <= Len(P) /\ x >= 1
    BY <1>1, <2>2, <2>3, <2>4, <2>6
  <2>8. Owner(Target(P, x)) = t
    BY <2>7, TargetOwner
  <2>9. QED
    BY <1>11, <2>4, <2>8
<1>14. i > 1 => Owner(c[e + 1]) \in {0, t}
  <2>1. SUFFICES ASSUME i > 1 PROVE Owner(c[e + 1]) \in {0, t}
    OBVIOUS
  <2>2. 1 \in 1 .. w
    BY <1>2, <1>3, <2>1
  <2>3. c[e + 1] = Target(P, 1)
    BY <1>4, <2>2
  <2>4. Owner(Target(P, 1)) = t
    BY <1>1, TargetOwner
  <2>5. QED
    BY <2>3, <2>4
<1>15. Writing(d, c, t, e, i, b, r)
  <2>1. b = Zero \/ (i <= Len(d[t].blocks) /\ b = d[t].blocks[i])
    BY <1>1, <1>3, <1>8
  <2>2. Overwritten(c, e + i, b, r) /\ e + i <= Len(c) + 1
    BY <1>5, <1>6, <1>7
  <2>3. QED
    BY <1>1, <1>3, <1>8, <1>13, <1>14, <2>1, <2>2 DEF Writing
<1>16. Placed(P, k, t, e, j + 1, r, images \union {r})
  <2>1. Written(P, k, j + 1) = i
    OBVIOUS
  <2>2. ~(j + 1 < k) /\ ~(j + 1 >= k + Len(P) + 4)
    BY <1>1
  <2>3. ASSUME NEW x \in images \union {r}, NEW p \in 1 .. Len(x), Owner(x[p]) = t
        PROVE  p <= e + i
    <3>1. CASE x = r
      BY <1>12, <2>3, <3>1
    <3>2. CASE x \in images
      <4>1. p <= e + w
        BY <1>4, <2>3, <3>2
      <4>2. QED
        BY <1>1, <1>3, <4>1
    <3>3. QED
      BY <2>3, <3>1, <3>2
  <2>4. faults = 0 => Len(r) <= e + 2 \/ Len(r) <= e + i
    <3>1. SUFFICES ASSUME faults = 0 PROVE Len(r) <= e + 2 \/ Len(r) <= e + i
      OBVIOUS
    <3>2. Len(c) <= e + 2 \/ Len(c) <= e + w
      BY <1>4, <3>1
    <3>3. Len(r) = IF z <= Len(c) THEN Len(c) ELSE z
      BY <1>9
    <3>4. e \in Nat /\ Len(c) \in Nat /\ z = e + i /\ i = w + 1 /\ w \in Nat
      BY <1>1, <1>3, <1>6
    <3>5. QED
      BY <3>2, <3>3, <3>4
  <2>5. QED
    BY <1>11, <2>1, <2>2, <2>3, <2>4 DEF Placed
<1>17. QED
  BY <1>7, <1>15, <1>16

\* j blocks of a footer lie behind e.
Zeroed(c, e, j) == \A i \in 1 .. 2 : i <= j => e + i <= Len(c) /\ c[e + i] = Zero

\* Writing the next block of a footer behind e.
LEMMA WriteZero ==
  ASSUME NEW d, NEW t, NEW e, NEW P, NEW k, Open(d, t, e, P, k), NEW c \in Seq(Block), e <= Len(c),
         NEW j \in 0 .. 1, Zeroed(c, e, j), NEW r, Overwritten(c, e + (j + 1), Zero, r)
  PROVE  /\ Writing(d, c, t, e, j + 1, Zero, r) /\ Zeroed(r, e, j + 1)
         /\ Len(r) <= Len(c) \/ Len(r) <= e + 2
         /\ \A q \in 1 .. Len(r) : Owner(r[q]) = t => q \in 1 .. Len(c) /\ Owner(c[q]) = t
<1>1. t \in Appends /\ t # 0 /\ fate[t] = "open" /\ e \in Nat /\ \A u \in Appends : u > t => fate[u] = "new"
  BY CallsAssumption DEF Open, Appends
<1>2. j + 1 \in 1 .. 2 /\ j + 1 \in Nat /\ j + 1 >= 1 /\ Len(c) \in Nat
  OBVIOUS
<1>3. e + (j + 1) <= Len(c) + 1 /\ (j + 1 > 1 => c[e + 1] = Zero /\ e + 1 <= Len(c))
  <2>1. CASE j = 0
    BY <1>1, <1>2, <2>1
  <2>2. CASE j = 1
    <3>1. e + 1 <= Len(c) /\ c[e + 1] = Zero
      BY <2>2 DEF Zeroed
    <3>2. QED
      BY <1>1, <1>2, <2>2, <3>1
  <2>3. QED
    BY <2>1, <2>2
<1>4. PICK z \in Nat : z = e + (j + 1)
  BY <1>1, <1>2
<1>5. r \in Seq(Block) /\ Len(r) = (IF z <= Len(c) THEN Len(c) ELSE z) /\ r[z] = Zero
      /\ \A q \in 1 .. Len(c) : q # z => r[q] = c[q]
  BY <1>4 DEF Overwritten
<1>6. Len(r) \in Nat /\ Len(c) <= Len(r) /\ z <= Len(r) /\ z >= 1 /\ z <= Len(c) + 1 /\ z <= e + 2
  BY <1>1, <1>2, <1>3, <1>4, <1>5
<1>7. r[e + 1] = Zero /\ e + 1 <= Len(r)
  <2>1. CASE j = 0
    BY <1>1, <1>4, <1>5, <1>6, <2>1
  <2>2. CASE j = 1
    <3>1. c[e + 1] = Zero /\ e + 1 \in 1 .. Len(c) /\ e + 1 # z
      BY <1>1, <1>2, <1>3, <1>4, <2>2
    <3>2. QED
      BY <1>5, <1>6, <3>1, <1>2, <1>1
  <2>3. QED
    BY <2>1, <2>2
<1>8. Writing(d, c, t, e, j + 1, Zero, r)
  <2>1. j + 1 > 1 => Owner(c[e + 1]) \in {0, t}
    BY <1>3, ZeroIsFree
  <2>2. ~Is(r, e + 1, t)
    BY <1>1, <1>7, ZeroIsFree DEF Is
  <2>3. QED
    BY <1>1, <1>2, <1>3, <2>1, <2>2, ZeroIsFree DEF Writing
<1>9. Zeroed(r, e, j + 1)
  <2>1. SUFFICES ASSUME NEW i \in 1 .. 2, i <= j + 1
                 PROVE  e + i <= Len(r) /\ r[e + i] = Zero
    BY DEF Zeroed
  <2>2. CASE i = 1
    BY <1>7, <2>2
  <2>3. CASE i = 2
    <3>1. e + i = z
      BY <1>2, <1>4, <2>1, <2>3
    <3>2. QED
      BY <1>5, <1>6, <3>1
  <2>4. QED
    BY <2>2, <2>3
<1>10. Len(r) <= Len(c) \/ Len(r) <= e + 2
  BY <1>1, <1>2, <1>5, <1>6
<1>11. ASSUME NEW q \in 1 .. Len(r), Owner(r[q]) = t
       PROVE  q \in 1 .. Len(c) /\ Owner(c[q]) = t
  <2>1. q # z
    BY <1>1, <1>5, <1>11, ZeroIsFree
  <2>2. q \in 1 .. Len(c)
    BY <1>2, <1>5, <1>6, <2>1
  <2>3. QED
    BY <1>5, <1>11, <2>1, <2>2
<1>12. QED
  BY <1>8, <1>9, <1>10, <1>11

\* Clearing the place.
LEMMA WriteClear ==
  ASSUME NEW d, NEW t, NEW e, NEW P, NEW k, Open(d, t, e, P, k), NEW j \in 0 .. 1, j < k,
         NEW c \in Seq(Block), NEW images, c \in images, e <= Len(c), Placed(P, k, t, e, j, c, images),
         Written(P, k, j) = 0, Written(P, k, j + 1) = 0,
         NEW r, Overwritten(c, e + (j + 1), Zero, r)
  PROVE  Writing(d, c, t, e, j + 1, Zero, r) /\ Placed(P, k, t, e, j + 1, r, images \union {r})
<1>1. Zeroed(c, e, j)
  BY DEF Placed, Zeroed
<1>2. /\ Writing(d, c, t, e, j + 1, Zero, r) /\ Zeroed(r, e, j + 1)
      /\ Len(r) <= Len(c) \/ Len(r) <= e + 2
      /\ \A q \in 1 .. Len(r) : Owner(r[q]) = t => q \in 1 .. Len(c) /\ Owner(c[q]) = t
  BY <1>1, WriteZero
<1>3. e \in Nat /\ k \in Nat /\ Len(P) \in Nat /\ Len(c) \in Nat /\ Len(r) \in Nat
  BY <1>2 DEF Open, Writing, Overwritten
<1>4. \A x \in images \union {r} : \A p \in 1 .. Len(x) : Owner(x[p]) = t => p <= e + Written(P, k, j + 1)
  <2>1. \A x \in images : \A p \in 1 .. Len(x) : Owner(x[p]) = t => p <= e + Written(P, k, j + 1)
    BY DEF Placed
  <2>2. QED
    BY <1>2, <2>1
<1>5. ~(j + 1 >= k + Len(P) + 4) /\ 1 .. 0 = {}
  BY <1>3
<1>6. faults = 0 => Len(r) <= e + 2
  <2>1. SUFFICES ASSUME faults = 0 PROVE Len(r) <= e + 2
    OBVIOUS
  <2>2. Len(c) <= e + 2 \/ Len(c) <= e + 0
    BY <2>1 DEF Placed
  <2>3. QED
    BY <1>2, <1>3, <2>2
<1>7. Placed(P, k, t, e, j + 1, r, images \union {r})
  <2>1. \A i \in 1 .. 2 : j + 1 < k /\ i <= j + 1 => e + i <= Len(r) /\ r[e + i] = Zero
    BY <1>2 DEF Zeroed
  <2>2. \A i \in 1 .. Written(P, k, j + 1) : e + i <= Len(r) /\ r[e + i] = Target(P, i)
    BY <1>5
  <2>3. QED
    BY <1>4, <1>5, <1>6, <2>1, <2>2 DEF Placed
<1>8. QED
  BY <1>2, <1>7

\* Before the first fault what lies behind the prefix is calm.
LEMMA CalmPlaced ==
  ASSUME NEW d, NEW t, NEW e, NEW P, NEW k, Open(d, t, e, P, k), NEW j \in Nat, NEW c \in Seq(Block),
         NEW images, c \in images, Placed(P, k, t, e, j, c, images), Written(P, k, j) \in Nat, faults = 0,
         Clean(c, e), \A p \in e + 1 .. Len(c) : Owner(c[p]) \in {0, t}
  PROVE  Calm(c, e, t)
<1>1. PICK w \in Nat : w = Written(P, k, j)
  OBVIOUS
<1>2. t \in Appends /\ t # 0 /\ e \in Nat /\ Len(P) \in Nat /\ Len(P) >= 3 /\ Len(c) \in Nat
      /\ Transaction(P, t, asked[t], d[t].replace)
  BY CallsAssumption DEF Open, Appends
<1>3. /\ \A x \in 1 .. w : e + x <= Len(c) /\ c[e + x] = Target(P, x)
      /\ \A p \in 1 .. Len(c) : Owner(c[p]) = t => p <= e + w
      /\ Len(c) <= e + 2 \/ Len(c) <= e + w
  BY <1>1 DEF Placed
\* A block of t behind e is one of its plan.
<1>4. ASSUME NEW p \in e + 1 .. Len(c), Owner(c[p]) = t
      PROVE  \E x \in 1 .. Len(P) : p = e + x /\ x <= w
  <2>1. p \in 1 .. Len(c) /\ p <= e + w
    BY <1>2, <1>3, <1>4
  <2>2. PICK x \in 1 .. w : x = p - e /\ p = e + x
    BY <1>1, <1>2, <2>1
  <2>3. c[p] = Target(P, x)
    BY <1>3, <2>2
  <2>4. x > Len(P) => Owner(Target(P, x)) = 0
    BY <2>2, TargetOwner
  <2>5. x <= Len(P)
    BY <1>2, <1>4, <2>2, <2>3, <2>4
  <2>6. QED
    BY <1>2, <2>2, <2>5
<1>5. ASSUME NEW p \in e + 1 .. Len(c), NEW q \in e + 1 .. Len(c), p < q, Owner(c[p]) = 0
      PROVE  Owner(c[q]) = 0
  <2>1. SUFFICES ASSUME Owner(c[q]) = t PROVE FALSE
    OBVIOUS
  <2>2. PICK y \in 1 .. Len(P) : q = e + y /\ y <= w
    BY <1>4, <2>1
  <2>3. PICK x \in Nat : x = p - e
    BY <1>2
  <2>4. x \in 1 .. w /\ x >= 1 /\ x <= Len(P) /\ p = e + x
    BY <1>1, <1>2, <1>5, <2>2, <2>3
  <2>5. c[p] = Target(P, x)
    BY <1>3, <2>4
  <2>6. Owner(Target(P, x)) = t
    BY <2>4, TargetOwner
  <2>7. QED
    BY <1>2, <1>5, <2>5, <2>6
<1>6. ASSUME NEW p \in e + 1 .. Len(c) - 1, c[p].kind = "commit"
      PROVE  c[p + 1].kind = "rows"
  <2>1. p \in 1 .. Len(c) /\ p \in e + 1 .. Len(c) /\ c[p] \in Block
    BY <1>2
  <2>2. Owner(c[p]) # 0
    BY <1>6, <2>1, BlockFields, ZeroIsFree DEF Blocklike
  <2>3. PICK x \in 1 .. Len(P) : p = e + x /\ x <= w
    BY <1>4, <2>1, <2>2
  <2>4. c[p] = P[x]
    <3>1. x \in 1 .. w /\ x \in Nat /\ x >= 1 /\ x <= Len(P)
      BY <1>1, <1>2, <2>3
    <3>2. c[p] = Target(P, x)
      BY <1>3, <2>3, <3>1
    <3>3. Target(P, x) = P[x]
      BY <3>1, TargetOwner
    <3>4. QED
      BY <3>2, <3>3
  <2>5. x = Len(P) - 1
    <3>1. CASE x \in 1 .. Len(P) - 2
      <4>1. P[x].kind \in {"data", "payload"}
        BY <1>2, <3>1 DEF Transaction
      <4>2. QED
        BY <1>6, <2>4, <4>1
    <3>2. CASE x = Len(P)
      <4>1. P[x].kind = "rows"
        BY <1>2, <3>2 DEF Transaction, Rows
      <4>2. QED
        BY <1>6, <2>4, <4>1
    <3>3. QED
      BY <1>2, <3>1, <3>2
  <2>6. Len(P) <= w
    BY <1>1, <1>2, <1>3, <1>6, <2>3, <2>5
  <2>7. Len(P) \in 1 .. w /\ Len(P) >= 1 /\ p + 1 = e + Len(P)
    BY <1>1, <1>2, <2>3, <2>5, <2>6
  <2>8. c[p + 1] = P[Len(P)]
    <3>1. c[p + 1] = Target(P, Len(P))
      BY <1>3, <2>7
    <3>2. QED
      BY <1>2, <2>7, <3>1, TargetOwner
  <2>9. QED
    BY <1>2, <2>8 DEF Transaction, Rows
<1>7. QED
  BY <1>5, <1>6 DEF Calm
-----------------------------------------------------------------------------
(* The invariant *)

\* The record of a working writer.
Manned(w, t, e) ==
  /\ w = [call |-> w.call, end |-> w.end, clear |-> w.clear, undoing |-> w.undoing,
          lent |-> w.lent, todo |-> w.todo]
  /\ w.call = t /\ w.end = e /\ w.undoing \in BOOLEAN

\* The append t at work: how far it is with its steps, or with undoing them.
Moving(d, t, e, P, k, todo, c, images) ==
  \E j \in Nat : Rest(todo, d[t].steps, j) /\ Placed(P, k, t, e, j, c, images)
Retreating(e, todo, c, images) ==
  \E j \in Nat : Rest(todo, Undoing(e), j) /\ Zeroed(c, e, j) /\ (j >= 3 => images = {c})

Working(d, t, e, P, k, w, c, images) ==
  /\ Manned(w, t, e) /\ Open(d, t, e, P, k) /\ Base(d, c, t, e) /\ Admits(d, t, At(c, e))
  /\ w.lent = At(c, e).entries
  /\ ~w.undoing => Moving(d, t, e, P, k, w.todo, c, images)
  /\ w.undoing => faults > 0 /\ Retreating(e, w.todo, c, images)
  /\ faults = 0 => \A x \in images : Calm(x, e, t) /\ Admits(d, t, At(x, e))

Busy(d) ==
  writer # Nobody =>
    \E t \in Appends, e \in Nat, P \in Seq(Block), k \in Nat : Working(d, t, e, P, k, writer, file, platter)

\* Between appends and before the first fault the file is its committed prefix and a footer.
Rested ==
  writer = Nobody /\ faults = 0 =>
    /\ platter = {file} /\ Calm(file, Scan(file).end, 0) /\ Len(file) <= Scan(file).end + 2

\* The open append is the writer's, and the calls are begun in their order.
Orderly ==
  /\ \A t \in Appends : fate[t] = "open" => writer # Nobody /\ writer.call = t
  /\ \A t, u \in Appends : t < u /\ fate[u] # "new" => fate[t] # "new"

Typed ==
  /\ file \in platter
  /\ link \in {"none", "volatile", "durable"}
  /\ fate \in [Appends -> {"new", "open", "done", "failed", "torn"}]
  /\ asked \in [Appends -> SUBSET Names]
  /\ faults \in 0 .. MaxFaults

\* One fault leaves the archive readable.
Survives == writer = Nobody /\ faults <= 1 => Readable(Scan(file))

Images(d) == \A c \in platter : Image(d, c)
Planned(d) == Known(d) /\ Images(d) /\ Busy(d)
Custody == Typed /\ Orderly /\ Rested /\ Survives /\ \E d \in Plans : Planned(d)

\* A content with the first and the last block of a transaction has all of them.
LEMMA TransactionBytes ==
  ASSUME NEW d, Known(d), NEW c, Image(d, c), NEW t \in Appends, Is(c, d[t].start + 1, t), Is(c, Fin(d, t), t)
  PROVE  /\ fate[t] # "new"
         /\ \A p \in d[t].start + 1 .. Fin(d, t) : p \in 1 .. Len(c) /\ c[p] = d[t].blocks[p - d[t].start]
<1>1. Faithful(d, c) /\ Whole(d, c) /\ Len(c) \in Nat /\ t # 0
  BY CallsAssumption DEF Image, Faithful, Appends
<1>2. fate[t] # "new"
  BY <1>1 DEF Faithful, Is
<1>3. PICK e \in Nat, P \in Seq(Block) :
           /\ e = d[t].start /\ P = d[t].blocks /\ Fin(d, t) = e + Len(P)
           /\ Transaction(P, t, asked[t], d[t].replace) /\ Len(P) \in Nat /\ Len(P) >= 3
  BY <1>2, PlanKnown
<1>4. SUFFICES ASSUME NEW p \in d[t].start + 1 .. Fin(d, t)
               PROVE  p \in 1 .. Len(c) /\ c[p] = d[t].blocks[p - d[t].start]
  BY <1>2
<1>5. PICK z \in 1 .. Len(c) : z = Fin(d, t) /\ Owner(c[z]) = t
  BY DEF Is
<1>6. p \in 1 .. Len(c) /\ p \in d[t].start + 1 .. z
  BY <1>1, <1>3, <1>5
<1>7. Owner(c[p]) = t
  BY <1>1, <1>5, <1>6 DEF Whole
<1>8. QED
  BY <1>1, <1>6, <1>7 DEF Faithful

\* Behind a header of the plan lies its payload.
LEMMA PlanBytes ==
  ASSUME NEW d, Known(d), NEW t \in Appends, fate[t] # "new", NEW n \in Names,
         NEW q, q \in d[t].start + 1 .. Fin(d, t), d[t].blocks[q - d[t].start] = Header(t, n)
  PROVE  /\ q \in Nat /\ q >= 1
         /\ \A i \in 1 .. Blocks[n] : /\ q + i \in d[t].start + 1 .. Fin(d, t)
                                      /\ d[t].blocks[q + i - d[t].start] = Payload(t, n)
<1>1. PICK e \in Nat, P \in Seq(Block) :
           /\ e = d[t].start /\ P = d[t].blocks /\ Fin(d, t) = e + Len(P)
           /\ Transaction(P, t, asked[t], d[t].replace) /\ Len(P) \in Nat /\ Len(P) >= 3
  BY PlanKnown
<1>2. q \in e + 1 .. e + Len(P) /\ P[q - e] = Header(t, n)
  BY <1>1
<1>3. Len(P) \in Nat /\ Len(P) >= 3
  BY <1>1
<1>4. PICK x \in 1 .. Len(P) : x = q - e /\ q = e + x
  BY <1>2, <1>3
<1>5. P[x] = Header(t, n) /\ P[x].kind = "data" /\ P[x].name = n
  BY <1>2, <1>4 DEF Header
<1>6. x \in 1 .. Len(P) - 2
  <2>1. x # Len(P)
    <3>1. P[Len(P)].kind = "rows"
      BY <1>1 DEF Transaction, Rows
    <3>2. QED
      BY <1>5, <3>1
  <2>2. x # Len(P) - 1
    <3>1. P[Len(P) - 1].kind = "commit"
      BY <1>1 DEF Transaction, CommitHeader
    <3>2. QED
      BY <1>5, <3>1
  <2>3. x \in Nat /\ x >= 1 /\ x <= Len(P)
    BY <1>3, <1>4
  <2>4. QED
    BY <1>3, <2>1, <2>2, <2>3
<1>7. x + Blocks[n] <= Len(P) - 2 /\ \A j \in 1 .. Blocks[n] : P[x + j] = Payload(t, n)
  BY <1>1, <1>5, <1>6 DEF Transaction
<1>8. Blocks[n] \in Nat
  BY BlocksAssumption
<1>9. q \in Nat /\ q >= 1
  BY <1>2, <1>3
<1>10. ASSUME NEW i \in 1 .. Blocks[n]
      PROVE  q + i \in e + 1 .. e + Len(P) /\ P[q + i - e] = Payload(t, n)
  <2>1. q + i - e = x + i /\ q + i \in e + 1 .. e + Len(P)
    <3>1. PICK m \in Nat : m = Blocks[n]
      BY <1>8
    <3>2. i \in 1 .. m /\ x + m <= Len(P) - 2 /\ x \in Nat
      BY <1>7, <3>1
    <3>3. QED
      BY <1>3, <1>4, <1>9, <3>2
  <2>2. QED
    BY <1>7, <2>1
<1>11. QED
  BY <1>1, <1>10, <1>9

\* What an entry of the walk points to.
Backed(d, c, s, n) ==
  \/ s.entries[n] = NoEntry /\ \A u \in s.calls : n \notin asked[u]
  \/ \E t \in Appends, q \in Nat :
       /\ t \in s.calls /\ s.entries[n] = [call |-> t, at |-> q] /\ q >= 1 /\ fate[t] # "new"
       /\ n \in asked[t] /\ \A u \in s.calls : n \in asked[u] => u <= t
       /\ Fin(d, t) <= s.end /\ q \in d[t].start + 1 .. Fin(d, t)
       /\ \A p \in d[t].start + 1 .. Fin(d, t) : p \in 1 .. Len(c) /\ c[p] = d[t].blocks[p - d[t].start]
       /\ \A i \in 1 .. Blocks[n] : /\ q + i \in d[t].start + 1 .. Fin(d, t)
                                    /\ d[t].blocks[q + i - d[t].start] = Payload(t, n)

\* Every entry that the walk shows is backed by the whole transaction it comes from.
LEMMA EntriesBacked ==
  ASSUME NEW d, Known(d), NEW c, Image(d, c), NEW s, NEW p, Reading(d, c, s, p), NEW n \in Names
  PROVE  Backed(d, c, s, n)
<1>1. CASE s.entries[n] = NoEntry /\ \A u \in s.calls : n \notin asked[u]
  BY <1>1 DEF Backed
<1>2. CASE ~(s.entries[n] = NoEntry /\ \A u \in s.calls : n \notin asked[u])
  <2>1. PICK t \in s.calls, q \in 1 .. Len(c) :
         /\ n \in asked[t] /\ Points(c, s.entries[n], t, n, q) /\ q <= s.end
         /\ \A u \in s.calls : n \in asked[u] => u <= t
    BY <1>2 DEF Reading, Shown
  <2>2. t \in Appends /\ Is(c, d[t].start + 1, t) /\ Is(c, Fin(d, t), t) /\ Fin(d, t) <= s.end
    BY <2>1 DEF Reading, Committed
  <2>3. /\ fate[t] # "new"
        /\ \A x \in d[t].start + 1 .. Fin(d, t) : x \in 1 .. Len(c) /\ c[x] = d[t].blocks[x - d[t].start]
    BY <2>2, TransactionBytes
  <2>4. c[q] = Header(t, n) /\ s.entries[n] = [call |-> t, at |-> q]
    BY <2>1 DEF Points
  <2>5. q \in d[t].start + 1 .. Fin(d, t) /\ d[t].blocks[q - d[t].start] = Header(t, n)
    <3>1. Owner(c[q]) = t /\ t # 0
      BY <2>2, <2>4, CallsAssumption DEF Owner, Header, Appends
    <3>2. Faithful(d, c)
      BY DEF Image
    <3>3. q > d[t].start /\ q <= Fin(d, t) /\ c[q] = d[t].blocks[q - d[t].start]
      BY <2>1, <3>1, <3>2 DEF Faithful
    <3>4. d[t].start + 1 \in 1 .. Len(c) /\ Fin(d, t) \in 1 .. Len(c)
      BY <2>2 DEF Is
    <3>5. PICK e \in Nat, P \in Seq(Block) :
           /\ e = d[t].start /\ P = d[t].blocks /\ Fin(d, t) = e + Len(P)
           /\ Transaction(P, t, asked[t], d[t].replace) /\ Len(P) \in Nat /\ Len(P) >= 3
      BY <2>2, <2>3, PlanKnown
    <3>6. q \in d[t].start + 1 .. Fin(d, t)
      BY <3>3, <3>5
    <3>7. QED
      BY <2>4, <3>3, <3>6
  <2>6. /\ q \in Nat /\ q >= 1
        /\ \A i \in 1 .. Blocks[n] : /\ q + i \in d[t].start + 1 .. Fin(d, t)
                                     /\ d[t].blocks[q + i - d[t].start] = Payload(t, n)
    BY <2>2, <2>3, <2>5, PlanBytes
  <2>7. QED
    BY <2>1, <2>2, <2>3, <2>4, <2>5, <2>6 DEF Backed
<1>3. QED
  BY <1>1, <1>2

\* What the scan of the file tells.
LEMMA ScanReads ==
  ASSUME NEW d, Known(d), NEW c, Image(d, c)
  PROVE  Len(c) \in Nat /\ Scan(c) = At(c, Len(c)) /\ Reading(d, c, Scan(c), Len(c))
<1>1. Faithful(d, c) /\ Layered(d, c) /\ Len(c) \in Nat
  BY DEF Image, Faithful
<1>2. \A p \in 0 .. Len(c) : Reading(d, c, At(c, p), p)
  BY <1>1, Readings
<1>3. Scan(c) = At(c, Len(c)) /\ Len(c) \in 0 .. Len(c)
  BY <1>1, ScanIsLast
<1>4. QED
  BY <1>1, <1>2, <1>3

\* The invariant has the types of the variables.
LEMMA CustodyTypes == Custody => ArchiveTypeOK
<1> SUFFICES ASSUME Custody PROVE ArchiveTypeOK
  OBVIOUS
<1>1. PICK d \in Plans : Planned(d)
  BY DEF Custody
<1>2. Image(d, file) /\ Typed
  BY <1>1 DEF Custody, Typed, Planned, Images
<1>3. file \in Seq(Block)
  BY <1>2 DEF Image, Faithful
<1>4. \A p \in DOMAIN file : file[p].kind \in {"zero", "data", "payload", "commit", "rows"}
  BY <1>3, BlockFields DEF Blocklike
<1>5. writer = Nobody \/ fate[writer.call] = "open"
  BY <1>1 DEF Planned, Busy, Working, Manned, Open
<1>6. QED
  BY <1>2, <1>4, <1>5 DEF ArchiveTypeOK, Typed

\* Readers of an idle archive are shown whole transactions with their own payload.
LEMMA CustodyShows == Custody => ExposureIsAtomic
<1> SUFFICES ASSUME Custody PROVE ExposureIsAtomic
  OBVIOUS
<1>1. PICK d \in Plans : Planned(d)
  BY DEF Custody
<1>2. Known(d) /\ Image(d, file)
  BY <1>1 DEF Custody, Typed, Planned, Images
<1>3. ArchiveTypeOK /\ (writer = Nobody /\ faults <= 1 => Readable(Scan(file)))
  BY CustodyTypes DEF Custody, Survives
<1>4. Reading(d, file, Scan(file), Len(file))
  BY <1>2, ScanReads
<1>5. PICK s : s = Scan(file)
  OBVIOUS
<1>6. ASSUME NEW n \in Names
      PROVE  s.entries[n].call = Newest(s.calls, n) /\ Intact(s.entries[n], n)
  <2>1. Backed(d, file, s, n)
    BY <1>2, <1>4, <1>5, EntriesBacked
  <2>2. CASE s.entries[n] = NoEntry /\ \A u \in s.calls : n \notin asked[u]
    BY <2>2 DEF Newest, Intact, NoEntry
  <2>3. CASE ~(s.entries[n] = NoEntry /\ \A u \in s.calls : n \notin asked[u])
    <3>1. PICK t \in Appends, q \in Nat :
       /\ t \in s.calls /\ s.entries[n] = [call |-> t, at |-> q] /\ q >= 1 /\ fate[t] # "new"
       /\ n \in asked[t] /\ \A u \in s.calls : n \in asked[u] => u <= t
       /\ Fin(d, t) <= s.end /\ q \in d[t].start + 1 .. Fin(d, t)
       /\ \A p \in d[t].start + 1 .. Fin(d, t) : p \in 1 .. Len(file) /\ file[p] = d[t].blocks[p - d[t].start]
       /\ \A i \in 1 .. Blocks[n] : /\ q + i \in d[t].start + 1 .. Fin(d, t)
                                    /\ d[t].blocks[q + i - d[t].start] = Payload(t, n)
      BY <2>1, <2>3 DEF Backed
    <3>2. Newest(s.calls, n) = t
      <4>1. s.calls \subseteq Appends
        BY <1>4, <1>5 DEF Reading, Committed
      <4> DEFINE W == {u \in s.calls : n \in asked[u]}
      <4>2. t \in W /\ (\A u \in W : u <= t) /\ W # {}
        BY <3>1
      <4>3. \A v \in W : (\A u \in W : u <= v) => v = t
        <5>1. SUFFICES ASSUME NEW v \in W, \A u \in W : u <= v PROVE v = t
          OBVIOUS
        <5>2. v <= t /\ t <= v /\ v \in Nat /\ t \in Nat
          BY <4>1, <4>2, <5>1 DEF Appends
        <5>3. QED
          BY <5>2
      <4>4. (CHOOSE v \in W : \A u \in W : u <= v) = t
        BY <4>2, <4>3
      <4>5. QED
        BY <4>2, <4>4 DEF Newest
    <3>3. Intact(s.entries[n], n)
      <4>1. PICK x : x = s.entries[n]
        OBVIOUS
      <4>2. x.at = q /\ x.call = t
        BY <3>1, <4>1
      <4>3. file \in Seq(Block) /\ DOMAIN file = 1 .. Len(file)
        BY <1>2 DEF Image, Faithful
      <4>4. \A i \in 1 .. Blocks[n] : q + i \in DOMAIN file /\ file[q + i] = Payload(t, n)
        <5>1. SUFFICES ASSUME NEW i \in 1 .. Blocks[n]
                       PROVE  q + i \in DOMAIN file /\ file[q + i] = Payload(t, n)
          OBVIOUS
        <5>2. i \in Nat
          <6>1. Blocks[n] \in Nat
            BY BlocksAssumption
          <6>2. QED
            BY <6>1
        <5>3. PICK p \in Nat : p = q + i
          BY <5>2
        <5>4. p \in d[t].start + 1 .. Fin(d, t) /\ d[t].blocks[p - d[t].start] = Payload(t, n)
          <6>1. q + i \in d[t].start + 1 .. Fin(d, t)
            BY <3>1
          <6>2. d[t].blocks[q + i - d[t].start] = Payload(t, n)
            BY <3>1
          <6>3. d[t].start \in Nat
            BY <1>2, <3>1, PlanKnown
          <6>4. QED
            BY <5>3, <5>2, <6>1, <6>2, <6>3
        <5>5. p \in 1 .. Len(file) /\ file[p] = d[t].blocks[p - d[t].start]
          BY <3>1, <5>4
        <5>6. QED
          BY <4>3, <5>3, <5>4, <5>5
      <4>5. QED
        BY <4>1, <4>2, <4>4 DEF Intact
    <3>4. QED
      BY <3>1, <3>2, <3>3
  <2>4. QED
    BY <2>2, <2>3
<1>7. QED
  BY <1>3, <1>5, <1>6 DEF ExposureIsAtomic, Idle

\* A readable archive shows what append_members told its callers and nothing else.
LEMMA CustodyTells == ASSUME ~DirectoryMayForget, Custody PROVE CallersAreToldTheTruth
<1>1. PICK d \in Plans : Planned(d)
  BY DEF Custody
<1>2. Known(d) /\ Image(d, file) /\ Typed /\ Orderly
  BY <1>1 DEF Custody, Typed, Planned, Images
<1>3. Faithful(d, file) /\ Layered(d, file) /\ Kept(d, file) /\ Undone(d, file)
  BY <1>2 DEF Image
<1>4. Len(file) \in Nat /\ Scan(file) = At(file, Len(file)) /\ Reading(d, file, Scan(file), Len(file))
  BY <1>2, ScanReads
<1>5. InFate("done") \subseteq Scan(file).calls
  <2>1. SUFFICES ASSUME NEW t \in Appends, fate[t] = "done" PROVE t \in Scan(file).calls
    BY DEF InFate
  <2>2. PICK z : z = Fin(d, t)
    OBVIOUS
  <2>3. z \in 0 .. Len(file) /\ t \in At(file, z).calls
    BY <1>3, <2>1, <2>2 DEF Kept, Clean
  <2>4. Len(file) \in z .. Len(file)
    BY <1>4, <2>3
  <2>5. At(file, z).calls \subseteq At(file, Len(file)).calls
    BY <1>2, <1>3, <2>3, <2>4, Onward
  <2>6. QED
    BY <1>4, <2>3, <2>5
<1>6. ASSUME Idle
      PROVE  Scan(file).calls \subseteq InFate("done") \union InFate("torn")
  <2>1. SUFFICES ASSUME NEW t \in Scan(file).calls PROVE t \in InFate("done") \union InFate("torn")
    OBVIOUS
  <2>2. t \in Appends /\ Is(file, d[t].start + 1, t) /\ t # 0
    BY <1>4, CallsAssumption DEF Reading, Committed, Appends
  <2>3. fate[t] # "new"
    BY <1>3, <2>2 DEF Faithful, Is
  <2>4. fate[t] # "failed"
    BY <1>3, <2>2 DEF Undone
  <2>5. fate[t] # "open"
    BY <1>2, <1>6, <2>2 DEF Orderly, Idle
  <2>6. fate[t] \in {"new", "open", "done", "failed", "torn"}
    BY <1>2, <2>2 DEF Typed
  <2>7. QED
    BY <2>2, <2>3, <2>4, <2>5, <2>6 DEF InFate
<1>7. QED
  BY <1>5, <1>6 DEF CallersAreToldTheTruth, AcknowledgedIsKept

\* Nothing has been written in the beginning.
LEMMA EmptyWalk == At(<<>>, 0) = Scan0 /\ Scan(<<>>) = Scan0 /\ Clean(<<>>, 0) /\ Readable(Scan(<<>>))
<1>1. Len(<<>>) = 0
  OBVIOUS
<1>2. At(<<>>, 0) = Scan0
  BY <1>1, AtStart
<1>3. Scan(<<>>) = Scan0
  BY <1>1, <1>2, ScanIsLast
<1>4. QED
  BY <1>1, <1>2, <1>3 DEF Scan0, Clean, Readable

\* The empty file has all that holds of a content, unless it lost an acknowledged append.
LEMMA EmptyImage == \A d : (\A t \in Appends : fate[t] # "done") \/ DirectoryMayForget => Image(d, <<>>)
<1>1. Len(<<>>) = 0 /\ 1 .. 0 = {}
  OBVIOUS
<1>2. <<>> \in Seq(Block)
  BY EmptySeq
<1>3. QED
  BY <1>1, <1>2 DEF Image, Faithful, Whole, Rooted, Layered, Undone, Kept, Is

\* The empty archive satisfies the invariant.
LEMMA CustodyInit == ArchiveInit => Custody
<1> SUFFICES ASSUME ArchiveInit PROVE Custody
  OBVIOUS
<1>1. /\ file = <<>> /\ platter = {<<>>} /\ link = "none" /\ writer = Nobody /\ faults = 0
      /\ fate = [t \in Appends |-> "new"] /\ asked = [t \in Appends |-> {}]
  BY DEF ArchiveInit
<1>2. Typed /\ Orderly
  BY <1>1, FaultsAssumption DEF Typed, Orderly
<1>3. Rested
  <2>1. Scan(file).end = 0 /\ Len(file) = 0 /\ 0 + 1 .. 0 = {}
    BY <1>1, EmptyWalk DEF Scan0
  <2>2. Clean(file, 0)
    BY <1>1, EmptyWalk
  <2>3. \A p : p \notin 0 + 1 .. Len(file) /\ p \notin 0 + 1 .. Len(file) - 1
    BY <2>1
  <2>4. Calm(file, 0, 0)
    BY <2>2, <2>3 DEF Calm
  <2>5. QED
    BY <1>1, <2>1, <2>4 DEF Rested
<1>4. Survives
  BY <1>1, EmptyWalk DEF Survives
<1>5. \E d \in Plans : Planned(d)
  <2> DEFINE d == [t \in Appends |-> [start |-> 0, blocks |-> <<>>, replace |-> FALSE, clear |-> 0, steps |-> <<>>]]
  <2>1. d \in Plans
    <3>1. <<>> \in Seq(Block) /\ <<>> \in Seq(Step)
      BY EmptySeq
    <3>2. QED
      BY <3>1 DEF Plans
  <2> HIDE DEF d
  <2>2. Known(d)
    BY <1>1, <2>1 DEF Known
  <2>3. Images(d)
    <3>1. \A t \in Appends : fate[t] # "done"
      BY <1>1
    <3>2. Image(d, <<>>)
      BY <3>1, EmptyImage
    <3>3. QED
      BY <1>1, <3>2 DEF Images
  <2>4. Busy(d)
    BY <1>1 DEF Busy
  <2>5. QED
    BY <2>1, <2>2, <2>3, <2>4 DEF Planned
<1>6. QED
  BY <1>2, <1>3, <1>4, <1>5 DEF Custody

\* The writer takes its next step.
Advanced(w, v) ==
  v = [w EXCEPT !.todo = Tail(@), !.clear = IF @ = 0 THEN 0 ELSE @ - 1]

\* The writer's step changes what is left to do, and nothing else of the writer.
LEMMA AdvancedFields ==
  ASSUME NEW w, NEW t, NEW e, Manned(w, t, e), NEW v, Advanced(w, v)
  PROVE  /\ Manned(v, t, e) /\ v.todo = Tail(w.todo) /\ v.undoing = w.undoing /\ v.lent = w.lent
         /\ v.call = t /\ w.call = t
<1>1. w = [call |-> w.call, end |-> w.end, clear |-> w.clear, undoing |-> w.undoing,
           lent |-> w.lent, todo |-> w.todo]
  BY DEF Manned
<1>2. PICK x : x = IF w.clear = 0 THEN 0 ELSE w.clear - 1
  OBVIOUS
<1>3. v = [w EXCEPT !.todo = Tail(w.todo), !.clear = x]
  BY <1>2 DEF Advanced
<1>4. v = [call |-> w.call, end |-> w.end, clear |-> x, undoing |-> w.undoing,
           lent |-> w.lent, todo |-> Tail(w.todo)]
  BY <1>1, <1>3
<1>5. QED
  BY <1>4 DEF Manned

\* What the open append's plan says.
LEMMA OpenPlan ==
  ASSUME NEW d, Known(d), NEW t, NEW e, NEW P, NEW k, Open(d, t, e, P, k)
  PROVE  Stepped(d[t].steps, e, P, k)
  BY DEF Open, Known

\* The first of these steps writes a block of the content.
Wrote(todo, c, r) ==
  /\ todo # <<>> /\ Head(todo).op = "write"
  /\ r = IF Head(todo).at \in DOMAIN c THEN [c EXCEPT ![Head(todo).at] = Head(todo).block]
         ELSE Append(c, Head(todo).block)

\* The content r and the steps behind the first one of todo carry on from c.
Onwards(d, t, e, P, k, todo, c, r, images) ==
  /\ Image(d, r) /\ Base(d, r, t, e) /\ At(r, e) = At(c, e)
  /\ Moving(d, t, e, P, k, Tail(todo), r, images \union {r})
  /\ faults = 0 /\ Calm(c, e, t) => Calm(r, e, t)

\* A write of the plan.
LEMMA WriteAhead ==
  ASSUME NEW d, Known(d), NEW t, NEW e, NEW P, NEW k, Open(d, t, e, P, k), NEW c, NEW images, c \in images,
         Image(d, c), Base(d, c, t, e), NEW todo, Moving(d, t, e, P, k, todo, c, images),
         NEW r, Wrote(todo, c, r)
  PROVE  Onwards(d, t, e, P, k, todo, c, r, images)
<1>1. PICK p, b : p = Head(todo).at /\ b = Head(todo).block
  OBVIOUS
<1>2. todo # <<>> /\ Head(todo).op = "write" /\ r = IF p \in DOMAIN c THEN [c EXCEPT ![p] = b] ELSE Append(c, b)
  BY <1>1 DEF Wrote
<1>3. PICK j \in Nat : Rest(todo, d[t].steps, j) /\ Placed(P, k, t, e, j, c, images)
  BY DEF Moving
<1>4. /\ j + 1 <= Len(d[t].steps) /\ Head(todo) = d[t].steps[j + 1] /\ Rest(Tail(todo), d[t].steps, j + 1)
  BY <1>3, <1>2, RestNext
<1>5. Stepped(d[t].steps, e, P, k) /\ e \in Nat /\ Len(P) \in Nat /\ Len(P) >= 3 /\ k \in Nat
  BY OpenPlan DEF Open
<1>6. PICK s : s = Head(todo)
  OBVIOUS
<1>7. Move(e, P, k, j, s)
  BY <1>4, <1>5, <1>6, StepMoves
<1>8. c \in Seq(Block) /\ e <= Len(c) /\ Len(c) \in Nat /\ Faithful(d, c)
  BY DEF Image, Faithful, Base, Clean
<1>9. \E i : /\ Writing(d, c, t, e, i, b, r) /\ Placed(P, k, t, e, j + 1, r, images \union {r})
             /\ Written(P, k, j + 1) \in Nat
  <2>1. s.op = "write" /\ p = s.at /\ b = s.block
    BY <1>6, <1>1, <1>2
  <2>2. s # Sync /\ s # SyncDirectory
    BY <2>1, StepFields
  <2>3. CASE /\ j < k /\ j + 1 \in 1 .. 2 /\ s = Put(e + (j + 1), Zero)
             /\ Written(P, k, j) = 0 /\ Written(P, k, j + 1) = 0
    <3>1. p = e + (j + 1) /\ b = Zero
      BY <2>1, <2>3, StepFields
    <3>2. Zeroed(c, e, j) /\ j \in 0 .. 1
      BY <1>3, <2>3 DEF Placed, Zeroed
    <3>3. p \in 1 .. Len(c) + 1
      <4>1. j = 1 => e + 1 <= Len(c)
        BY <3>2 DEF Zeroed
      <4>2. e \in Nat /\ Len(c) \in Nat /\ e <= Len(c)
        BY <1>5, <1>8
      <4>3. CASE j = 0
        BY <3>1, <4>2, <4>3
      <4>4. CASE j = 1
        <5>1. p = e + 2 /\ e + 1 <= Len(c)
          BY <3>1, <4>1, <4>2, <4>4
        <5>2. QED
          BY <4>2, <5>1
      <4>5. QED
        BY <3>2, <4>3, <4>4
    <3>4. Overwritten(c, e + (j + 1), Zero, r)
      BY <1>8, <3>1, <3>3, <1>2, ZeroIsFree, WriteOverwrites
    <3>5. Writing(d, c, t, e, j + 1, Zero, r) /\ Placed(P, k, t, e, j + 1, r, images \union {r})
      BY <1>3, <1>8, <2>3, <3>2, <3>4, WriteClear
    <3>6. QED
      BY <2>3, <3>1, <3>5
  <2>4. CASE /\ j >= k /\ j + 1 < k + Len(P) + 4
             /\ Written(P, k, j) \in Nat /\ Written(P, k, j + 1) = Written(P, k, j) + 1
             /\ s = Put(e + Written(P, k, j + 1), Target(P, Written(P, k, j + 1)))
    <3>1. PICK i \in Nat : i = Written(P, k, j) + 1 /\ i >= 1
      BY <2>4
    <3>2. p = e + i /\ b = Target(P, i)
      BY <2>1, <2>4, <3>1, StepFields
    <3>3. p \in 1 .. Len(c) + 1
      <4>1. PICK w \in Nat : w = Written(P, k, j)
        BY <2>4
      <4>2. w \in 1 .. w => e + w <= Len(c)
        BY <1>3, <4>1 DEF Placed
      <4>3. e \in Nat /\ Len(c) \in Nat /\ e <= Len(c) /\ p = e + w + 1
        BY <1>5, <1>8, <3>1, <3>2, <4>1
      <4>4. CASE w = 0
        BY <4>3, <4>4
      <4>5. CASE w # 0
        <5>1. w \in 1 .. w
          BY <4>5
        <5>2. e + w <= Len(c)
          BY <4>2, <5>1
        <5>3. QED
          BY <4>3, <5>2
      <4>6. QED
        BY <4>4, <4>5
    <3>4. b \in Block
      BY <3>1, <3>2, TargetOwner
    <3>5. Overwritten(c, e + i, Target(P, i), r)
      BY <1>8, <3>2, <3>3, <3>4, <1>2, WriteOverwrites
    <3>6. i = Written(P, k, j) + 1 /\ Written(P, k, j + 1) = i
      BY <2>4, <3>1
    <3>7. Writing(d, c, t, e, i, Target(P, i), r) /\ Placed(P, k, t, e, j + 1, r, images \union {r})
      BY <1>3, <1>8, <2>4, <3>5, <3>6, WriteTarget
    <3>8. QED
      BY <3>1, <3>2, <3>6, <3>7
  <2>5. QED
    BY <1>7, <2>2, <2>3, <2>4 DEF Move
<1>10. PICK i : /\ Writing(d, c, t, e, i, b, r) /\ Placed(P, k, t, e, j + 1, r, images \union {r})
               /\ Written(P, k, j + 1) \in Nat
  BY <1>9
<1>11. Image(d, r) /\ Base(d, r, t, e) /\ At(r, e) = At(c, e)
  BY <1>10, ImageWritten
<1>12. Moving(d, t, e, P, k, Tail(todo), r, images \union {r})
  <2>1. j + 1 \in Nat
    OBVIOUS
  <2>2. QED
    BY <1>4, <1>10, <2>1 DEF Moving
<1>13. ASSUME faults = 0, Calm(c, e, t)
       PROVE  Calm(r, e, t)
  <2>1. Changed(d, c, t, e, i, b, r)
    BY <1>8, <1>10, WriteFields
  <2>2. \A q \in e + 1 .. Len(r) : Owner(r[q]) \in {0, t}
    <3>1. SUFFICES ASSUME NEW q \in e + 1 .. Len(r) PROVE Owner(r[q]) \in {0, t}
      OBVIOUS
    <3>2. q \in 1 .. Len(r)
      BY <1>5
    <3>3. CASE q = e + i
      BY <2>1, <3>3 DEF Changed
    <3>4. CASE q # e + i
      <4>1. q \in 1 .. Len(c) /\ r[q] = c[q]
        BY <2>1, <3>2, <3>4 DEF Changed
      <4>2. q \in e + 1 .. Len(c)
        BY <3>1, <4>1
      <4>3. QED
        BY <1>13, <4>1, <4>2 DEF Calm
    <3>5. QED
      BY <3>3, <3>4
  <2>3. r \in Seq(Block) /\ Clean(r, e)
    BY <1>11, <2>1 DEF Changed, Base
  <2>4. r \in images \union {r} /\ j + 1 \in Nat
    OBVIOUS
  <2>5. PICK n \in Nat : n = j + 1
    BY <2>4
  <2>6. Placed(P, k, t, e, n, r, images \union {r}) /\ Written(P, k, n) \in Nat
    BY <1>10, <2>5
  <2>7. QED
    BY <1>13, <2>2, <2>3, <2>4, <2>6, CalmPlaced
<1>14. QED
  BY <1>11, <1>12, <1>13 DEF Onwards

\* A write of the undo.
LEMMA WriteBack ==
  ASSUME NEW d, Known(d), NEW t, NEW e, NEW P, NEW k, Open(d, t, e, P, k), NEW c, NEW images, c \in images,
         Image(d, c), Base(d, c, t, e), NEW todo, Retreating(e, todo, c, images),
         NEW r, Wrote(todo, c, r)
  PROVE  Image(d, r) /\ Base(d, r, t, e) /\ At(r, e) = At(c, e) /\ Retreating(e, Tail(todo), r, images \union {r})
<1>1. PICK p, b : p = Head(todo).at /\ b = Head(todo).block
  OBVIOUS
<1>2. todo # <<>> /\ Head(todo).op = "write" /\ r = IF p \in DOMAIN c THEN [c EXCEPT ![p] = b] ELSE Append(c, b)
  BY <1>1 DEF Wrote
<1>3. e \in Nat
  BY DEF Open
<1>4. PICK j \in Nat : Rest(todo, Undoing(e), j) /\ Zeroed(c, e, j)
  BY DEF Retreating
<1>5. /\ j + 1 <= Len(Undoing(e)) /\ Head(todo) = Undoing(e)[j + 1] /\ Rest(Tail(todo), Undoing(e), j + 1)
  BY <1>4, <1>2, RestNext
<1>6. PICK q : q = Undoing(e)
  OBVIOUS
<1>7. Len(q) = 3 /\ q[1] = Put(e + 1, Zero) /\ q[2] = Put(e + 2, Zero) /\ q[3] = Sync
  BY <1>3, <1>6, FooterSteps DEF Footed
<1>8. j \in 0 .. 1 /\ p = e + (j + 1) /\ b = Zero
  <2>1. j = 0 \/ j = 1 \/ j = 2
    BY <1>5, <1>6, <1>7
  <2>2. j # 2
    <3>1. q[3].op # "write"
      BY <1>7, StepFields
    <3>2. QED
      BY <1>5, <1>6, <1>2, <3>1
  <2>3. Head(todo) = Put(e + (j + 1), Zero)
    <3>1. CASE j = 0
      BY <1>5, <1>6, <1>7, <3>1
    <3>2. CASE j = 1
      BY <1>5, <1>6, <1>7, <3>2
    <3>3. QED
      BY <2>1, <2>2, <3>1, <3>2
  <2>4. QED
    BY <1>1, <2>1, <2>2, <2>3, StepFields
<1>9. c \in Seq(Block) /\ e <= Len(c) /\ Len(c) \in Nat /\ Faithful(d, c)
  BY DEF Image, Faithful, Base, Clean
<1>10. p \in 1 .. Len(c) + 1
  <2>1. j = 1 => e + 1 <= Len(c)
    BY <1>4 DEF Zeroed
  <2>2. QED
    BY <1>3, <1>8, <1>9, <2>1
<1>11. Overwritten(c, e + (j + 1), Zero, r)
  BY <1>8, <1>9, <1>10, <1>2, ZeroIsFree, WriteOverwrites
<1>12. Writing(d, c, t, e, j + 1, Zero, r) /\ Zeroed(r, e, j + 1)
  BY <1>4, <1>8, <1>9, <1>11, WriteZero
<1>13. Image(d, r) /\ Base(d, r, t, e) /\ At(r, e) = At(c, e)
  BY <1>12, ImageWritten
<1>14. Retreating(e, Tail(todo), r, images \union {r})
  <2>1. j + 1 \in Nat /\ ~(j + 1 >= 3)
    BY <1>8
  <2>2. QED
    BY <1>5, <1>12, <2>1 DEF Retreating
<1>15. QED
  BY <1>13, <1>14

\* The writer's step, as the invariant sees it.
Hands(d, w, v, c, r, images, after) ==
  \A t \in Appends, e \in Nat, P \in Seq(Block), k \in Nat :
    Working(d, t, e, P, k, w, c, images) => Image(d, r) /\ Working(d, t, e, P, k, v, r, after)

\* A write, of the plan or of the undo, carries the work on.
LEMMA WriteHands ==
  ASSUME NEW d, Known(d), NEW c, NEW images, c \in images, Image(d, c),
         NEW w, NEW v, Advanced(w, v), NEW r, Wrote(w.todo, c, r)
  PROVE  Hands(d, w, v, c, r, images, images \union {r})
<1>1. SUFFICES ASSUME NEW t \in Appends, NEW e \in Nat, NEW P \in Seq(Block), NEW k \in Nat,
                      Working(d, t, e, P, k, w, c, images)
               PROVE  Image(d, r) /\ Working(d, t, e, P, k, v, r, images \union {r})
  BY DEF Hands
<1>2. /\ Manned(w, t, e) /\ Open(d, t, e, P, k) /\ Base(d, c, t, e) /\ Admits(d, t, At(c, e))
      /\ w.lent = At(c, e).entries
      /\ ~w.undoing => Moving(d, t, e, P, k, w.todo, c, images)
      /\ w.undoing => faults > 0 /\ Retreating(e, w.todo, c, images)
      /\ faults = 0 => \A x \in images : Calm(x, e, t) /\ Admits(d, t, At(x, e))
  BY <1>1 DEF Working
<1>3. /\ Manned(v, t, e) /\ v.todo = Tail(w.todo) /\ v.undoing = w.undoing /\ v.lent = w.lent
  BY <1>2, AdvancedFields
<1>4. PICK todo : todo = w.todo
  OBVIOUS
<1>5. w.undoing \in BOOLEAN
  BY <1>2 DEF Manned
<1>6. Wrote(todo, c, r)
  BY <1>4
<1>7. ASSUME At(r, e) = At(c, e)
       PROVE  Admits(d, t, At(r, e)) /\ v.lent = At(r, e).entries
  BY <1>2, <1>3, <1>7
<1>8. CASE ~w.undoing
  <2>1. Moving(d, t, e, P, k, todo, c, images)
    BY <1>2, <1>4, <1>8
  <2>2. /\ Image(d, r) /\ Base(d, r, t, e) /\ At(r, e) = At(c, e)
        /\ Moving(d, t, e, P, k, Tail(todo), r, images \union {r})
        /\ faults = 0 /\ Calm(c, e, t) => Calm(r, e, t)
    <3>1. Open(d, t, e, P, k) /\ Base(d, c, t, e)
      BY <1>2
    <3>2. Onwards(d, t, e, P, k, todo, c, r, images)
      BY <1>6, <2>1, <3>1, WriteAhead
    <3>3. QED
      BY <3>2 DEF Onwards
  <2>3. faults = 0 => \A x \in images \union {r} : Calm(x, e, t) /\ Admits(d, t, At(x, e))
    BY <1>2, <1>7, <2>2
  <2>4. Moving(d, t, e, P, k, v.todo, r, images \union {r})
    BY <1>3, <1>4, <2>2
  <2>5. QED
    BY <1>2, <1>3, <1>8, <1>7, <2>2, <2>3, <2>4 DEF Working
<1>9. CASE w.undoing
  <2>1. faults # 0 /\ faults > 0 /\ Retreating(e, todo, c, images)
    BY <1>2, <1>4, <1>9
  <2>2. Image(d, r) /\ Base(d, r, t, e) /\ At(r, e) = At(c, e) /\ Retreating(e, Tail(todo), r, images \union {r})
    BY <1>2, <1>6, <2>1, WriteBack
  <2>3. Retreating(e, v.todo, r, images \union {r})
    BY <1>3, <1>4, <2>2
  <2>4. QED
    BY <1>2, <1>3, <1>9, <1>7, <2>1, <2>2, <2>3 DEF Working
<1>10. QED
  BY <1>5, <1>8, <1>9

\* What is written stays so when it is made durable.
LEMMA SyncAhead ==
  ASSUME NEW d, Known(d), NEW t, NEW e, NEW P, NEW k, Open(d, t, e, P, k), NEW c, NEW images, c \in images,
         NEW todo, Moving(d, t, e, P, k, todo, c, images), todo # <<>>, Head(todo).op = "sync"
  PROVE  Moving(d, t, e, P, k, Tail(todo), c, {c})
<1>1. PICK j \in Nat : Rest(todo, d[t].steps, j) /\ Placed(P, k, t, e, j, c, images)
  BY DEF Moving
<1>2. /\ j + 1 <= Len(d[t].steps) /\ Head(todo) = d[t].steps[j + 1] /\ Rest(Tail(todo), d[t].steps, j + 1)
  BY <1>1, RestNext
<1>3. Stepped(d[t].steps, e, P, k) /\ e \in Nat /\ Len(P) \in Nat /\ Len(P) >= 3 /\ k \in Nat
  BY OpenPlan DEF Open
<1>4. PICK s : s = Head(todo)
  OBVIOUS
<1>5. Move(e, P, k, j, s)
  BY <1>2, <1>3, <1>4, StepMoves
<1>6. Written(P, k, j + 1) = Written(P, k, j) /\ j + 1 >= k
  <2>1. \A at, b : s # Put(at, b)
    BY <1>4, StepFields
  <2>2. s # SyncDirectory
    BY <1>4, StepFields
  <2>3. QED
    BY <1>5, <2>1, <2>2 DEF Move
<1>7. Placed(P, k, t, e, j + 1, c, {c})
  <2>1. ~(j + 1 < k)
    BY <1>3, <1>6
  <2>2. QED
    BY <1>1, <1>6, <2>1 DEF Placed
<1>8. j + 1 \in Nat
  OBVIOUS
<1>9. QED
  BY <1>2, <1>7, <1>8 DEF Moving

\* The fsync of the directory is the last step and changes no content.
LEMMA LinkAhead ==
  ASSUME NEW d, Known(d), NEW t, NEW e, NEW P, NEW k, Open(d, t, e, P, k), NEW c, NEW images, c \in images,
         NEW todo, Moving(d, t, e, P, k, todo, c, images), todo # <<>>, Head(todo).op = "directory"
  PROVE  Moving(d, t, e, P, k, Tail(todo), c, images)
<1>1. PICK j \in Nat : Rest(todo, d[t].steps, j) /\ Placed(P, k, t, e, j, c, images)
  BY DEF Moving
<1>2. /\ j + 1 <= Len(d[t].steps) /\ Head(todo) = d[t].steps[j + 1] /\ Rest(Tail(todo), d[t].steps, j + 1)
  BY <1>1, RestNext
<1>3. Stepped(d[t].steps, e, P, k) /\ e \in Nat /\ Len(P) \in Nat /\ Len(P) >= 3 /\ k \in Nat
  BY OpenPlan DEF Open
<1>4. PICK s : s = Head(todo)
  OBVIOUS
<1>5. Move(e, P, k, j, s)
  BY <1>2, <1>3, <1>4, StepMoves
<1>6. Written(P, k, j + 1) = Written(P, k, j) /\ j >= k + Len(P) + 4
  <2>1. \A at, b : s # Put(at, b)
    BY <1>4, StepFields
  <2>2. s # Sync
    BY <1>4, StepFields
  <2>3. QED
    BY <1>5, <2>1, <2>2 DEF Move
<1>7. Placed(P, k, t, e, j + 1, c, images)
  <2>1. ~(j + 1 < k)
    BY <1>3, <1>6
  <2>2. QED
    BY <1>1, <1>6, <2>1 DEF Placed
<1>8. j + 1 \in Nat
  OBVIOUS
<1>9. QED
  BY <1>2, <1>7, <1>8 DEF Moving

\* The fsync of the undo makes its footer durable.
LEMMA SyncBack ==
  ASSUME NEW e \in Nat, NEW c, NEW images, NEW todo, Retreating(e, todo, c, images), todo # <<>>,
         Head(todo).op # "write"
  PROVE  Retreating(e, Tail(todo), c, {c}) /\ Head(todo).op = "sync"
<1>1. PICK j \in Nat : Rest(todo, Undoing(e), j) /\ Zeroed(c, e, j)
  BY DEF Retreating
<1>2. /\ j + 1 <= Len(Undoing(e)) /\ Head(todo) = Undoing(e)[j + 1] /\ Rest(Tail(todo), Undoing(e), j + 1)
  BY <1>1, RestNext
<1>3. PICK q : q = Undoing(e)
  OBVIOUS
<1>4. Len(q) = 3 /\ q[1] = Put(e + 1, Zero) /\ q[2] = Put(e + 2, Zero) /\ q[3] = Sync
  BY <1>3, FooterSteps DEF Footed
<1>5. j = 0 \/ j = 1 \/ j = 2
  BY <1>2, <1>3, <1>4
<1>6. j = 2
  <2>1. q[1].op = "write" /\ q[2].op = "write"
    BY <1>4, StepFields
  <2>2. Head(todo) = q[j + 1]
    BY <1>2, <1>3
  <2>3. j # 0 /\ j # 1
    BY <2>1, <2>2
  <2>4. QED
    BY <1>5, <2>3
<1>7. Head(todo).op = "sync"
  BY <1>2, <1>3, <1>4, <1>6, StepFields
<1>8. Zeroed(c, e, j + 1)
  BY <1>1, <1>6 DEF Zeroed
<1>9. j + 1 \in Nat
  OBVIOUS
<1>10. QED
  BY <1>2, <1>7, <1>8, <1>9 DEF Retreating

\* An fsync carries the work on.
LEMMA SyncHands ==
  ASSUME NEW d, Known(d), NEW c, NEW images, c \in images, Image(d, c), NEW w, NEW v, Advanced(w, v),
         w.todo # <<>>, NEW after,
         \/ Head(w.todo).op = "sync" /\ after = {c}
         \/ Head(w.todo).op = "directory" /\ after = images
  PROVE  Hands(d, w, v, c, c, images, after)
<1>1. SUFFICES ASSUME NEW t \in Appends, NEW e \in Nat, NEW P \in Seq(Block), NEW k \in Nat,
                      Working(d, t, e, P, k, w, c, images)
               PROVE  Working(d, t, e, P, k, v, c, after)
  BY DEF Hands
<1>2. /\ Manned(w, t, e) /\ Open(d, t, e, P, k) /\ Base(d, c, t, e) /\ Admits(d, t, At(c, e))
      /\ w.lent = At(c, e).entries
      /\ ~w.undoing => Moving(d, t, e, P, k, w.todo, c, images)
      /\ w.undoing => faults > 0 /\ Retreating(e, w.todo, c, images)
      /\ faults = 0 => \A x \in images : Calm(x, e, t) /\ Admits(d, t, At(x, e))
  BY <1>1 DEF Working
<1>3. /\ Manned(v, t, e) /\ v.todo = Tail(w.todo) /\ v.undoing = w.undoing /\ v.lent = w.lent
  BY <1>2, AdvancedFields
<1>4. PICK todo : todo = w.todo
  OBVIOUS
<1>5. w.undoing \in BOOLEAN
  BY <1>2 DEF Manned
<1>6. todo # <<>> /\ ((Head(todo).op = "sync" /\ after = {c}) \/ (Head(todo).op = "directory" /\ after = images))
  BY <1>4
<1>7. after \subseteq images
  BY <1>6
<1>8. ~w.undoing => Moving(d, t, e, P, k, Tail(todo), c, after)
  <2>1. SUFFICES ASSUME ~w.undoing PROVE Moving(d, t, e, P, k, Tail(todo), c, after)
    OBVIOUS
  <2>2. Moving(d, t, e, P, k, todo, c, images) /\ Open(d, t, e, P, k)
    BY <1>2, <1>4, <2>1
  <2>3. CASE Head(todo).op = "sync" /\ after = {c}
    BY <1>6, <2>2, <2>3, SyncAhead
  <2>4. CASE Head(todo).op = "directory" /\ after = images
    BY <1>6, <2>2, <2>4, LinkAhead
  <2>5. QED
    BY <1>6, <2>3, <2>4
<1>9. w.undoing => Retreating(e, Tail(todo), c, after)
  <2>1. SUFFICES ASSUME w.undoing PROVE Retreating(e, Tail(todo), c, after)
    OBVIOUS
  <2>2. Retreating(e, todo, c, images) /\ Head(todo).op # "write"
    BY <1>2, <1>4, <1>6, <2>1
  <2>3. Retreating(e, Tail(todo), c, {c}) /\ Head(todo).op = "sync"
    BY <1>6, <2>2, SyncBack
  <2>4. QED
    BY <1>6, <2>3
<1>10. QED
  BY <1>2, <1>3, <1>4, <1>7, <1>8, <1>9 DEF Working

\* A step that changes no call keeps what is known of the contents.
LEMMA ImagesStay ==
  ASSUME fate' = fate, NEW d, \A c \in platter' : Image(d, c)
  PROVE  Images(d)'
  BY DEF Images, Image, Faithful, Undone, Kept

\* A step that changes no call keeps the plans.
LEMMA KnownStays == ASSUME UNCHANGED <<fate, asked>>, NEW d, Known(d) PROVE Known(d)'
  BY DEF Known

\* A step that changes no call and is no fault keeps what is known of the writer.
LEMMA WorkingStays ==
  ASSUME UNCHANGED <<fate, asked, faults>>, NEW d, NEW t, NEW e, NEW P, NEW k,
         Working(d, t, e, P, k, writer', file', platter')
  PROVE  Working(d, t, e, P, k, writer, file, platter)'
  BY DEF Working, Open, Base, Moving, Placed, Admits

\* What is common to the writer's steps.
LEMMA CustodyAdvances ==
  ASSUME NEW d \in Plans, Typed, Orderly, Planned(d), UNCHANGED <<fate, asked, faults>>, writer # Nobody,
         Hands(d, writer, writer', file, file', platter, platter'), Advanced(writer, writer'),
         platter' \subseteq platter \union {file'}, file' \in platter', link' \in {"none", "volatile", "durable"}
  PROVE  Custody'
<1>1. PICK t \in Appends, e \in Nat, P \in Seq(Block), k \in Nat :
        Working(d, t, e, P, k, writer, file, platter)
  BY DEF Planned, Busy
<1>2. Image(d, file') /\ Working(d, t, e, P, k, writer', file', platter')
  BY <1>1 DEF Hands
<1>3. writer'.call = t /\ writer.call = t /\ t # 0
  BY <1>1, AdvancedFields, CallsAssumption DEF Working, Appends
<1>4. writer' # Nobody
  BY <1>3 DEF Nobody
<1>5. Typed' /\ Rested' /\ Survives'
  BY <1>4 DEF Typed, Rested, Survives, Nobody
<1>6. Orderly'
  BY <1>3, <1>4 DEF Orderly, Nobody
<1>7. Known(d)'
  BY KnownStays DEF Planned
<1>8. Images(d)'
  <2>1. \A c \in platter' : Image(d, c)
    BY <1>2 DEF Planned, Images
  <2>2. QED
    BY <2>1, ImagesStay
<1>9. Busy(d)'
  <2>1. Working(d, t, e, P, k, writer, file, platter)'
    BY <1>2, WorkingStays
  <2>2. QED
    BY <1>1, <2>1 DEF Busy
<1>10. QED
  BY <1>5, <1>6, <1>7, <1>8, <1>9 DEF Custody, Planned

\* WriteBlock: a block of the file is written.
LEMMA CustodyWrites == Custody /\ WriteBlock => Custody'
<1> SUFFICES ASSUME Custody, WriteBlock PROVE Custody'
  OBVIOUS
<1>1. PICK d \in Plans : Planned(d)
  BY DEF Custody
<1>2. Typed /\ Orderly /\ Known(d) /\ Image(d, file) /\ file \in platter
  BY <1>1 DEF Custody, Typed, Planned, Images
<1>3. writer # Nobody /\ UNCHANGED <<link, fate, asked, faults>> /\ platter' = platter \union {file'}
      /\ Advanced(writer, writer') /\ Wrote(writer.todo, file, file')
  BY DEF WriteBlock, Advance, Advanced, Wrote
<1>4. Hands(d, writer, writer', file, file', platter, platter')
  <2>1. Hands(d, writer, writer', file, file', platter, platter \union {file'})
    BY <1>2, <1>3, WriteHands
  <2>2. QED
    BY <1>3, <2>1
<1>5. platter' \subseteq platter \union {file'} /\ file' \in platter' /\ link' \in {"none", "volatile", "durable"}
  BY <1>2, <1>3 DEF Typed
<1>6. QED
  BY <1>1, <1>2, <1>3, <1>4, <1>5, CustodyAdvances

\* SyncFile and SyncLink: what was written becomes durable.
LEMMA CustodySyncs == Custody /\ (SyncFile \/ SyncLink) => Custody'
<1> SUFFICES ASSUME Custody, SyncFile \/ SyncLink PROVE Custody'
  OBVIOUS
<1>1. PICK d \in Plans : Planned(d)
  BY DEF Custody
<1>2. Typed /\ Orderly /\ Known(d) /\ Image(d, file) /\ file \in platter
  BY <1>1 DEF Custody, Typed, Planned, Images
<1>3. writer # Nobody /\ UNCHANGED <<fate, asked, faults>> /\ file' = file
      /\ Advanced(writer, writer') /\ writer.todo # <<>> /\ link' \in {"none", "volatile", "durable"}
      /\ \/ Head(writer.todo).op = "sync" /\ platter' = {file}
         \/ Head(writer.todo).op = "directory" /\ platter' = platter
  BY <1>2 DEF SyncFile, SyncLink, Advance, Advanced, Typed
<1>4. Hands(d, writer, writer', file, file', platter, platter')
  <2>1. Hands(d, writer, writer', file, file, platter, platter')
    BY <1>2, <1>3, SyncHands
  <2>2. QED
    BY <1>3, <2>1
<1>5. platter' \subseteq platter \union {file'} /\ file' \in platter'
  BY <1>2, <1>3
<1>6. QED
  BY <1>1, <1>2, <1>3, <1>4, <1>5, CustodyAdvances

\* Raise: the append begins to undo itself.
LEMMA CustodyRaises == Custody /\ Raise => Custody'
<1> SUFFICES ASSUME Custody, Raise PROVE Custody'
  OBVIOUS
<1>1. PICK d \in Plans : Planned(d)
  BY DEF Custody
<1>2. Typed /\ Orderly /\ Known(d) /\ Images(d)
  BY <1>1 DEF Custody, Planned
<1>3. writer # Nobody /\ UNCHANGED <<file, platter, link, fate, asked>> /\ faults' = faults + 1 /\ faults < MaxFaults
      /\ writer' = [writer EXCEPT !.undoing = TRUE, !.todo = Undoing(writer.end)]
  BY DEF Raise
<1>4. PICK t \in Appends, e \in Nat, P \in Seq(Block), k \in Nat :
        Working(d, t, e, P, k, writer, file, platter)
  BY <1>1, <1>3 DEF Planned, Busy
<1>5. /\ Manned(writer, t, e) /\ Open(d, t, e, P, k) /\ Base(d, file, t, e) /\ Admits(d, t, At(file, e))
      /\ writer.lent = At(file, e).entries
  BY <1>4 DEF Working
<1>6. PICK u \in BOOLEAN : u = TRUE
  OBVIOUS
<1>7. writer' = [call |-> t, end |-> e, clear |-> writer.clear, undoing |-> u, lent |-> writer.lent,
                 todo |-> Undoing(e)]
  <2>1. PICK w : w = writer
    OBVIOUS
  <2>2. w = [call |-> w.call, end |-> w.end, clear |-> w.clear, undoing |-> w.undoing,
             lent |-> w.lent, todo |-> w.todo] /\ w.call = t /\ w.end = e
    BY <1>5, <2>1 DEF Manned
  <2>3. writer' = [w EXCEPT !.undoing = u, !.todo = Undoing(e)]
    BY <1>3, <1>6, <2>1, <2>2
  <2>4. QED
    BY <2>1, <2>2, <2>3
<1>8. /\ Manned(writer', t, e) /\ writer'.undoing /\ writer'.lent = writer.lent /\ writer'.todo = Undoing(e)
      /\ writer'.call = t /\ writer.call = t
  BY <1>5, <1>6, <1>7 DEF Manned
<1>9. writer' # Nobody
  BY <1>8, CallsAssumption DEF Nobody, Appends
<1>10. faults \in Nat /\ faults' \in 0 .. MaxFaults /\ faults' > 0 /\ faults' # 0
  BY <1>2, <1>3, FaultsAssumption DEF Typed
<1>11. Typed'
  BY <1>2, <1>3, <1>10 DEF Typed
<1>12. Rested' /\ Survives'
  BY <1>9 DEF Rested, Survives, Nobody
<1>13. Orderly'
  BY <1>2, <1>3, <1>8, <1>9 DEF Orderly, Nobody
<1>14. Known(d)' /\ Images(d)'
  <2>1. \A c \in platter' : Image(d, c)
    BY <1>2, <1>3 DEF Images
  <2>2. QED
    BY <1>2, <1>3, <2>1, ImagesStay, KnownStays
<1>15. Retreating(e, Undoing(e), file, platter)
  <2>1. Footed(Undoing(e), e)
    BY FooterSteps
  <2>2. Rest(Undoing(e), Undoing(e), 0)
    BY <2>1 DEF Footed, Rest
  <2>3. Zeroed(file, e, 0) /\ ~(0 >= 3)
    BY DEF Zeroed
  <2>4. QED
    BY <2>2, <2>3 DEF Retreating
<1>16. Working(d, t, e, P, k, writer, file, platter)'
  <2>1. Open(d, t, e, P, k)' /\ Base(d, file, t, e)' /\ Admits(d, t, At(file, e))'
    BY <1>3, <1>5 DEF Open, Base, Admits
  <2>2. Retreating(e, writer.todo, file, platter)'
    BY <1>3, <1>8, <1>15
  <2>3. QED
    BY <1>3, <1>5, <1>8, <1>10, <2>1, <2>2 DEF Working
<1>17. QED
  BY <1>11, <1>12, <1>13, <1>14, <1>16 DEF Custody, Planned, Busy

\* What a fault makes of the calls: the open one is torn.
Tearing ==
  /\ asked' = asked
  /\ \A u \in Appends : /\ fate'[u] = "new" <=> fate[u] = "new"
                        /\ fate'[u] \in {"failed", "done"} => fate'[u] = fate[u]

\* A fault keeps what is known of a content: a torn call has no duties.
LEMMA ImageTorn == ASSUME Tearing, NEW d, NEW c, Image(d, c) PROVE Image(d, c)'
<1>1. Faithful(d, c) /\ Whole(d, c) /\ Rooted(d, c) /\ Layered(d, c) /\ Undone(d, c)
      /\ (~DirectoryMayForget => Kept(d, c))
  BY DEF Image
<1>2. Faithful(d, c)'
  <2>1. c \in Seq(Block)
    BY <1>1 DEF Faithful
  <2>2. \A p \in 1 .. Len(c) : Owner(c[p]) # 0 => Owner(c[p]) \in Appends
    BY <2>1, BlockFields DEF Blocklike
  <2>3. QED
    BY <1>1, <2>1, <2>2 DEF Faithful, Tearing
<1>3. Undone(d, c)'
  BY <1>1 DEF Undone, Tearing
<1>4. (~DirectoryMayForget => Kept(d, c))'
  BY <1>1 DEF Kept, Tearing
<1>5. (Whole(d, c) /\ Rooted(d, c) /\ Layered(d, c))'
  BY <1>1
<1>6. QED
  BY <1>2, <1>3, <1>4, <1>5 DEF Image

\* A fault keeps the plans.
LEMMA KnownTorn == ASSUME Tearing, NEW d, Known(d) PROVE Known(d)'
  BY DEF Known, Tearing

\* Before the first fault every content the platter may hold is readable.
LEMMA ImagesReadable ==
  ASSUME NEW d, Planned(d), Typed, Rested, faults = 0, NEW c \in platter
  PROVE  Readable(Scan(c))
<1>1. Known(d) /\ Image(d, c)
  BY DEF Planned, Images
<1>2. Faithful(d, c) /\ Layered(d, c)
  BY <1>1 DEF Image
<1>3. CASE writer = Nobody
  <2>1. c = file /\ Calm(c, Scan(c).end, 0)
    BY <1>3 DEF Rested
  <2>2. Ahead(d, c, 0, Scan(c).end)
    BY DEF Ahead, Appends
  <2>3. QED
    BY <1>1, <1>2, <2>1, <2>2, CalmReadable
<1>4. CASE writer # Nobody
  <2>1. PICK t \in Appends, e \in Nat, P \in Seq(Block), k \in Nat :
          Working(d, t, e, P, k, writer, file, platter)
    BY <1>4 DEF Planned, Busy
  <2>2. Calm(c, e, t) /\ Admits(d, t, At(c, e)) /\ e = d[t].start
    BY <2>1 DEF Working, Base
  <2>3. Ahead(d, c, t, e)
    BY <2>2 DEF Ahead
  <2>4. QED
    BY <1>1, <1>2, <2>2, <2>3, CalmReadable
<1>5. QED
  BY <1>3, <1>4

\* Die: the writer is gone and its transaction is torn.
LEMMA CustodyDies == Custody /\ Die => Custody'
<1> SUFFICES ASSUME Custody, Die PROVE Custody'
  OBVIOUS
<1>1. PICK d \in Plans : Planned(d)
  BY DEF Custody
<1>2. Typed /\ Orderly /\ Rested /\ Known(d) /\ Images(d)
  BY <1>1 DEF Custody, Planned
<1>3. writer # Nobody /\ writer' = Nobody /\ UNCHANGED <<file, platter, link, asked>> /\ faults' = faults + 1
      /\ faults < MaxFaults /\ fate' = [fate EXCEPT ![writer.call] = "torn"]
  BY DEF Die
<1>4. PICK t \in Appends, e \in Nat, P \in Seq(Block), k \in Nat :
        Working(d, t, e, P, k, writer, file, platter)
  BY <1>1, <1>3 DEF Planned, Busy
<1>5. writer.call = t /\ fate[t] = "open"
  BY <1>4 DEF Working, Manned, Open
<1>6. faults \in Nat /\ faults' \in 0 .. MaxFaults /\ faults' # 0 /\ (faults' <= 1 => faults = 0)
  BY <1>2, <1>3, FaultsAssumption DEF Typed
<1>7. fate \in [Appends -> {"new", "open", "done", "failed", "torn"}]
  BY <1>2 DEF Typed
<1>8. Tearing
  BY <1>3, <1>5, <1>7 DEF Tearing
<1>9. Typed'
  BY <1>2, <1>3, <1>6 DEF Typed
<1>10. Orderly'
  <2>1. \A u \in Appends : fate'[u] # "open"
    BY <1>2, <1>3, <1>5, <1>7 DEF Orderly
  <2>2. QED
    BY <1>2, <1>8, <2>1 DEF Orderly, Tearing
<1>11. Rested' /\ Survives'
  <2>1. faults' <= 1 => Readable(Scan(file))
    BY <1>1, <1>2, <1>6, ImagesReadable DEF Typed
  <2>2. QED
    BY <1>3, <1>6, <2>1 DEF Rested, Survives
<1>12. Known(d)' /\ Images(d)' /\ Busy(d)'
  <2>1. Known(d)' /\ Busy(d)'
    BY <1>2, <1>3, <1>8, KnownTorn DEF Busy, Nobody
  <2>2. Images(d)'
    BY <1>2, <1>3, <1>8, ImageTorn DEF Images
  <2>3. QED
    BY <2>1, <2>2
<1>13. QED
  BY <1>9, <1>10, <1>11, <1>12 DEF Custody, Planned

\* PowerLoss: the disk holds one of the contents it might hold.
LEMMA CustodyLosesPower == Custody /\ PowerLoss => Custody'
<1> SUFFICES ASSUME Custody, PowerLoss PROVE Custody'
  OBVIOUS
<1>1. PICK d \in Plans : Planned(d)
  BY DEF Custody
<1>2. Typed /\ Orderly /\ Rested /\ Known(d) /\ Images(d)
  BY <1>1 DEF Custody, Planned
<1>3. writer' = Nobody /\ UNCHANGED asked /\ faults' = faults + 1 /\ faults < MaxFaults
      /\ platter' = {file'} /\ fate' = [t \in Appends |-> IF fate[t] = "open" THEN "torn" ELSE fate[t]]
      /\ (file' \in platter \/ (DirectoryMayForget /\ file' = <<>>))
  BY DEF PowerLoss
<1>4. link' \in {"none", "volatile", "durable"}
  BY <1>2 DEF PowerLoss, Typed
<1>5. faults \in Nat /\ faults' \in 0 .. MaxFaults /\ faults' # 0 /\ (faults' <= 1 => faults = 0)
  BY <1>2, <1>3, FaultsAssumption DEF Typed
<1>6. fate \in [Appends -> {"new", "open", "done", "failed", "torn"}]
  BY <1>2 DEF Typed
<1>7. Tearing
  BY <1>3, <1>6 DEF Tearing
<1>8. Typed'
  BY <1>2, <1>3, <1>4, <1>5, <1>6 DEF Typed
<1>9. Orderly'
  <2>1. \A u \in Appends : fate'[u] # "open"
    BY <1>3, <1>6
  <2>2. QED
    BY <1>2, <1>7, <2>1 DEF Orderly, Tearing
<1>10. Rested' /\ Survives'
  <2>1. faults = 0 => Readable(Scan(file'))
    BY <1>1, <1>2, <1>3, ImagesReadable, EmptyWalk
  <2>2. QED
    BY <1>3, <1>5, <2>1 DEF Rested, Survives
<1>11. Known(d)' /\ Images(d)' /\ Busy(d)'
  <2>1. Known(d)' /\ Busy(d)'
    BY <1>2, <1>3, <1>7, KnownTorn DEF Busy, Nobody
  <2>2. Images(d)'
    <3>1. Image(d, file')
      BY <1>2, <1>3, EmptyImage DEF Images
    <3>2. PICK c : c = file'
      OBVIOUS
    <3>3. Image(d, c)'
      BY <1>7, <3>1, <3>2, ImageTorn
    <3>4. platter' = {c}
      BY <1>3, <3>2
    <3>5. QED
      BY <3>3, <3>4 DEF Images
  <2>3. QED
    BY <2>1, <2>2
<1>12. QED
  BY <1>8, <1>9, <1>10, <1>11 DEF Custody, Planned

\* A transaction that is written to its end is committed, and behind it is a footer.
LEMMA FinishedAhead ==
  ASSUME NEW d, Known(d), NEW t, NEW e, NEW P, NEW k, Open(d, t, e, P, k), NEW c, NEW images, c \in images,
         Image(d, c), Base(d, c, t, e), Admits(d, t, At(c, e)), Moving(d, t, e, P, k, <<>>, c, images)
  PROVE  /\ images = {c} /\ Fin(d, t) \in Nat /\ Clean(c, Fin(d, t)) /\ t \in At(c, Fin(d, t)).calls
         /\ Readable(Scan(c))
         /\ faults = 0 => Calm(c, Scan(c).end, 0) /\ Len(c) <= Scan(c).end + 2
<1>1. PICK j \in Nat : Rest(<<>>, d[t].steps, j) /\ Placed(P, k, t, e, j, c, images)
  BY DEF Moving
<1>2. /\ e \in Nat /\ Len(P) \in Nat /\ Len(P) >= 3 /\ k \in Nat /\ P = d[t].blocks /\ e = d[t].start
      /\ Transaction(P, t, asked[t], d[t].replace) /\ t \in Appends
  BY DEF Open
<1>3. j \in {k + Len(P) + 4, k + Len(P) + 5}
  <2>1. Stepped(d[t].steps, e, P, k)
    BY OpenPlan
  <2>2. Len(<<>>) = 0
    OBVIOUS
  <2>3. j = Len(d[t].steps)
    BY <1>1, <2>2 DEF Rest
  <2>4. QED
    BY <2>1, <2>3 DEF Stepped
<1>4. Written(P, k, j) = Len(P) + 2
  BY <1>2, <1>3 DEF Written
<1>5. /\ \A i \in 1 .. Len(P) + 2 : e + i <= Len(c) /\ c[e + i] = Target(P, i)
      /\ images = {c}
      /\ faults = 0 => Len(c) <= e + Len(P) + 2
  <2>1. j >= k + Len(P) + 4
    BY <1>2, <1>3
  <2>2. faults = 0 => Len(c) <= e + 2 \/ Len(c) <= e + (Len(P) + 2)
    BY <1>1, <1>4 DEF Placed
  <2>3. c \in Seq(Block)
    BY DEF Image, Faithful
  <2>4. \A i \in 1 .. Len(P) + 2 : e + i <= Len(c) /\ c[e + i] = Target(P, i)
    BY <1>1, <1>4 DEF Placed
  <2>5. images = {c}
    BY <1>1, <2>1 DEF Placed
  <2>6. faults = 0 => Len(c) <= e + Len(P) + 2
    <3>1. Len(c) \in Nat /\ e \in Nat /\ Len(P) \in Nat /\ Len(P) >= 3
      BY <1>2, <2>3
    <3>2. QED
      BY <2>2, <3>1
  <2>7. QED
    BY <2>4, <2>5, <2>6
<1>6. c \in Seq(Block) /\ Len(c) \in Nat /\ Faithful(d, c) /\ Layered(d, c) /\ Clean(c, e)
  BY DEF Image, Faithful, Base
<1>7. \A p \in 0 .. Len(c) : Reading(d, c, At(c, p), p)
  BY <1>6, Readings
<1>8. Lies(c, e, P, Len(P))
  <2>1. e + Len(P) <= Len(c)
    <3>1. Len(P) \in 1 .. Len(P) + 2
      BY <1>2
    <3>2. QED
      BY <1>5, <3>1
  <2>2. \A i \in 1 .. Len(P) : c[e + i] = P[i]
    <3>1. SUFFICES ASSUME NEW i \in 1 .. Len(P) PROVE c[e + i] = P[i]
      OBVIOUS
    <3>2. i \in 1 .. Len(P) + 2 /\ i <= Len(P)
      BY <1>2
    <3>3. QED
      BY <1>5, <3>2 DEF Target
  <2>3. QED
    BY <2>1, <2>2 DEF Lies
<1>9. PICK f \in Nat : f = e + Len(P)
  BY <1>2
<1>10. Clean(c, f) /\ At(c, f).calls = At(c, e).calls \union {t}
  <2>1. Shaped(At(c, e))
    BY <1>6, <1>7 DEF Clean, Reading
  <2>2. Submitted(d, c, t, e, P)
    BY <1>2, <1>6, <1>8, <2>1 DEF Submitted
  <2>3. QED
    BY <1>9, <2>2, ReadTransaction
<1>11. Fin(d, t) = f
  BY <1>2, <1>9 DEF Fin
<1>12. \A p \in f + 1 .. f + 2 : p <= Len(c) /\ c[p] = Zero
  <2>1. SUFFICES ASSUME NEW p \in f + 1 .. f + 2 PROVE p <= Len(c) /\ c[p] = Zero
    OBVIOUS
  <2>2. PICK i \in 1 .. Len(P) + 2 : p = e + i /\ ~(i <= Len(P))
    <3>1. e \in Nat /\ Len(P) \in Nat
      BY <1>2
    <3>2. PICK i \in Nat : i = p - e
      BY <1>9, <2>1, <3>1
    <3>3. i \in 1 .. Len(P) + 2 /\ p = e + i /\ ~(i <= Len(P))
      BY <1>9, <2>1, <3>2, <3>1
    <3>4. QED
      BY <3>3
  <2>3. QED
    BY <1>5, <2>2 DEF Target
<1>13. f + 1 <= Len(c) /\ c[f + 1] = Zero
  BY <1>9, <1>12
<1>14. Scan(c).state = "stop" /\ Settled(At(c, f), Scan(c))
  <2>1. Shaped(At(c, f))
    BY <1>7, <1>10 DEF Clean, Reading
  <2>2. QED
    BY <1>6, <1>10, <1>13, <2>1, FooterStops
<1>15. Scan(c).end = f
  BY <1>10, <1>14 DEF Settled, Clean
<1>16. ASSUME faults = 0
       PROVE  Calm(c, f, 0) /\ Len(c) <= f + 2
  <2>1. Len(c) <= f + 2
    BY <1>2, <1>5, <1>6, <1>9, <1>16
  <2>2. \A p \in f + 1 .. Len(c) : c[p] = Zero
    <3>1. \A p \in f + 1 .. Len(c) : p \in f + 1 .. f + 2
      BY <1>6, <2>1
    <3>2. QED
      BY <1>12, <3>1
  <2>3. \A p \in f + 1 .. Len(c) - 1 : c[p].kind # "commit"
    <3>1. \A p \in f + 1 .. Len(c) - 1 : p \in f + 1 .. Len(c)
      BY <1>6
    <3>2. QED
      BY <2>2, <3>1, ZeroIsFree
  <2>4. QED
    BY <1>10, <2>1, <2>2, <2>3, ZeroIsFree DEF Calm
<1>17. QED
  BY <1>5, <1>10, <1>11, <1>14, <1>15, <1>16 DEF Readable

\* Once it is undone its first block is gone, and the prefix before it is readable.
LEMMA FinishedBack ==
  ASSUME NEW d, Known(d), NEW t \in Appends, NEW e \in Nat, NEW c, NEW images, c \in images,
         Image(d, c), Base(d, c, t, e), Retreating(e, <<>>, c, images)
  PROVE  images = {c} /\ ~Is(c, d[t].start + 1, t) /\ Readable(Scan(c))
<1>1. PICK j \in Nat : Rest(<<>>, Undoing(e), j) /\ Zeroed(c, e, j) /\ (j >= 3 => images = {c})
  BY DEF Retreating
<1>2. j = 3
  <2>1. Len(Undoing(e)) = 3 /\ Len(<<>>) = 0
    BY FooterSteps DEF Footed
  <2>2. QED
    BY <1>1, <2>1 DEF Rest
<1>3. e + 1 <= Len(c) /\ c[e + 1] = Zero
  BY <1>1, <1>2 DEF Zeroed
<1>4. c \in Seq(Block) /\ Len(c) \in Nat /\ Faithful(d, c) /\ Layered(d, c) /\ Clean(c, e) /\ e = d[t].start
  BY DEF Image, Faithful, Base
<1>5. Shaped(At(c, e))
  <2>1. \A p \in 0 .. Len(c) : Reading(d, c, At(c, p), p)
    BY <1>4, Readings
  <2>2. QED
    BY <1>4, <2>1 DEF Clean, Reading
<1>6. Scan(c).state = "stop"
  BY <1>3, <1>4, <1>5, FooterStops
<1>7. t # 0
  BY CallsAssumption DEF Appends
<1>8. QED
  BY <1>1, <1>2, <1>3, <1>4, <1>6, <1>7, ZeroIsFree DEF Is, Readable

\* Finish: the call is acknowledged, or has failed and is undone.
LEMMA CustodyFinishes == Custody /\ Finish => Custody'
<1> SUFFICES ASSUME Custody, Finish PROVE Custody'
  OBVIOUS
<1>1. PICK d \in Plans : Planned(d)
  BY DEF Custody
<1>2. Typed /\ Orderly /\ Rested /\ Known(d) /\ Images(d) /\ Image(d, file) /\ file \in platter
  BY <1>1 DEF Custody, Planned, Typed, Images
<1>3. writer # Nobody /\ writer.todo = <<>> /\ writer' = Nobody /\ UNCHANGED <<file, platter, link, asked, faults>>
      /\ fate' = [fate EXCEPT ![writer.call] = IF writer.undoing THEN "failed" ELSE "done"]
  BY DEF Finish
<1>4. PICK t \in Appends, e \in Nat, P \in Seq(Block), k \in Nat :
        Working(d, t, e, P, k, writer, file, platter)
  BY <1>1, <1>3 DEF Planned, Busy
<1>5. /\ Open(d, t, e, P, k) /\ Base(d, file, t, e) /\ Admits(d, t, At(file, e))
      /\ ~writer.undoing => Moving(d, t, e, P, k, <<>>, file, platter)
      /\ writer.undoing => faults > 0 /\ Retreating(e, <<>>, file, platter)
      /\ writer.call = t /\ writer.undoing \in BOOLEAN /\ fate[t] = "open"
  BY <1>3, <1>4 DEF Working, Manned, Open
<1>6. fate \in [Appends -> {"new", "open", "done", "failed", "torn"}]
  BY <1>2 DEF Typed
<1>7. Typed'
  BY <1>2, <1>3, <1>5, <1>6 DEF Typed
<1>8. \A u \in Appends : /\ fate'[u] = "new" <=> fate[u] = "new"
                         /\ u # t => fate'[u] = fate[u]
  BY <1>3, <1>5, <1>6
<1>9. fate'[t] = (IF writer.undoing THEN "failed" ELSE "done")
  BY <1>3, <1>5, <1>6
<1>10. Orderly'
  <2>1. \A u \in Appends : fate'[u] # "open"
    BY <1>2, <1>3, <1>5, <1>6, <1>8, <1>9 DEF Orderly
  <2>2. QED
    BY <1>2, <1>8, <2>1 DEF Orderly
<1>11. Known(d)'
  BY <1>2, <1>3, <1>8 DEF Known
<1>12. Faithful(d, file)'
  <2>1. Faithful(d, file) /\ file \in Seq(Block)
    BY <1>2 DEF Image, Faithful
  <2>2. \A p \in 1 .. Len(file) : Owner(file[p]) # 0 => Owner(file[p]) \in Appends
    BY <2>1, BlockFields DEF Blocklike
  <2>3. QED
    BY <1>3, <1>8, <2>1, <2>2 DEF Faithful
<1>13. (Whole(d, file) /\ Rooted(d, file) /\ Layered(d, file))'
  BY <1>2, <1>3 DEF Image
<1>14. CASE ~writer.undoing
  <2>1. /\ platter = {file} /\ Clean(file, Fin(d, t)) /\ t \in At(file, Fin(d, t)).calls
        /\ Readable(Scan(file))
        /\ faults = 0 => Calm(file, Scan(file).end, 0) /\ Len(file) <= Scan(file).end + 2
    BY <1>2, <1>5, <1>14, FinishedAhead
  <2>2. Undone(d, file)'
    BY <1>2, <1>3, <1>8, <1>9, <1>14 DEF Image, Undone
  <2>3. (~DirectoryMayForget => Kept(d, file))'
    BY <1>2, <1>3, <1>8, <2>1 DEF Image, Kept
  <2>4. Image(d, file)'
    BY <1>12, <1>13, <2>2, <2>3 DEF Image
  <2>5. Images(d)' /\ Busy(d)'
    BY <1>3, <2>1, <2>4 DEF Images, Busy, Nobody
  <2>6. Rested' /\ Survives'
    BY <1>3, <2>1 DEF Rested, Survives
  <2>7. QED
    BY <1>7, <1>10, <1>11, <2>5, <2>6 DEF Custody, Planned
<1>15. CASE writer.undoing
  <2>1. platter = {file} /\ ~Is(file, d[t].start + 1, t) /\ Readable(Scan(file))
    BY <1>2, <1>5, <1>15, FinishedBack
  <2>2. Undone(d, file)'
    BY <1>2, <1>3, <1>8, <2>1 DEF Image, Undone
  <2>3. (~DirectoryMayForget => Kept(d, file))'
    BY <1>2, <1>3, <1>8, <1>9, <1>15 DEF Image, Kept
  <2>4. Image(d, file)'
    BY <1>12, <1>13, <2>2, <2>3 DEF Image
  <2>5. Images(d)' /\ Busy(d)'
    BY <1>3, <2>1, <2>4 DEF Images, Busy, Nobody
  <2>6. Rested' /\ Survives'
    BY <1>3, <1>5, <1>15, <2>1 DEF Rested, Survives
  <2>7. QED
    BY <1>7, <1>10, <1>11, <2>5, <2>6 DEF Custody, Planned
<1>16. QED
  BY <1>5, <1>14, <1>15

\* Nothing is settled behind the committed prefix.
LEMMA PrefixSettles ==
  ASSUME NEW d, Known(d), NEW c, Image(d, c), NEW e, e = Scan(c).end
  PROVE  Clean(c, e) /\ Settled(At(c, e), Scan(c)) /\ Len(c) \in Nat /\ e \in 0 .. Len(c)
<1>1. Faithful(d, c) /\ Layered(d, c) /\ c \in Seq(Block)
  BY DEF Image, Faithful
<1>2. Len(c) \in Nat /\ Scan(c) = At(c, Len(c)) /\ Reading(d, c, Scan(c), Len(c))
  BY ScanReads
<1>3. Clean(c, e) /\ e \in 0 .. Len(c) /\ At(c, e).end = e
  BY <1>2 DEF Reading, Clean
<1>4. \A p \in 0 .. Len(c) : Reading(d, c, At(c, p), p)
  BY <1>1, Readings
<1> DEFINE G == {p \in e .. Len(c) : Settled(At(c, e), At(c, p))}
<1>5. e \in G
  BY <1>3 DEF Settled
<1>6. ASSUME NEW p \in e + 1 .. Len(c), p - 1 \in G
      PROVE  p \in G
  <2>1. p \in 1 .. Len(c) /\ p \in 0 .. Len(c) /\ p - 1 \in 0 .. Len(c) /\ p \in e .. Len(c) /\ p > e
    BY <1>2, <1>3
  <2>2. PICK s : s = At(c, p - 1)
    OBVIOUS
  <2>3. PICK r : r = At(c, p)
    OBVIOUS
  <2>4. PICK b \in Block : b = c[p]
    BY <1>1, <2>1
  <2>5. r = Walk(s, b, p)
    BY <1>2, <2>1, <2>2, <2>3, <2>4, AtNext
  <2>6. Shaped(s) /\ Settled(At(c, e), s)
    BY <1>4, <1>6, <2>1, <2>2 DEF Reading
  <2>7. Walks(s, b, p, r)
    BY <2>5, <2>6, WalkCases
  <2>8. CASE Settled(s, r)
    BY <2>1, <2>3, <2>6, <2>8 DEF Settled
  <2>9. CASE Accepted(s, b, p, r)
    <3>1. r.end = p
      BY <2>9 DEF Accepted
    <3>2. Len(c) \in p .. Len(c)
      BY <1>2, <2>1
    <3>3. At(c, p).end <= At(c, Len(c)).end
      BY <1>1, <2>1, <3>2, Onward
    <3>4. p <= e
      BY <1>2, <2>3, <3>1, <3>3
    <3>5. QED
      BY <1>2, <1>3, <2>1, <3>4
  <2>10. QED
    BY <2>6, <2>7, <2>8, <2>9, WalkSettles
<1> HIDE DEF G
<1>7. \A p \in e .. Len(c) : p \in G
  <2>1. e \in Nat /\ Len(c) \in Nat
    BY <1>2, <1>3
  <2>2. QED
    BY <1>5, <1>6, <2>1, UpFrom
<1>8. Len(c) \in G
  BY <1>2, <1>3, <1>7
<1>9. QED
  BY <1>2, <1>3, <1>8 DEF G

\* The next append finds every other one behind it.
LEMMA PrefixIsBase ==
  ASSUME NEW d, Known(d), NEW c, Image(d, c), NEW e, e = Scan(c).end
  PROVE  /\ Under(d, c, e)
         /\ ~DirectoryMayForget => \A u \in Appends : fate[u] = "done" => Fin(d, u) <= e
<1>1. Faithful(d, c) /\ Layered(d, c) /\ Rooted(d, c) /\ (~DirectoryMayForget => Kept(d, c))
  BY DEF Image
<1>2. Len(c) \in Nat /\ Scan(c) = At(c, Len(c))
  BY ScanReads
<1>3. ASSUME NEW f, Clean(c, f)
      PROVE  f <= e
  <2>1. f \in 0 .. Len(c) /\ Len(c) \in f .. Len(c) /\ At(c, f).end = f
    BY <1>2, <1>3 DEF Clean
  <2>2. At(c, f).end <= At(c, Len(c)).end
    BY <1>1, <2>1, Onward
  <2>3. QED
    BY <1>2, <2>1, <2>2
<1>4. Under(d, c, e)
  BY <1>1, <1>3 DEF Under, Rooted
<1>5. QED
  BY <1>1, <1>3, <1>4 DEF Kept

\* What is asked for is a list of names without repetition.
LEMMA RequestNames ==
  ASSUME NEW names \in Requests
  PROVE  names \in Seq(Names) /\ IsInjective(names) /\ names # <<>> /\ {names[i] : i \in DOMAIN names} \subseteq Names
<1>1. PICK k \in 1 .. Cardinality(Names) : names \in [1 .. k -> Names]
  BY DEF Requests
<1>2. k \in Nat /\ k >= 1 /\ DOMAIN names = 1 .. k
  BY <1>1
<1>3. names \in Seq(Names) /\ Len(names) = k
  BY <1>1, <1>2
<1>4. \A i, j \in DOMAIN names : names[i] = names[j] => i = j
  BY DEF Requests
<1>5. names # <<>>
  BY <1>2, <1>3
<1>6. QED
  BY <1>1, <1>2, <1>3, <1>4, <1>5 DEF IsInjective

Drafted(q, e, P, k) == k \in Nat /\ q \in Seq(Step) /\ Stepped(q, e, P, k)

\* The plan of an append: its blocks and the steps that write them.
LEMMA BeginPlan ==
  ASSUME NEW t \in Appends, NEW names \in Requests, NEW replace \in BOOLEAN, NEW e \in Nat, NEW c,
         NEW created \in BOOLEAN, NEW S, S = {names[i] : i \in DOMAIN names},
         NEW clear, clear = IF FooterMissing(c, e) THEN Clearing(e) ELSE <<>>
  PROVE  \E P \in Seq(Block) :
           /\ Transaction(P, t, S, replace)
           /\ Drafted(clear \o Appending(t, names, replace, e, created), e, P, Len(clear))
<1>1. names \in Seq(Names) /\ IsInjective(names) /\ names # <<>> /\ S \subseteq Names
  BY RequestNames
<1>2. PICK P : P = Members(t, names) \o Record(t, S, replace)
  OBVIOUS
<1>3. /\ Transaction(P, t, S, replace) /\ Members(t, names) \in Seq(Block)
  BY <1>1, <1>2, TransactionBlocks
<1>4. P \in Seq(Block) /\ Len(P) \in Nat /\ Len(P) >= 3
  BY <1>3 DEF Transaction
<1>5. CommitHeader(t) \in Block /\ Rows(t, S, replace) \in Block
  <2>1. PICK n \in Names : TRUE
    BY <1>1
  <2>2. S \in SUBSET Names
    BY <1>1
  <2>3. QED
    BY <2>1, <2>2, BlocksOfTransaction
<1>6. PICK q : q = Appending(t, names, replace, e, created)
  OBVIOUS
<1>7. Stepped(q, e, P, 0)
  <2>1. Stepped(Appending(t, names, replace, e, created), e, Members(t, names) \o Record(t, S, replace), 0)
    BY <1>3, <1>5, AppendingSteps
  <2>2. QED
    BY <1>2, <1>6, <2>1
<1>8. q \in Seq(Step)
  BY <1>7 DEF Stepped
<1>9. CASE clear = <<>>
  <2>1. clear \o q = q /\ Len(clear) = 0
    BY <1>8, <1>9
  <2>2. Drafted(q, e, P, 0)
    BY <1>7, <1>8 DEF Drafted
  <2>3. Drafted(clear \o Appending(t, names, replace, e, created), e, P, Len(clear))
    BY <1>6, <2>1, <2>2
  <2>4. QED
    BY <1>3, <1>4, <2>3
<1>10. CASE clear = Clearing(e)
  <2>1. Footed(clear, e) /\ Len(clear) = 3
    BY <1>10, FooterSteps DEF Footed
  <2>2. Stepped(clear \o q, e, P, 3)
    BY <1>4, <1>7, <1>8, <2>1, ClearedSteps
  <2>3. Drafted(clear \o q, e, P, 3)
    BY <2>2 DEF Drafted, Stepped
  <2>4. Drafted(clear \o Appending(t, names, replace, e, created), e, P, Len(clear))
    BY <1>6, <2>1, <2>3
  <2>5. QED
    BY <1>3, <1>4, <2>4
<1>11. QED
  BY <1>9, <1>10

\* The plans h are d with one for t, which begins.
Begun(d, h, t, names) ==
  /\ d \in Plans /\ h \in Plans /\ t \in Appends /\ fate[t] = "new" /\ names \subseteq Names
  /\ \A u \in Appends : u # t => h[u] = d[u]
  /\ fate' = [fate EXCEPT ![t] = "open"] /\ asked' = [asked EXCEPT ![t] = names]
  /\ fate \in [Appends -> {"new", "open", "done", "failed", "torn"}]
  /\ asked \in [Appends -> SUBSET Names]

\* No content has a block of a call that has not begun.
LEMMA NoneYet ==
  ASSUME NEW d, NEW h, NEW t, NEW names, Begun(d, h, t, names), NEW c, Faithful(d, c)
  PROVE  /\ c \in Seq(Block) /\ Len(c) \in Nat
         /\ \A p \in 1 .. Len(c) : Owner(c[p]) # t
         /\ \A p \in 1 .. Len(c) : Owner(c[p]) # 0 => /\ Owner(c[p]) \in Appends
                                                      /\ h[Owner(c[p])] = d[Owner(c[p])]
         /\ \A u \in Appends : u # t => h[u] = d[u] /\ Fin(h, u) = Fin(d, u) /\ fate'[u] = fate[u]
         /\ fate'[t] = "open" /\ asked'[t] = names /\ t # 0
<1>1. c \in Seq(Block) /\ Len(c) \in Nat /\ t # 0 /\ t \in Appends
  BY CallsAssumption DEF Faithful, Begun, Appends
<1>2. \A p \in 1 .. Len(c) : Owner(c[p]) # 0 => Owner(c[p]) \in Appends
  BY <1>1, BlockFields DEF Blocklike
<1>3. \A p \in 1 .. Len(c) : Owner(c[p]) # t
  BY <1>1 DEF Faithful, Begun
<1>4. QED
  BY <1>1, <1>2, <1>3 DEF Begun, Fin

\* All that holds of a content still holds when a call begins.
LEMMA ImageBegun ==
  ASSUME NEW d, NEW h, NEW t, NEW names, Begun(d, h, t, names), NEW c, Image(d, c)
  PROVE  Image(h, c)'
<1>1. Faithful(d, c) /\ Whole(d, c) /\ Rooted(d, c) /\ Layered(d, c) /\ Undone(d, c)
      /\ (~DirectoryMayForget => Kept(d, c))
  BY DEF Image
<1>2. /\ c \in Seq(Block) /\ Len(c) \in Nat
      /\ \A p \in 1 .. Len(c) : Owner(c[p]) # t
      /\ \A p \in 1 .. Len(c) : Owner(c[p]) # 0 => /\ Owner(c[p]) \in Appends
                                                   /\ h[Owner(c[p])] = d[Owner(c[p])]
      /\ \A u \in Appends : u # t => h[u] = d[u] /\ Fin(h, u) = Fin(d, u) /\ fate'[u] = fate[u]
      /\ fate'[t] = "open" /\ t # 0
  BY <1>1, NoneYet
<1>3. Faithful(h, c)'
  BY <1>1, <1>2 DEF Faithful
<1>4. Whole(h, c)
  <2>1. SUFFICES ASSUME NEW u \in Appends, Is(c, h[u].start + 1, u), NEW q \in 1 .. Len(c), Owner(c[q]) = u,
                        NEW p \in h[u].start + 1 .. q
                 PROVE  Owner(c[p]) = u
    BY DEF Whole
  <2>2. u # t
    BY <1>2, <2>1 DEF Is
  <2>3. h[u] = d[u]
    BY <1>2, <2>2
  <2>4. QED
    BY <1>1, <2>1, <2>3 DEF Whole
<1>5. Rooted(h, c)
  BY <1>1, <1>2 DEF Rooted
<1>6. Layered(h, c)
  <2>1. SUFFICES ASSUME NEW p \in 1 .. Len(c), NEW q \in 1 .. Len(c), 0 < Owner(c[p]), Owner(c[p]) < Owner(c[q])
                 PROVE  h[Owner(c[p])].start <= h[Owner(c[q])].start
    BY DEF Layered
  <2>2. Owner(c[p]) # 0
    BY <2>1
  <2>3. Owner(c[p]) \in Appends
    BY <1>2, <2>2
  <2>4. Owner(c[q]) # 0
    BY <2>1, <2>3 DEF Appends
  <2>5. h[Owner(c[p])] = d[Owner(c[p])] /\ h[Owner(c[q])] = d[Owner(c[q])]
    BY <1>2, <2>2, <2>4
  <2>6. QED
    BY <1>1, <2>1, <2>5 DEF Layered
<1>7. Undone(h, c)'
  <2>1. ASSUME NEW u \in Appends, fate'[u] = "failed"
        PROVE  ~Is(c, h[u].start + 1, u)
    <3>1. u # t
      BY <1>2, <2>1
    <3>2. h[u] = d[u] /\ fate[u] = "failed"
      BY <1>2, <2>1, <3>1
    <3>3. QED
      BY <1>1, <3>2 DEF Undone
  <2>2. QED
    BY <2>1 DEF Undone
<1>8. (~DirectoryMayForget => Kept(h, c))'
  <2>1. ASSUME ~DirectoryMayForget, NEW u \in Appends, fate'[u] = "done"
        PROVE  Clean(c, Fin(h, u)) /\ u \in At(c, Fin(h, u)).calls
    <3>1. u # t
      BY <1>2, <2>1
    <3>2. Fin(h, u) = Fin(d, u) /\ fate[u] = "done"
      BY <1>2, <2>1, <3>1
    <3>3. QED
      BY <1>1, <2>1, <3>2 DEF Kept
  <2>2. QED
    BY <2>1 DEF Kept
<1>9. QED
  BY <1>3, <1>4, <1>5, <1>6, <1>7, <1>8 DEF Image

\* Begin: the call takes the lock and makes its plan behind the committed prefix.
LEMMA CustodyBegins ==
  ASSUME Custody, NEW t \in Appends, NEW names \in Requests, NEW replace \in BOOLEAN, Begin(t, names, replace)
  PROVE  Custody'
<1>1. PICK d \in Plans : Planned(d)
  BY DEF Custody
<1>2. Typed /\ Orderly /\ Rested /\ Known(d) /\ Images(d) /\ Image(d, file) /\ file \in platter
  BY <1>1 DEF Custody, Planned, Typed, Images
<1>3. PICK e : e = Scan(file).end
  OBVIOUS
<1>4. Clean(file, e) /\ Settled(At(file, e), Scan(file)) /\ Len(file) \in Nat /\ e \in 0 .. Len(file) /\ e \in Nat
  BY <1>2, <1>3, PrefixSettles
<1>5. PICK S : S = {names[i] : i \in DOMAIN names}
  OBVIOUS
<1>6. PICK clear : clear = IF FooterMissing(file, e) THEN Clearing(e) ELSE <<>>
  OBVIOUS
<1>7. PICK created \in BOOLEAN : created = (link = "none")
  OBVIOUS
<1>8. PICK q : q = clear \o Appending(t, names, replace, e, created)
  OBVIOUS
<1>9. PICK P \in Seq(Block) : Transaction(P, t, S, replace) /\ Drafted(q, e, P, Len(clear))
  BY <1>4, <1>5, <1>6, <1>8, BeginPlan
<1>10. PICK k \in Nat : k = Len(clear) /\ Stepped(q, e, P, k) /\ q \in Seq(Step)
  BY <1>9 DEF Drafted
<1>11. /\ writer = Nobody /\ fate[t] = "new" /\ Readable(Scan(file))
       /\ replace \/ \A n \in S : Scan(file).entries[n] = NoEntry
       /\ writer' = [call |-> t, end |-> e, clear |-> Len(clear), undoing |-> FALSE,
                     lent |-> Scan(file).entries, todo |-> q]
       /\ link' = (IF created THEN "volatile" ELSE link)
       /\ fate' = [fate EXCEPT ![t] = "open"] /\ asked' = [asked EXCEPT ![t] = S]
       /\ UNCHANGED <<file, platter, faults>>
  BY <1>3, <1>5, <1>6, <1>7, <1>8 DEF Begin
<1>12. PICK x : x = [start |-> e, blocks |-> P, replace |-> replace, clear |-> k, steps |-> q]
  OBVIOUS
<1>13. PICK h : h = [d EXCEPT ![t] = x]
  OBVIOUS
<1>14. h \in Plans /\ h[t] = x /\ \A u \in Appends : u # t => h[u] = d[u]
  <2>1. x \in [start : Nat, blocks : Seq(Block), replace : BOOLEAN, clear : Nat, steps : Seq(Step)]
    BY <1>4, <1>10, <1>12
  <2>2. QED
    BY <1>13, <2>1 DEF Plans
<1>15. x.start = e /\ x.blocks = P /\ x.replace = replace /\ x.clear = k /\ x.steps = q
  BY <1>12
<1>16. /\ fate \in [Appends -> {"new", "open", "done", "failed", "torn"}]
       /\ asked \in [Appends -> SUBSET Names] /\ S \in SUBSET Names
  BY <1>2, <1>5, RequestNames DEF Typed
<1>17. Begun(d, h, t, S)
  BY <1>11, <1>14, <1>16 DEF Begun
<1>18. Typed'
  BY <1>2, <1>11, <1>16 DEF Typed
<1>19. fate'[t] = "open" /\ asked'[t] = S /\ \A u \in Appends : u # t => fate'[u] = fate[u] /\ asked'[u] = asked[u]
  BY <1>11, <1>16
<1>20. writer'.call = t /\ writer'.todo = q /\ writer'.end = e /\ writer'.lent = Scan(file).entries
  BY <1>11
<1>21. writer' # Nobody
  BY <1>20, CallsAssumption DEF Nobody, Appends
<1>22. Rested' /\ Survives'
  BY <1>21 DEF Rested, Survives, Nobody
<1>23. \A u \in Appends : u > t => fate[u] = "new"
  BY <1>2, <1>11 DEF Orderly
<1>24. Orderly'
  <2>1. \A u \in Appends : fate'[u] = "open" => u = t
    BY <1>2, <1>11, <1>19 DEF Orderly
  <2>2. \A u \in Appends : u < t => fate[u] # "new"
    BY DEF Begin
  <2>3. ASSUME NEW u \in Appends, NEW v \in Appends, u < v, fate'[v] # "new"
        PROVE  fate'[u] # "new"
    <3>1. CASE v = t
      <4>1. u # t
        BY <2>3, <3>1 DEF Appends
      <4>2. QED
        BY <1>19, <2>2, <2>3, <3>1, <4>1
    <3>2. CASE v # t
      <4>1. fate[v] # "new"
        BY <1>19, <2>3, <3>2
      <4>2. fate[u] # "new"
        BY <1>2, <2>3, <4>1 DEF Orderly
      <4>3. QED
        BY <1>11, <1>19, <4>2
    <3>3. QED
      BY <3>1, <3>2
  <2>4. QED
    BY <1>20, <1>21, <2>1, <2>3 DEF Orderly, Nobody
<1>25. Known(h)'
  <2>1. ASSUME NEW u \in Appends, fate'[u] # "new"
        PROVE  /\ Transaction(h[u].blocks, u, asked'[u], h[u].replace)
               /\ Stepped(h[u].steps, h[u].start, h[u].blocks, h[u].clear)
    <3>1. CASE u = t
      BY <1>9, <1>10, <1>14, <1>15, <1>19, <3>1
    <3>2. CASE u # t
      BY <1>2, <1>14, <1>19, <2>1, <3>2 DEF Known
    <3>3. QED
      BY <3>1, <3>2
  <2>2. QED
    BY <1>14, <2>1 DEF Known
<1>26. Images(h)'
  <2>1. ASSUME NEW c \in platter
        PROVE  Image(h, c)'
    <3>1. Image(d, c)
      BY <1>2 DEF Images
    <3>2. QED
      BY <1>17, <3>1, ImageBegun
  <2>2. QED
    BY <1>11, <2>1 DEF Images
<1>27. Open(h, t, e, P, k)'
  <2>1. Len(P) \in Nat /\ Len(P) >= 3
    BY <1>9 DEF Transaction
  <2>2. \A u \in Appends : u > t => fate'[u] = "new"
    BY <1>19, <1>23 DEF Appends
  <2>3. QED
    BY <1>4, <1>9, <1>14, <1>15, <1>19, <2>1, <2>2 DEF Open
<1>28. Base(h, file, t, e)'
  <2>1. Under(d, file, e) /\ (~DirectoryMayForget => \A u \in Appends : fate[u] = "done" => Fin(d, u) <= e)
    BY <1>2, <1>3, PrefixIsBase
  <2>2. Faithful(d, file)
    BY <1>2 DEF Image
  <2>3. /\ \A p \in 1 .. Len(file) : Owner(file[p]) # 0 => /\ Owner(file[p]) \in Appends
                                                           /\ h[Owner(file[p])] = d[Owner(file[p])]
        /\ \A u \in Appends : u # t => h[u] = d[u] /\ Fin(h, u) = Fin(d, u) /\ fate'[u] = fate[u]
    BY <1>17, <2>2, NoneYet
  <2>4. Under(h, file, e)
    BY <2>1, <2>3 DEF Under
  <2>5. ~DirectoryMayForget => \A u \in Appends : fate'[u] = "done" => Fin(h, u) <= e
    BY <1>19, <2>1, <2>3
  <2>6. QED
    BY <1>4, <1>11, <1>14, <1>15, <2>4, <2>5 DEF Base
<1>29. At(file, e).entries = Scan(file).entries
  BY <1>4 DEF Settled
<1>30. Admits(h, t, At(file, e))'
  BY <1>11, <1>14, <1>15, <1>19, <1>29 DEF Admits
<1>31. Placed(P, k, t, e, 0, file, platter)
  <2>1. Written(P, k, 0) = 0 /\ Len(P) \in Nat /\ 1 .. 0 = {}
    BY <1>9 DEF Written, Transaction
  <2>2. \A x1 \in platter : \A p \in 1 .. Len(x1) : Owner(x1[p]) # t
    <3>1. SUFFICES ASSUME NEW c \in platter PROVE \A p \in 1 .. Len(c) : Owner(c[p]) # t
      OBVIOUS
    <3>2. Faithful(d, c)
      BY <1>2 DEF Images, Image
    <3>3. QED
      BY <1>17, <3>2, NoneYet
  <2>3. faults = 0 => Len(file) <= e + 2
    BY <1>2, <1>3, <1>11 DEF Rested
  <2>4. ~(0 >= k + Len(P) + 4)
    BY <2>1
  <2>5. QED
    BY <2>1, <2>2, <2>3, <2>4 DEF Placed
<1>32. Moving(h, t, e, P, k, q, file, platter)
  <2>1. Rest(q, q, 0)
    BY <1>10 DEF Rest
  <2>2. QED
    BY <1>14, <1>15, <1>31, <2>1 DEF Moving
<1>33. Moving(h, t, e, P, k, writer.todo, file, platter)'
  BY <1>11, <1>20, <1>32 DEF Moving, Placed
<1>34. Manned(writer', t, e) /\ writer'.undoing = FALSE
  BY <1>11 DEF Manned
<1>35. faults = 0 => platter = {file} /\ Calm(file, e, t)
  BY <1>2, <1>3, <1>11 DEF Rested, Calm
<1>36. Working(h, t, e, P, k, writer, file, platter)'
  BY <1>11, <1>20, <1>27, <1>28, <1>29, <1>30, <1>33, <1>34, <1>35 DEF Working
<1>37. Busy(h)'
  BY <1>4, <1>36 DEF Busy
<1>38. QED
  BY <1>14, <1>18, <1>22, <1>24, <1>25, <1>26, <1>37 DEF Custody, Planned

\* A step that changes nothing keeps the invariant.
LEMMA CustodyRests == Custody /\ UNCHANGED archiveVars => Custody'
<1> SUFFICES ASSUME Custody, UNCHANGED archiveVars PROVE Custody'
  OBVIOUS
<1>1. UNCHANGED <<file, platter, link, writer, fate, asked, faults>>
  BY DEF archiveVars
<1>2. PICK d \in Plans : Planned(d)
  BY DEF Custody
<1>3. Typed' /\ Orderly' /\ Rested' /\ Survives'
  BY <1>1 DEF Custody, Typed, Orderly, Rested, Survives
<1>4. Known(d)' /\ Images(d)'
  BY <1>1, <1>2 DEF Planned, Known, Images, Image, Faithful, Undone, Kept
<1>5. Busy(d)'
  <2>1. SUFFICES ASSUME writer # Nobody
        PROVE  \E t \in Appends, e \in Nat, P \in Seq(Block), k \in Nat :
                 Working(d, t, e, P, k, writer, file, platter)'
    BY <1>1 DEF Busy
  <2>2. PICK t \in Appends, e \in Nat, P \in Seq(Block), k \in Nat :
          Working(d, t, e, P, k, writer, file, platter)
    BY <1>2, <2>1 DEF Planned, Busy
  <2>3. Working(d, t, e, P, k, writer', file', platter')
    BY <1>1, <2>2
  <2>4. Working(d, t, e, P, k, writer, file, platter)'
    BY <1>1, <2>3, WorkingStays
  <2>5. QED
    BY <2>4
<1>6. QED
  BY <1>3, <1>4, <1>5 DEF Custody, Planned

\* Every step of the archive keeps the invariant.
LEMMA CustodySteps == Custody /\ [ArchiveNext]_archiveVars => Custody'
  BY CustodyRests, CustodyBegins, CustodyWrites, CustodySyncs, CustodyFinishes, CustodyRaises,
     CustodyDies, CustodyLosesPower DEF ArchiveNext

\* The entries in a reader's hands are those of a walk over the file.
LEMMA LentRead ==
  ASSUME NEW d, Planned(d), Typed
  PROVE  \E p \in Nat : \E s \in {Scan(file), At(file, p)} :
           /\ Lent = s.entries /\ Reading(d, file, s, p)
           /\ writer # Nobody => \E t, P, k : Working(d, t, p, P, k, writer, file, platter)
<1>1. Known(d) /\ Image(d, file)
  BY DEF Planned, Images, Typed
<1>2. CASE writer = Nobody
  <2>1. Len(file) \in Nat /\ Reading(d, file, Scan(file), Len(file))
    BY <1>1, ScanReads
  <2>2. Lent = Scan(file).entries
    BY <1>2 DEF Lent, Idle
  <2>3. QED
    BY <1>2, <2>1, <2>2
<1>3. CASE writer # Nobody
  <2>1. PICK t \in Appends, e \in Nat, P \in Seq(Block), k \in Nat :
          Working(d, t, e, P, k, writer, file, platter)
    BY <1>3 DEF Planned, Busy
  <2>2. writer.lent = At(file, e).entries /\ e \in 0 .. Len(file)
    BY <2>1 DEF Working, Base, Clean
  <2>3. Reading(d, file, At(file, e), e)
    BY <1>1, <2>2, Readings DEF Image
  <2>4. Lent = At(file, e).entries
    BY <1>3, <2>2 DEF Lent, Idle
  <2>5. QED
    BY <2>1, <2>3, <2>4
<1>4. QED
  BY <1>2, <1>3

\* A write lies behind the end of the prefix lent.
LEMMA WritesBehind ==
  ASSUME NEW d, Known(d), NEW t, NEW e, NEW P, NEW k, Working(d, t, e, P, k, writer, file, platter),
         writer.todo # <<>>, Head(writer.todo).op = "write"
  PROVE  Head(writer.todo).at \in Nat /\ Head(writer.todo).at > e
<1>1. Open(d, t, e, P, k) /\ writer.undoing \in BOOLEAN
  BY DEF Working, Manned
<1>2. e \in Nat /\ t \in Appends /\ fate[t] # "new" /\ Len(P) \in Nat /\ Len(P) >= 3 /\ k \in Nat
      /\ e = d[t].start /\ P = d[t].blocks /\ k = d[t].clear
  BY <1>1 DEF Open
<1>3. CASE ~writer.undoing
  <2>1. PICK j \in Nat : Rest(writer.todo, d[t].steps, j)
    BY <1>3 DEF Working, Moving
  <2>2. j + 1 <= Len(d[t].steps) /\ Head(writer.todo) = d[t].steps[j + 1] /\ Len(d[t].steps) \in Nat
    BY <2>1, RestNext DEF Rest
  <2>3. Stepped(d[t].steps, e, P, k)
    BY <1>2 DEF Known
  <2>4. Move(e, P, k, j, d[t].steps[j + 1])
    BY <1>2, <2>2, <2>3, StepMoves
  <2>5. PICK s : s = d[t].steps[j + 1]
    OBVIOUS
  <2>6. s.op = "write" /\ Head(writer.todo) = s /\ Move(e, P, k, j, s)
    BY <2>2, <2>4, <2>5
  <2>7. \E x \in Nat : x >= 1 /\ s = Put(e + x, s.block)
    <3>1. CASE s = Put(e + (j + 1), Zero)
      BY <3>1, StepFields
    <3>2. CASE /\ Written(P, k, j) \in Nat /\ Written(P, k, j + 1) = Written(P, k, j) + 1
               /\ s = Put(e + Written(P, k, j + 1), Target(P, Written(P, k, j + 1)))
      <4>1. PICK x \in Nat : x = Written(P, k, j + 1) /\ x >= 1
        BY <3>2
      <4>2. s = Put(e + x, Target(P, x))
        BY <3>2, <4>1
      <4>3. QED
        BY <4>1, <4>2, StepFields
    <3>3. QED
      BY <2>6, <3>1, <3>2, StepFields DEF Move
  <2>8. PICK x \in Nat : x >= 1 /\ s = Put(e + x, s.block)
    BY <2>7
  <2>9. s.at = e + x
    BY <2>8, StepFields
  <2>10. QED
    BY <1>2, <2>6, <2>8, <2>9
<1>4. CASE writer.undoing
  <2>1. PICK j \in Nat : Rest(writer.todo, Undoing(e), j)
    BY <1>4 DEF Working, Retreating
  <2>2. j + 1 <= Len(Undoing(e)) /\ Head(writer.todo) = Undoing(e)[j + 1]
    BY <2>1, RestNext
  <2>3. Footed(Undoing(e), e)
    BY <1>2, FooterSteps
  <2>4. j + 1 \in 1 .. 3
    BY <2>2, <2>3 DEF Footed
  <2>5. Head(writer.todo) \in {Put(e + 1, Zero), Put(e + 2, Zero), Sync}
    BY <2>2, <2>3, <2>4 DEF Footed
  <2>6. QED
    BY <1>2, <2>5, StepFields
<1>5. QED
  BY <1>1, <1>3, <1>4

\* What the file has of a transaction behind an entry stays through a step.
LEMMA BytesStay ==
  ASSUME ~DirectoryMayForget, Custody, [ArchiveNext]_archiveVars, NEW d \in Plans, Planned(d),
         NEW t \in Appends, fate[t] # "new", fate[t] = "done" \/ faults' = faults,
         \A p \in d[t].start + 1 .. Fin(d, t) : p \in 1 .. Len(file) /\ file[p] = d[t].blocks[p - d[t].start],
         NEW z \in Nat, Fin(d, t) <= z,
         writer # Nobody => \E u, P, k : Working(d, u, z, P, k, writer, file, platter)
  PROVE  \A p \in d[t].start + 1 .. Fin(d, t) : p \in DOMAIN file' /\ file'[p] = file[p]
<1>1. Known(d) /\ Images(d) /\ Image(d, file) /\ faults \in Nat
  BY FaultsAssumption DEF Custody, Typed, Planned, Images
<1>2. file \in Seq(Block) /\ Len(file) \in Nat /\ DOMAIN file = 1 .. Len(file)
  BY <1>1 DEF Image, Faithful
<1>3. PICK e \in Nat : e = d[t].start /\ Fin(d, t) = e + Len(d[t].blocks) /\ Fin(d, t) \in Nat
  BY <1>1, PlanKnown
<1>4. CASE file' = file
  BY <1>2, <1>4
<1>5. CASE WriteBlock
  <2>1. writer # Nobody /\ writer.todo # <<>> /\ Head(writer.todo).op = "write"
        /\ Wrote(writer.todo, file, file')
    BY <1>5 DEF WriteBlock, Wrote
  <2>2. PICK at : at = Head(writer.todo).at
    OBVIOUS
  <2>3. at \in Nat /\ at > z
    <3>1. PICK u, P, k : Working(d, u, z, P, k, writer, file, platter)
      BY <2>1
    <3>2. QED
      BY <1>1, <2>1, <2>2, <3>1, WritesBehind
  <2>4. file' = IF at \in DOMAIN file THEN [file EXCEPT ![at] = Head(writer.todo).block]
                ELSE Append(file, Head(writer.todo).block)
    BY <2>1, <2>2 DEF Wrote
  <2>5. \A p \in 1 .. Len(file) : p # at => p \in DOMAIN file' /\ file'[p] = file[p]
    BY <1>2, <2>4
  <2>6. SUFFICES ASSUME NEW p \in d[t].start + 1 .. Fin(d, t) PROVE p \in DOMAIN file' /\ file'[p] = file[p]
    OBVIOUS
  <2>7. p \in 1 .. Len(file) /\ p <= Fin(d, t) /\ p \in Nat
    BY <1>3
  <2>8. p # at
    BY <1>3, <2>3, <2>7
  <2>9. QED
    BY <2>5, <2>7, <2>8
<1>6. CASE PowerLoss
  <2>1. file' \in platter /\ fate[t] = "done"
    BY <1>1, <1>6 DEF PowerLoss
  <2>2. PICK c : c = file'
    OBVIOUS
  <2>3. Image(d, c)
    BY <1>1, <2>1, <2>2 DEF Images
  <2>4. c \in Seq(Block) /\ DOMAIN c = 1 .. Len(c)
    BY <2>3 DEF Image, Faithful
  <2>5. PICK z0 : z0 = Fin(d, t)
    OBVIOUS
  <2>6. z0 \in 0 .. Len(c) /\ t \in At(c, z0).calls
    BY <2>1, <2>3, <2>5 DEF Image, Kept, Clean
  <2>7. Reading(d, c, At(c, z0), z0)
    BY <1>1, <2>3, <2>6, Readings DEF Image
  <2>8. Is(c, d[t].start + 1, t) /\ Is(c, Fin(d, t), t)
    BY <2>6, <2>7 DEF Reading, Committed
  <2>9. \A p \in d[t].start + 1 .. Fin(d, t) : p \in 1 .. Len(c) /\ c[p] = d[t].blocks[p - d[t].start]
    BY <1>1, <2>3, <2>8, TransactionBytes
  <2>10. QED
    BY <2>2, <2>4, <2>9
<1>7. QED
  BY <1>4, <1>5, <1>6 DEF ArchiveNext, Begin, SyncFile, SyncLink, Finish, Raise, Die, archiveVars

\* No step changes a block behind an entry in a reader's hands.
LEMMA CustodyLends ==
  ASSUME ~DirectoryMayForget, Custody, [ArchiveNext]_archiveVars
  PROVE  Lending
<1>1. PICK d \in Plans : Planned(d)
  BY DEF Custody
<1>2. Known(d) /\ Image(d, file) /\ Typed
  BY <1>1 DEF Custody, Typed, Planned, Images
<1>3. PICK z \in Nat : \E s \in {Scan(file), At(file, z)} :
        /\ Lent = s.entries /\ Reading(d, file, s, z)
        /\ writer # Nobody => \E t, P, k : Working(d, t, z, P, k, writer, file, platter)
  BY <1>1, <1>2, LentRead
<1>4. PICK s :
        /\ Lent = s.entries /\ Reading(d, file, s, z)
        /\ writer # Nobody => \E t, P, k : Working(d, t, z, P, k, writer, file, platter)
  BY <1>3
<1>5. SUFFICES ASSUME NEW n \in Names, Lent[n] # NoEntry,
                      fate[Lent[n].call] = "done" \/ faults' = faults
      PROVE  \A i \in 0 .. Blocks[n] :
               Lent[n].at + i \in DOMAIN file' /\ file'[Lent[n].at + i] = file[Lent[n].at + i]
  BY DEF Lending
<1>6. Backed(d, file, s, n)
  BY <1>2, <1>4, EntriesBacked
<1>7. PICK t \in Appends, q \in Nat :
        /\ Lent[n] = [call |-> t, at |-> q] /\ fate[t] # "new"
        /\ Fin(d, t) <= s.end /\ q \in d[t].start + 1 .. Fin(d, t)
        /\ \A p \in d[t].start + 1 .. Fin(d, t) : p \in 1 .. Len(file) /\ file[p] = d[t].blocks[p - d[t].start]
        /\ \A i \in 1 .. Blocks[n] : q + i \in d[t].start + 1 .. Fin(d, t)
  BY <1>4, <1>5, <1>6 DEF Backed
<1>8. Fin(d, t) <= z
  <2>1. s.end \in Nat /\ s.end <= z
    BY <1>4 DEF Reading
  <2>2. Fin(d, t) \in Nat
    BY <1>2, <1>7, PlanKnown
  <2>3. QED
    BY <1>7, <2>1, <2>2
<1>9. \A p \in d[t].start + 1 .. Fin(d, t) : p \in DOMAIN file' /\ file'[p] = file[p]
  <2>1. fate[t] = "done" \/ faults' = faults
    BY <1>5, <1>7
  <2>2. QED
    BY <1>1, <1>4, <1>7, <1>8, <2>1, BytesStay
<1>10. ASSUME NEW i \in 0 .. Blocks[n]
      PROVE  q + i \in d[t].start + 1 .. Fin(d, t)
  <2>1. Blocks[n] \in Nat
    BY BlocksAssumption
  <2>2. CASE i = 0
    BY <1>7, <2>2
  <2>3. CASE i # 0
    <3>1. i \in 1 .. Blocks[n]
      BY <2>1, <2>3
    <3>2. QED
      BY <1>7, <3>1
  <2>4. QED
    BY <2>2, <2>3
<1>11. Lent[n].at = q
  BY <1>7
<1>12. QED
  BY <1>9, <1>10, <1>11

\* The archive always satisfies the invariant.
THEOREM CustodyHolds == ArchiveSpec => []Custody
<1>1. ArchiveInit => Custody
  BY CustodyInit
<1>2. Custody /\ [ArchiveNext]_archiveVars => Custody'
  BY CustodySteps
<1>3. QED
  BY <1>1, <1>2, PTL DEF ArchiveSpec

\* Readers of an idle archive are shown whole transactions, each name with the version of the
\* newest one and its own payload, and one interrupted append leaves it readable (_scan, _index).
THEOREM ArchiveExposureIsAtomic == ArchiveSpec => []ExposureIsAtomic
<1>1. Custody => ExposureIsAtomic
  BY CustodyShows
<1>2. QED
  BY <1>1, CustodyHolds, PTL

\* On a disk that keeps the name of a new file, a readable archive shows every transaction that
\* append_members acknowledged, and none that it undid before it raised.
THEOREM ArchiveTellsTheTruth ==
  ASSUME ~DirectoryMayForget
  PROVE  ArchiveSpec => []CallersAreToldTheTruth
<1>1. Custody => CallersAreToldTheTruth
  BY CustodyTells
<1>2. QED
  BY <1>1, CustodyHolds, PTL

\* On such a disk no step of an append changes a block behind an entry in a reader's hands, and
\* no fault one of an acknowledged transaction (_APPEND_SNAPSHOTS).
THEOREM ArchiveLendsForGood ==
  ASSUME ~DirectoryMayForget
  PROVE  ArchiveSpec => LentBytesNeverChange
<1>1. Custody /\ [ArchiveNext]_archiveVars => [Lending]_archiveVars
  BY CustodyLends
<1>2. LentBytesNeverChange <=> [][Lending]_archiveVars
  BY DEF LentBytesNeverChange
<1>3. QED
  BY <1>1, <1>2, CustodyHolds, PTL DEF ArchiveSpec
================================================================================
