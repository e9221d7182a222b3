------------------------ MODULE RelayFrontierProofs ------------------------
(***************************************************************************)
(* Theorems about RelayFrontier for any tiles, overlaps and tracker, any   *)
(* number of slots and any order of the answers: no offered pixel is       *)
(* forgotten and a settled frontier is closed under the overlaps, every    *)
(* attempt has more pixels than the last, and the frontier implements the  *)
(* deterministic waves of RelayWaves.  Masks are sets of anything: nothing *)
(* below depends on what the tracker does with them.                       *)
(***************************************************************************)
EXTENDS RelayFrontier, DataProofs

-----------------------------------------------------------------------------
(* Windows. *)

\* A window ends at a frame of the view, on the side its mailbox faces.
LEMMA FarInView ==
  ASSUME NEW k \in Keys
  PROVE  /\ Far(k) \in Frames
         /\ k[3] = "forward" => k[2] <= Far(k)
         /\ k[3] # "forward" => Far(k) <= k[2]
<1>1. k[2] \in 0..LastFrame /\ LastFrame \in Nat /\ Advance \in Nat \ {0}
  BY FrontierAssumption DEF Keys, Frames
<1>2. CASE k[3] = "forward"
  <2> DEFINE q == k[2] \div Advance
  <2>1. q \in Nat /\ k[2] < q * Advance + Advance
    BY <1>1
  <2>2. (q + 1) * Advance \in Nat /\ k[2] < (q + 1) * Advance
    BY <1>1, <2>1
  <2> HIDE DEF q
  <2>3. QED
    BY <1>1, <1>2, <2>2 DEF Far, Frames, q
<1>3. CASE k[3] # "forward"
  <2>1. CASE k[2] = 0
    BY <1>1, <1>3, <2>1 DEF Far, Frames
  <2>2. CASE k[2] # 0
    <3> DEFINE q == (k[2] - 1) \div Advance
    <3>1. q \in Nat /\ q * Advance <= k[2] - 1
      BY <1>1, <2>2
    <3>2. q * Advance \in Nat
      BY <1>1, <3>1
    <3> HIDE DEF q
    <3>3. QED
      BY <1>1, <1>3, <2>2, <3>1, <3>2 DEF Far, Frames, q
  <2>3. QED
    BY <2>1, <2>2
<1>4. QED
  BY <1>2, <1>3

-----------------------------------------------------------------------------
(* The tracker. *)

\* The first n masks of a tracker that starts from a prompt.
Follows(g, step, prompt, n) == g[0] = prompt /\ \A i \in 1..n : g[i] = step[g[i - 1]]

\* A nonempty set of naturals up to n has a least element.
LEMMA LeastUpTo ==
  ASSUME NEW n \in Nat, NEW C \in SUBSET (0..n), C # {}
  PROVE  \E x \in C : \A y \in C : x <= y
<1>1. IsFiniteSet(0..n)
  BY FS_Interval
<1>2. IsFiniteSet(C)
  BY <1>1, FS_Subset
<1>3. \A x \in C : x \in Int
  OBVIOUS
<1>4. QED
  BY <1>2, <1>3, Least

\* The tracker can go on for any number of frames.
LEMMA FollowsExists ==
  ASSUME NEW step, NEW prompt, NEW n \in Nat
  PROVE  \E g : Follows(g, step, prompt, n)
<1> DEFINE C == {j \in 0..n : ~ \E g : Follows(g, step, prompt, j)}
<1>1. SUFFICES ASSUME C # {} PROVE FALSE
  <2>1. n \in 0..n
    OBVIOUS
  <2>2. QED
    BY <2>1
<1>2. PICK j \in C : \A y \in C : j <= y
  <2>1. C \in SUBSET (0..n)
    OBVIOUS
  <2> HIDE DEF C
  <2>2. QED
    BY <1>1, <2>1, LeastUpTo
<1>3. CASE j = 0
  <2> DEFINE g == [i \in {0} |-> prompt]
  <2>1. Follows(g, step, prompt, 0)
    BY DEF Follows
  <2>2. QED
    BY <1>2, <1>3, <2>1
<1>4. CASE j # 0
  <2>1. j \in 1..n /\ j - 1 \in 0..n /\ ~(j <= j - 1)
    BY <1>2, <1>4
  <2>2. PICK g : Follows(g, step, prompt, j - 1)
    BY <1>2, <2>1
  <2> DEFINE h == [i \in 0..j |-> IF i = j THEN step[g[j - 1]] ELSE g[i]]
  <2>3. h[0] = prompt
    BY <2>1, <2>2 DEF Follows
  <2>4. \A i \in 1..j : h[i] = step[h[i - 1]]
    <3> SUFFICES ASSUME NEW i \in 1..j PROVE h[i] = step[h[i - 1]]
      OBVIOUS
    <3>1. i \in 0..j /\ i - 1 \in 0..j /\ i - 1 # j
      BY <2>1
    <3>2. h[i - 1] = g[i - 1]
      BY <3>1
    <3>3. CASE i = j
      BY <3>1, <3>2, <3>3
    <3>4. CASE i # j
      <4>1. i \in 1..(j - 1)
        BY <2>1, <3>4
      <4>2. g[i] = step[g[i - 1]]
        BY <2>2, <4>1 DEF Follows
      <4>3. QED
        BY <3>1, <3>2, <3>4, <4>2
    <3>5. QED
      BY <3>3, <3>4
  <2>5. Follows(h, step, prompt, j)
    BY <2>3, <2>4 DEF Follows
  <2>6. QED
    BY <1>2, <2>5
<1>5. QED
  BY <1>3, <1>4

\* It does so in one way.
LEMMA FollowsUnique ==
  ASSUME NEW step, NEW prompt, NEW n \in Nat, NEW m \in Nat, n <= m, NEW g, NEW h,
         Follows(g, step, prompt, n), Follows(h, step, prompt, m)
  PROVE  g[n] = h[n]
<1> DEFINE C == {j \in 0..n : g[j] # h[j]}
<1>1. SUFFICES ASSUME C # {} PROVE FALSE
  <2>1. n \in 0..n
    OBVIOUS
  <2>2. QED
    BY <2>1
<1>2. PICK j \in C : \A y \in C : j <= y
  <2>1. C \in SUBSET (0..n)
    OBVIOUS
  <2> HIDE DEF C
  <2>2. QED
    BY <1>1, <2>1, LeastUpTo
<1>3. j # 0
  BY <1>2 DEF Follows
<1>4. j \in 1..n /\ j \in 1..m /\ j - 1 \in 0..n /\ ~(j <= j - 1)
  BY <1>2, <1>3
<1>5. g[j - 1] = h[j - 1]
  BY <1>2, <1>4
<1>6. g[j] = step[g[j - 1]] /\ h[j] = step[h[j - 1]]
  BY <1>4 DEF Follows
<1>7. QED
  BY <1>2, <1>5, <1>6

\* m is what the recursion of Tracked defines.
Course(m, step, prompt) == m = [i \in Nat |-> IF i = 0 THEN prompt ELSE step[m[i - 1]]]

\* The recursion of Tracked has a solution.
LEMMA CourseExists ==
  ASSUME NEW step, NEW prompt
  PROVE  \E m : Course(m, step, prompt)
<1> DEFINE G(n) == CHOOSE g : Follows(g, step, prompt, n)
           m == [i \in Nat |-> G(i)[i]]
<1>1. \A n \in Nat : Follows(G(n), step, prompt, n)
  BY FollowsExists
<1> HIDE DEF G
<1>2. m[0] = prompt
  BY <1>1 DEF Follows
<1>3. ASSUME NEW i \in Nat, i # 0
      PROVE  m[i] = step[m[i - 1]]
  <2>1. i - 1 \in Nat /\ i - 1 <= i /\ i \in 1..i
    BY <1>3
  <2>2. G(i)[i] = step[G(i)[i - 1]]
    BY <1>1, <2>1 DEF Follows
  <2>3. G(i - 1)[i - 1] = G(i)[i - 1]
    BY <1>1, <2>1, FollowsUnique
  <2>4. QED
    BY <2>1, <2>2, <2>3
<1>4. m = [i \in Nat |-> m[i]]
  OBVIOUS
<1> HIDE DEF m
<1>5. \A i \in Nat : m[i] = IF i = 0 THEN prompt ELSE step[m[i - 1]]
  BY <1>2, <1>3
<1>6. m = [i \in Nat |-> IF i = 0 THEN prompt ELSE step[m[i - 1]]]
  BY <1>4, <1>5
<1>7. Course(m, step, prompt)
  BY <1>6 DEF Course
<1>8. QED
  BY <1>7

\* The frames a session can reach from its prompt to a frame on the side it faces.
Facing(k, far) == IF k[3] = "forward" THEN k[2] <= far ELSE far <= k[2]

\* A session predicts frames of its span only, and its prompt in the frame of the prompt.
LEMMA TrackedStart ==
  ASSUME NEW fl, NEW k \in Keys, NEW prompt, NEW far \in Frames, Facing(k, far)
  PROVE  /\ DOMAIN Tracked(fl, k, prompt, far) \subseteq Span(k, far)
         /\ k[2] \in DOMAIN Tracked(fl, k, prompt, far)
         /\ Tracked(fl, k, prompt, far)[k[2]] = prompt
<1> DEFINE mask == CHOOSE m : m = [i \in Nat |-> IF i = 0 THEN prompt ELSE fl[k[1]][k[3]][m[i - 1]]]
           visited == {f \in Span(k, far) : \A g \in Span(k, far) :
                     Distance(k, g) < Distance(k, f) => mask[Distance(k, g)] # {}}
<1>1. Tracked(fl, k, prompt, far) = [f \in visited |-> mask[Distance(k, f)]]
  BY DEF Tracked
<1>2. mask = [i \in Nat |-> IF i = 0 THEN prompt ELSE fl[k[1]][k[3]][mask[i - 1]]]
  <2> DEFINE step == fl[k[1]][k[3]]
  <2> HIDE DEF step
  <2>0. \E m : Course(m, step, prompt)
    BY CourseExists
  <2>1. \E m : m = [i \in Nat |-> IF i = 0 THEN prompt ELSE fl[k[1]][k[3]][m[i - 1]]]
    BY <2>0 DEF step, Course
  <2>2. QED
    BY <2>1, Zenon
<1> HIDE DEF mask
<1>3. mask[0] = prompt
  BY <1>2
<1>4. k[2] \in Int /\ far \in Int
  BY FrontierAssumption DEF Keys, Frames
<1>5. k[2] \in Span(k, far) /\ Distance(k, k[2]) = 0 /\ \A g \in Span(k, far) : ~(Distance(k, g) < 0)
  BY <1>4 DEF Facing, Span, Distance
<1>6. QED
  BY <1>1, <1>3, <1>5

-----------------------------------------------------------------------------
(* The inductive invariant. *)

\* The shape of the state, as far as the proofs need it: what a mask is does not matter.
TypeOK ==
  /\ stage \in {"admit", "waves", "settled", "raised"}
  /\ box = [k \in Keys |-> [mask |-> box[k].mask, dirty |-> box[k].dirty]]
  /\ \A k \in Keys : box[k].dirty \in BOOLEAN
  /\ coverage = [masks |-> coverage.masks, edges |-> coverage.edges]
  /\ coverage.masks = [s \in Tiles \X Frames |-> coverage.masks[s]]
  /\ coverage.edges = [s \in Tiles \X Directions |-> coverage.edges[s]]
  /\ lease = [k \in DOMAIN lease |-> lease[k]] /\ DOMAIN lease \subseteq Keys
  /\ plan = [k \in DOMAIN plan |-> plan[k]] /\ DOMAIN plan \subseteq DOMAIN lease
  /\ active \subseteq DOMAIN plan /\ received \subseteq DOMAIN plan /\ active \intersect received = {}
  /\ attempts = [k \in Keys |-> attempts[k]]
  /\ \A k \in Keys : attempts[k] \in Seq(Executed(k))

\* What each stage leaves behind it: a wave is out, or everything was offered.
Stages ==
  /\ stage # "admit" => incoming = Nothing
  /\ stage \in {"admit", "settled"} => emitted = Nothing /\ DOMAIN lease = {}
  /\ stage = "waves" => DOMAIN lease # {}
  /\ stage = "settled" => \A k \in Keys : ~box[k].dirty

\* While a wave is out its mailboxes stay dirty and as they were leased; one that has no
\* session was handed off.
Leases ==
  \A k \in DOMAIN lease :
    /\ box[k].dirty /\ lease[k] = box[k].mask
    /\ k \in DOMAIN plan => lease[k] \subseteq plan[k]
    /\ k \notin DOMAIN plan => CanHandoff(coverage, k, lease[k])

\* What was executed lies in the mailbox, but is not what a dirty mailbox waits with; and
\* it is covered once the session has answered.
Executions ==
  \A k \in Keys :
    /\ \A m \in Executed(k) : /\ m \subseteq box[k].mask
                              /\ m \subseteq coverage.masks[<<k[1], k[2]>>] \/ k \in active
    /\ box[k].dirty /\ k \notin active \union received => box[k].mask \notin Executed(k)
    /\ k \in active \union received => lease[k] \in Executed(k)

\* What tile t sees of the coverage of tile s in frame f, nothing outside the view.
Visible(cov, s, t, f) == IF f \in Frames THEN Shared(s, t, cov.masks[<<s, f>>]) ELSE {}

\* The frame before the prompt of a mailbox, in its direction.
Previous(k) == IF k[3] = "forward" THEN k[2] - 1 ELSE k[2] + 1

\* What a session of the wave has seen, and the relays of those that have answered.
Seen(r) == Tracked(flow, r, plan[r], Far(r))
Answered(k) == UNION {Relays(r[1], Seen(r))[k] : r \in received}

\* Everything a mailbox has been offered, or is about to be.
Known(k) == box[k].mask \union incoming[k] \union emitted[k] \union Answered(k)

\* Where the coverage of a tile becomes visible to a neighbour, the neighbour's mailbox
\* knows of it.
Relayed ==
  \A s \in Tiles, k \in Keys :
    s # k[1] /\ Visible(coverage, s, k[1], Previous(k)) = {} =>
      Visible(coverage, s, k[1], k[2]) \subseteq Known(k)

\* The inductive invariant.
IInv ==
  /\ TypeOK /\ Stages /\ Leases /\ Executions
  /\ AttemptsGrow /\ NoPixelForgotten /\ Relayed

-----------------------------------------------------------------------------
(* Mailboxes. *)

\* A family of mailboxes.
Boxes(b) == /\ b = [k \in Keys |-> [mask |-> b[k].mask, dirty |-> b[k].dirty]]
            /\ \A k \in Keys : b[k].dirty \in BOOLEAN

\* Every nonempty set of naturals has a least element.
LEMMA LeastNat ==
  ASSUME NEW S \in SUBSET Nat, S # {}
  PROVE  \E x \in S : \A y \in S : x <= y
<1>1. PICK n \in S : TRUE
  OBVIOUS
<1> DEFINE C == {x \in S : x <= n}
<1>2. C \in SUBSET (0..n) /\ C # {} /\ n \in Nat
  <2>1. n \in Nat /\ n \in C
    BY <1>1
  <2>2. \A x \in C : x \in 0..n
    BY <2>1
  <2>3. QED
    BY <2>1, <2>2
<1>3. PICK x \in C : \A y \in C : x <= y
  <2> HIDE DEF C
  <2>1. QED
    BY <1>2, LeastUpTo
<1>4. x \in S /\ x <= n /\ \A y \in S : x <= y
  BY <1>1, <1>3
<1>5. QED
  BY <1>4

\* Slabs are numbered from -LastFrame on.
LEMMA SweepBounded ==
  ASSUME NEW k \in Keys
  PROVE  Sweep(k) + LastFrame \in Nat
<1>1. k[2] \in 0..LastFrame /\ LastFrame \in Nat /\ Advance \in Nat \ {0}
  BY FrontierAssumption DEF Keys, Frames
<1>2. Far(k) \in 0..LastFrame
  BY FarInView DEF Frames
<1>3. (LastFrame + Advance - 1) \div Advance \in Nat /\ k[2] \div Advance \in Nat
  BY <1>1
<1>4. k[3] \in {"forward", "backward"}
  BY DEF Keys, Directions
<1>5. CASE k[3] = "forward" /\ k[2] = LastFrame
  <2>1. Sweep(k) = (LastFrame + Advance - 1) \div Advance
    BY <1>5 DEF Sweep
  <2>2. QED
    BY <1>1, <1>3, <2>1
<1>6. CASE k[3] = "forward" /\ k[2] # LastFrame
  <2>1. Sweep(k) = k[2] \div Advance
    BY <1>6 DEF Sweep
  <2>2. QED
    BY <1>1, <1>3, <2>1
<1>7. CASE k[3] = "backward" /\ k[2] = 0
  <2>1. Sweep(k) = 1
    BY <1>7 DEF Sweep
  <2>2. QED
    BY <1>1, <2>1
<1>8. CASE k[3] = "backward" /\ k[2] # 0
  <2>1. Sweep(k) = -Far(k)
    BY <1>8 DEF Sweep
  <2>2. QED
    BY <1>1, <1>2, <2>1
<1>9. QED
  BY <1>4, <1>5, <1>6, <1>7, <1>8

\* A wave leases dirty mailboxes with their masks, and there is one as long as any is dirty.
LEMMA WaveFacts ==
  ASSUME NEW b
  PROVE  /\ Wave(b) = [k \in DOMAIN Wave(b) |-> Wave(b)[k]] /\ DOMAIN Wave(b) \subseteq Keys
         /\ \A k \in DOMAIN Wave(b) : b[k].dirty /\ Wave(b)[k] = b[k].mask
         /\ DOMAIN Wave(b) = {} => \A k \in Keys : ~b[k].dirty
<1> DEFINE dirty == {k \in Keys : b[k].dirty}
           slab == {k \in dirty : \A j \in dirty : SameSlab(j, k) \/ Before(k, j)}
           leased == {k \in slab : Cardinality({j \in slab : Before(j, k)}) < WaveLimit}
<1>1. Wave(b) = [k \in leased |-> b[k].mask]
  BY DEF Wave
<1>2. ASSUME dirty # {}
      PROVE  leased # {}
  <2> DEFINE way == IF \E k \in dirty : k[3] = "forward" THEN "forward" ELSE "backward"
             facing == {k \in dirty : k[3] = way}
             numbers == {Sweep(k) + LastFrame : k \in facing}
  <2>1. \A k \in Keys : k[3] \in {"forward", "backward"}
    BY DEF Keys, Directions
  <2>2. facing # {}
    BY <1>2, <2>1
  <2>3. PICK n \in numbers : \A m \in numbers : n <= m
    <3>1. numbers # {} /\ numbers \in SUBSET Nat
      BY <2>2, SweepBounded
    <3> HIDE DEF numbers
    <3>2. QED
      BY <3>1, LeastNat
  <2>4. PICK k \in facing : n = Sweep(k) + LastFrame
    BY <2>3
  <2>5. \A j \in facing : Sweep(k) <= Sweep(j)
    <3> SUFFICES ASSUME NEW j \in facing PROVE Sweep(k) <= Sweep(j)
      OBVIOUS
    <3>1. Sweep(j) + LastFrame \in numbers
      OBVIOUS
    <3>2. n <= Sweep(j) + LastFrame
      BY <2>3, <3>1
    <3>3. Sweep(k) \in Int /\ Sweep(j) \in Int /\ LastFrame \in Nat
      <4>1. \A h \in Keys : Sweep(h) + LastFrame \in Nat
        BY SweepBounded
      <4>2. \A h \in Keys : Sweep(h) \in Int
        BY FarInView, FrontierAssumption DEF Sweep, Keys, Frames
      <4>3. QED
        BY <4>2, FrontierAssumption
    <3>4. QED
      BY <2>4, <3>2, <3>3
  <2>6. k \in slab
    <3> SUFFICES ASSUME NEW j \in dirty PROVE SameSlab(j, k) \/ Before(k, j)
      BY <2>4
    <3>1. CASE j[3] = way
      <4>1. Sweep(k) <= Sweep(j) /\ j[3] = k[3]
        BY <2>4, <2>5, <3>1
      <4>2. Sweep(k) \in Int /\ Sweep(j) \in Int
        BY FarInView, FrontierAssumption DEF Sweep, Keys, Frames
      <4>3. Sweep(j) = Sweep(k) \/ Sweep(k) < Sweep(j)
        BY <4>1, <4>2
      <4>4. QED
        BY <4>1, <4>3 DEF SameSlab, Before
    <3>2. CASE j[3] # way
      <4>1. k[3] = "forward" /\ j[3] = "backward"
        BY <2>1, <2>4, <3>2
      <4>2. QED
        BY <4>1 DEF Before
    <3>3. QED
      BY <3>1, <3>2
  <2> DEFINE ranks == {Rank[j] : j \in slab}
  <2>7. PICK r \in ranks : \A q \in ranks : r <= q
    <3>1. ranks # {} /\ ranks \in SUBSET Nat
      BY <2>6, FrontierAssumption
    <3> HIDE DEF ranks
    <3>2. QED
      BY <3>1, LeastNat
  <2>8. PICK h \in slab : r = Rank[h]
    BY <2>7
  <2>9. \A j \in slab : ~Before(j, h)
    <3> SUFFICES ASSUME NEW j \in slab, Before(j, h) PROVE FALSE
      OBVIOUS
    <3>1. SameSlab(j, h) \/ Before(h, j)
      BY <2>8
    <3>2. SameSlab(h, j) \/ Before(j, h)
      BY <2>8
    <3>3. Rank[h] <= Rank[j] /\ Rank[h] \in Nat /\ Rank[j] \in Nat
      BY <2>7, <2>8, FrontierAssumption
    <3>4. Sweep(h) \in Int /\ Sweep(j) \in Int
      BY FarInView, FrontierAssumption DEF Sweep, Keys, Frames
    <3>5. ~(Rank[j] < Rank[h])
      BY <3>3
    <3>6. ~(Sweep(h) < Sweep(j) /\ Sweep(j) < Sweep(h)) /\ ~(Sweep(j) < Sweep(j))
      BY <3>4
    <3>7. QED
      BY <3>1, <3>5, <3>6 DEF SameSlab, Before
  <2>10. {j \in slab : Before(j, h)} = {}
    BY <2>9
  <2>11. Cardinality({j \in slab : Before(j, h)}) = 0
    BY <2>10, FS_EmptySet
  <2>12. h \in leased
    BY <2>8, <2>11, FrontierAssumption
  <2>13. QED
    BY <2>12
<1> HIDE DEF leased
<1>3. DOMAIN Wave(b) = leased /\ \A k \in leased : Wave(b)[k] = b[k].mask
  BY <1>1
<1>4. leased \subseteq dirty
  BY DEF leased
<1>5. QED
  BY <1>1, <1>2, <1>3, <1>4

\* An offer adds pixels; a mailbox that stays clean is as it was.
LEMMA OfferedFacts ==
  ASSUME NEW b, Boxes(b), NEW seeds
  PROVE  /\ Boxes(Offered(b, seeds))
         /\ \A k \in Keys :
              /\ Offered(b, seeds)[k].mask = b[k].mask \union seeds[k]
              /\ Offered(b, seeds)[k].dirty \/ (~b[k].dirty /\ Offered(b, seeds)[k].mask = b[k].mask)
              /\ Offered(b, seeds)[k].dirty /\ ~b[k].dirty => Offered(b, seeds)[k].mask # b[k].mask
<1> DEFINE o == Offered(b, seeds)
<1>1. o = [k \in Keys |-> [mask |-> b[k].mask \union seeds[k],
                           dirty |-> b[k].dirty \/ ~(seeds[k] \subseteq b[k].mask)]]
  BY DEF Offered
<1> HIDE DEF o
<1>2. \A k \in Keys : /\ o[k].mask = b[k].mask \union seeds[k]
                      /\ o[k].dirty = (b[k].dirty \/ ~(seeds[k] \subseteq b[k].mask))
  BY <1>1
<1>3. \A k \in Keys : o[k].dirty \in BOOLEAN
  BY <1>2
<1>4. o = [k \in Keys |-> [mask |-> o[k].mask, dirty |-> o[k].dirty]]
  BY <1>1, <1>2
<1>5. Boxes(o)
  BY <1>3, <1>4 DEF Boxes
<1>6. \A k \in Keys : /\ o[k].dirty \/ (~b[k].dirty /\ o[k].mask = b[k].mask)
                      /\ o[k].dirty /\ ~b[k].dirty => o[k].mask # b[k].mask
  BY <1>2
<1>7. QED
  BY <1>2, <1>5, <1>6 DEF o

\* The acknowledgement of a lease that is still what the mailboxes hold cleans them.
LEMMA AcknowledgedFacts ==
  ASSUME NEW b, Boxes(b), NEW ls, DOMAIN ls \subseteq Keys, \A k \in DOMAIN ls : ls[k] = b[k].mask
  PROVE  /\ Boxes(Acknowledged(b, ls))
         /\ \A k \in Keys : /\ Acknowledged(b, ls)[k].mask = b[k].mask
                            /\ Acknowledged(b, ls)[k].dirty = (b[k].dirty /\ k \notin DOMAIN ls)
<1> DEFINE a == Acknowledged(b, ls)
<1>1. \A k \in Keys : b[k] = [mask |-> b[k].mask, dirty |-> b[k].dirty] /\ b[k].dirty \in BOOLEAN
  BY DEF Boxes
<1>2. a = [k \in Keys |-> IF k \in DOMAIN ls THEN [b[k] EXCEPT !.dirty = b[k].mask # ls[k]] ELSE b[k]]
  BY DEF Acknowledged
<1> HIDE DEF a
<1>3. \A k \in Keys : a[k] = [mask |-> b[k].mask, dirty |-> b[k].dirty /\ k \notin DOMAIN ls]
  <2> SUFFICES ASSUME NEW k \in Keys
               PROVE  a[k] = [mask |-> b[k].mask, dirty |-> b[k].dirty /\ k \notin DOMAIN ls]
    OBVIOUS
  <2>1. CASE k \in DOMAIN ls
    <3>1. a[k] = [b[k] EXCEPT !.dirty = FALSE]
      BY <1>2, <2>1
    <3>2. QED
      BY <1>1, <2>1, <3>1
  <2>2. CASE k \notin DOMAIN ls
    <3>1. a[k] = b[k]
      BY <1>2, <2>2
    <3>2. (b[k].dirty /\ k \notin DOMAIN ls) = b[k].dirty
      BY <1>1, <2>2
    <3>3. QED
      BY <1>1, <3>1, <3>2
  <2>3. QED
    BY <2>1, <2>2
<1>4. \A k \in Keys : a[k].mask = b[k].mask /\ a[k].dirty = (b[k].dirty /\ k \notin DOMAIN ls)
  <2> SUFFICES ASSUME NEW k \in Keys
               PROVE  a[k].mask = b[k].mask /\ a[k].dirty = (b[k].dirty /\ k \notin DOMAIN ls)
    OBVIOUS
  <2> DEFINE flag == b[k].dirty /\ k \notin DOMAIN ls
  <2>1. a[k] = [mask |-> b[k].mask, dirty |-> flag]
    BY <1>3
  <2> HIDE DEF flag
  <2>2. a[k].mask = b[k].mask /\ a[k].dirty = flag
    BY <2>1
  <2>3. QED
    BY <2>2 DEF flag
<1>5. a = [k \in Keys |-> [mask |-> a[k].mask, dirty |-> a[k].dirty]]
  BY <1>2, <1>3, <1>4
<1>6. QED
  BY <1>4, <1>5 DEF Boxes, a

-----------------------------------------------------------------------------
(* Coverage. *)

\* A ledger has a mask for every tile and frame and edges for every tile and direction.
Ledger(cov) ==
  /\ cov = [masks |-> cov.masks, edges |-> cov.edges]
  /\ cov.masks = [s \in Tiles \X Frames |-> cov.masks[s]]
  /\ cov.edges = [s \in Tiles \X Directions |-> cov.edges[s]]

\* What a session adds to a tile and frame, and to a tile and direction.
MaskOf(k, seen, s) == IF s[1] = k[1] /\ s[2] \in DOMAIN seen THEN seen[s[2]] ELSE {}
EdgesOf(k, seen, s) == IF s[1] = k[1] /\ s[2] = k[3] THEN Edges(seen) ELSE {}

\* Ingestion adds what the session saw and nothing else.
LEMMA IngestedFacts ==
  ASSUME NEW cov, Ledger(cov), NEW k \in Keys, NEW seen
  PROVE  /\ Ledger(Ingested(cov, k, seen))
         /\ \A s \in Tiles \X Frames :
              Ingested(cov, k, seen).masks[s] = cov.masks[s] \union MaskOf(k, seen, s)
         /\ \A s \in Tiles \X Directions :
              Ingested(cov, k, seen).edges[s] = cov.edges[s] \union EdgesOf(k, seen, s)
<1> DEFINE masks == [s \in Tiles \X Frames |-> cov.masks[s] \union MaskOf(k, seen, s)]
           edges == [cov.edges EXCEPT ![<<k[1], k[3]>>] = @ \union Edges(seen)]
<1>1. Ingested(cov, k, seen) = [masks |-> masks, edges |-> edges]
  BY DEF Ingested, MaskOf
<1>2. <<k[1], k[3]>> \in Tiles \X Directions
  BY DEF Keys
<1>3. edges = [s \in Tiles \X Directions |-> edges[s]]
  <2>1. DOMAIN cov.edges = Tiles \X Directions
    BY DEF Ledger
  <2>2. QED
    BY <2>1
<1>4. ASSUME NEW s \in Tiles \X Directions
      PROVE  edges[s] = cov.edges[s] \union EdgesOf(k, seen, s)
  <2>1. s = <<s[1], s[2]>> /\ DOMAIN cov.edges = Tiles \X Directions
    BY DEF Ledger
  <2>2. s[1] = k[1] /\ s[2] = k[3] <=> s = <<k[1], k[3]>>
    BY <2>1
  <2>3. edges[s] = IF s = <<k[1], k[3]>> THEN cov.edges[s] \union Edges(seen) ELSE cov.edges[s]
    BY <2>1
  <2> HIDE DEF edges
  <2>4. QED
    BY <2>2, <2>3 DEF EdgesOf
<1>5. masks = [s \in Tiles \X Frames |-> masks[s]] /\
      \A s \in Tiles \X Frames : masks[s] = cov.masks[s] \union MaskOf(k, seen, s)
  OBVIOUS
<1> HIDE DEF masks, edges
<1>6. Ingested(cov, k, seen).masks = masks /\ Ingested(cov, k, seen).edges = edges
  BY <1>1
<1>7. Ledger(Ingested(cov, k, seen))
  BY <1>1, <1>3, <1>5, <1>6 DEF Ledger
<1>8. QED
  BY <1>4, <1>5, <1>6, <1>7

\* What could be handed off still can when the coverage has grown.
LEMMA HandoffStays ==
  ASSUME NEW cov, NEW wider, NEW k \in Keys, NEW mask, CanHandoff(cov, k, mask),
         \A s \in Tiles \X Frames : cov.masks[s] \subseteq wider.masks[s],
         \A s \in Tiles \X Directions : cov.edges[s] \subseteq wider.edges[s]
  PROVE  CanHandoff(wider, k, mask)
<1>1. <<k[1], k[2]>> \in Tiles \X Frames /\ <<k[1], k[3]>> \in Tiles \X Directions
  BY DEF Keys
<1>2. /\ cov.masks[<<k[1], k[2]>>] \subseteq wider.masks[<<k[1], k[2]>>]
      /\ cov.edges[<<k[1], k[3]>>] \subseteq wider.edges[<<k[1], k[3]>>]
  BY <1>1
<1>3. QED
  BY <1>2 DEF CanHandoff

\* A neighbour sees of two masks what it sees of each, and of no pixel nothing.
LEMMA SharedFacts ==
  \A s, t : /\ Shared(s, t, {}) = {}
            /\ \A m, n : Shared(s, t, m \union n) = Shared(s, t, m) \union Shared(s, t, n)
<1>1. \A s, t : Shared(s, t, {}) = {}
  BY DEF Shared
<1>2. ASSUME NEW s, NEW t, NEW m, NEW n
      PROVE  Shared(s, t, m \union n) = Shared(s, t, m) \union Shared(s, t, n)
  <2> DEFINE A(p) == Overlap[<<s, t>>][p]
  <2> HIDE DEF A
  <2>1. UNION {A(p) : p \in m \union n} = (UNION {A(p) : p \in m}) \union (UNION {A(p) : p \in n})
    OBVIOUS
  <2>2. QED
    BY <2>1 DEF Shared, A
<1>3. QED
  BY <1>1, <1>2

\* What tile t sees of one session of tile s.
Shows(seen, s, t, f) == IF f \in DOMAIN seen THEN Shared(s, t, seen[f]) ELSE {}

\* A session of tile s relays to another tile the frames in which it becomes visible there.
LEMMA RelaysFacts ==
  ASSUME NEW s, NEW seen, NEW k \in Keys, s # k[1]
  PROVE  Relays(s, seen)[k] = IF Shows(seen, s, k[1], Previous(k)) = {}
                              THEN Shows(seen, s, k[1], k[2]) ELSE {}
  BY DEF Relays, Shows, Previous

\* Where a tile becomes visible to a neighbour only with a new session, the session relays it.
LEMMA RelaysComplete ==
  ASSUME NEW cov, Ledger(cov), NEW r \in Keys, NEW seen, DOMAIN seen \subseteq Frames,
         NEW s \in Tiles, NEW k \in Keys, s # k[1],
         Visible(Ingested(cov, r, seen), s, k[1], Previous(k)) = {}
  PROVE  /\ Visible(cov, s, k[1], Previous(k)) = {}
         /\ Visible(Ingested(cov, r, seen), s, k[1], k[2]) \subseteq
              Visible(cov, s, k[1], k[2]) \union (IF s = r[1] THEN Relays(s, seen)[k] ELSE {})
<1> DEFINE new(f) == IF s = r[1] THEN Shows(seen, s, k[1], f) ELSE {}
<1>1. ASSUME NEW f
      PROVE  Visible(Ingested(cov, r, seen), s, k[1], f) = Visible(cov, s, k[1], f) \union new(f)
  <2>1. CASE f \notin Frames
    BY <2>1 DEF Visible, Shows
  <2>2. CASE f \in Frames
    <3> DEFINE p == <<s, f>>
    <3>1. p \in Tiles \X Frames /\ p[1] = s /\ p[2] = f
      BY <2>2
    <3> HIDE DEF p
    <3>2. Ingested(cov, r, seen).masks[p] = cov.masks[p] \union MaskOf(r, seen, p)
      BY <3>1, IngestedFacts
    <3>3. Shared(s, k[1], Ingested(cov, r, seen).masks[p]) =
            Shared(s, k[1], cov.masks[p]) \union Shared(s, k[1], MaskOf(r, seen, p))
      BY <3>2, SharedFacts
    <3>4. Shared(s, k[1], MaskOf(r, seen, p)) = new(f)
      <4>1. CASE s = r[1] /\ f \in DOMAIN seen
        BY <3>1, <4>1 DEF MaskOf, Shows
      <4>2. CASE ~(s = r[1] /\ f \in DOMAIN seen)
        BY <3>1, <4>2, SharedFacts DEF MaskOf, Shows
      <4>3. QED
        BY <4>1, <4>2
    <3>5. QED
      BY <2>2, <3>3, <3>4 DEF Visible, p
  <2>3. QED
    BY <2>1, <2>2
<1>2. Visible(cov, s, k[1], Previous(k)) = {} /\ new(Previous(k)) = {}
  BY <1>1
<1>3. new(k[2]) = IF s = r[1] THEN Relays(s, seen)[k] ELSE {}
  BY <1>2, RelaysFacts
<1> HIDE DEF new
<1>4. QED
  BY <1>1, <1>2, <1>3

\* A session that ends in the view predicts frames of the view, its prompt first.
LEMMA SessionFacts ==
  ASSUME NEW fl, NEW k \in Keys, NEW prompt
  PROVE  /\ DOMAIN Tracked(fl, k, prompt, Far(k)) \subseteq Frames
         /\ k[2] \in DOMAIN Tracked(fl, k, prompt, Far(k))
         /\ Tracked(fl, k, prompt, Far(k))[k[2]] = prompt
<1>1. Far(k) \in Frames /\ Facing(k, Far(k))
  BY FarInView DEF Facing
<1>2. Span(k, Far(k)) \subseteq Frames
  BY <1>1, FrontierAssumption DEF Span, Frames, Keys
<1>3. QED
  BY <1>1, <1>2, TrackedStart

-----------------------------------------------------------------------------
(* The steps. *)

\* A wave that starts leases its mailboxes as they are.
LEMMA WaveStarts ==
  ASSUME NEW b, box' = b, coverage' = coverage, StartWave(b, coverage)
  PROVE  /\ lease' = [k \in DOMAIN lease' |-> lease'[k]] /\ DOMAIN lease' \subseteq Keys
         /\ plan' = [k \in DOMAIN plan' |-> plan'[k]] /\ DOMAIN plan' \subseteq DOMAIN lease'
         /\ active' = {} /\ received' = {} /\ Leases'
<1>1. lease' = Wave(b) /\ plan' = Planned(coverage, Wave(b)) /\ active' = {} /\ received' = {}
  BY DEF StartWave
<1> DEFINE w == Wave(b)
<1>2. w = [k \in DOMAIN w |-> w[k]] /\ DOMAIN w \subseteq Keys
      /\ \A k \in DOMAIN w : b[k].dirty /\ w[k] = b[k].mask
  BY WaveFacts
<1> HIDE DEF w
<1> DEFINE sent == {j \in DOMAIN w : ~CanHandoff(coverage, j, w[j])}
<1>3. plan' = [k \in sent |-> Prompt(coverage, k, w[k])]
  BY <1>1 DEF Planned, w
<1>4. /\ plan' = [k \in DOMAIN plan' |-> plan'[k]] /\ DOMAIN plan' = sent
      /\ \A k \in sent : w[k] \subseteq plan'[k]
  BY <1>3 DEF Prompt
<1>5. Leases'
  <2> SUFFICES ASSUME NEW k \in DOMAIN w
               PROVE  /\ b[k].dirty /\ w[k] = b[k].mask
                      /\ k \in DOMAIN plan' => w[k] \subseteq plan'[k]
                      /\ k \notin DOMAIN plan' => CanHandoff(coverage, k, w[k])
    BY <1>1 DEF Leases, w
  <2>1. QED
    BY <1>2, <1>4
<1>6. QED
  BY <1>1, <1>2, <1>4, <1>5 DEF w

\* Between two waves nothing of the old one is left.
LEMMA NoneOut ==
  ASSUME TypeOK, DOMAIN lease = {}
  PROVE  DOMAIN plan = {} /\ active = {} /\ received = {} /\ \A k : Answered(k) = {}
<1>1. DOMAIN plan = {} /\ active = {} /\ received = {}
  BY DEF TypeOK
<1>2. QED
  BY <1>1 DEF Answered

\* When every mailbox keeps its pixels and gains some, nothing executed is what a dirty one
\* waits with, unless it was so before.
LEMMA StillFresh ==
  ASSUME Executions, NEW k \in Keys, NEW b, box[k].mask \subseteq b[k].mask,
         b[k].mask # box[k].mask \/ (box[k].dirty /\ k \notin active \union received)
  PROVE  b[k].mask \notin Executed(k) /\ \A m \in Executed(k) : m \subseteq b[k].mask
  BY DEF Executions

\* The head of a generation keeps the invariant.
LEMMA AdmitStep ==
  ASSUME IInv, Admit
  PROVE  IInv'
<1> DEFINE b == Offered(box, incoming)
<1>1. /\ stage = "admit" /\ box' = b /\ incoming' = Nothing
      /\ flow' = flow /\ coverage' = coverage /\ emitted' = emitted /\ attempts' = attempts
  BY DEF Admit
<1>2. /\ Boxes(b)
      /\ \A k \in Keys : /\ b[k].mask = box[k].mask \union incoming[k]
                         /\ b[k].dirty \/ (~box[k].dirty /\ b[k].mask = box[k].mask)
                         /\ b[k].dirty /\ ~box[k].dirty => b[k].mask # box[k].mask
  <2>1. Boxes(box)
    BY DEF IInv, TypeOK, Boxes
  <2>2. QED
    BY <2>1, OfferedFacts
<1>3. emitted = Nothing /\ DOMAIN lease = {} /\ DOMAIN plan = {} /\ active = {} /\ received = {}
      /\ \A k : Answered(k) = {}
  BY <1>1, NoneOut DEF IInv, Stages
<1>4. \/ /\ DOMAIN Wave(b) # {} /\ StartWave(b, coverage) /\ stage' = "waves"
      \/ /\ stage' \in {"settled", "raised"} /\ (stage' = "settled" => DOMAIN Wave(b) = {})
         /\ lease' = lease /\ plan' = plan /\ active' = active /\ received' = received
  BY DEF Admit, StartWave, wave
<1> HIDE DEF b
<1>5. /\ lease' = [k \in DOMAIN lease' |-> lease'[k]] /\ DOMAIN lease' \subseteq Keys
      /\ plan' = [k \in DOMAIN plan' |-> plan'[k]] /\ DOMAIN plan' \subseteq DOMAIN lease'
      /\ active' = {} /\ received' = {} /\ Leases'
  <2>1. CASE StartWave(b, coverage)
    BY <1>1, <2>1, WaveStarts
  <2>2. CASE lease' = lease /\ plan' = plan /\ active' = active /\ received' = received
    <3>1. DOMAIN lease' = {}
      BY <1>3, <2>2
    <3>2. Leases'
      BY <3>1 DEF Leases
    <3>3. QED
      BY <1>3, <2>2, <3>2 DEF IInv, TypeOK
  <2>3. QED
    BY <1>4, <2>1, <2>2
<1>6. \A k \in Keys : Executed(k)' = Executed(k)
  BY <1>1 DEF Executed
<1>7. TypeOK'
  <2>1. stage' \in {"admit", "waves", "settled", "raised"}
    BY <1>4
  <2>2. box' = [k \in Keys |-> [mask |-> box'[k].mask, dirty |-> box'[k].dirty]]
        /\ \A k \in Keys : box'[k].dirty \in BOOLEAN
    BY <1>1, <1>2 DEF Boxes
  <2>3. \A k \in Keys : attempts'[k] \in Seq(Executed(k)')
    BY <1>1, <1>6 DEF IInv, TypeOK
  <2>4. QED
    BY <1>1, <1>5, <2>1, <2>2, <2>3 DEF IInv, TypeOK
<1>8. Stages'
  <2>1. stage' = "waves" => DOMAIN lease' # {}
    BY <1>4 DEF StartWave
  <2>2. stage' = "settled" => DOMAIN lease' = {} /\ \A k \in Keys : ~box'[k].dirty
    BY <1>1, <1>3, <1>4, WaveFacts DEF StartWave
  <2>3. QED
    BY <1>1, <1>3, <1>4, <2>1, <2>2 DEF Stages
<1>9. Executions'
  <2> SUFFICES ASSUME NEW k \in Keys
               PROVE  /\ \A m \in Executed(k) : m \subseteq b[k].mask
                                                /\ m \subseteq coverage.masks[<<k[1], k[2]>>]
                      /\ b[k].dirty => b[k].mask \notin Executed(k)
    BY <1>1, <1>5, <1>6 DEF Executions
  <2>1. \A m \in Executed(k) : m \subseteq box[k].mask /\ m \subseteq coverage.masks[<<k[1], k[2]>>]
    BY <1>3 DEF IInv, Executions
  <2>2. b[k].dirty => b[k].mask # box[k].mask \/ (box[k].dirty /\ k \notin active \union received)
    BY <1>2, <1>3
  <2>3. box[k].mask \subseteq b[k].mask
    BY <1>2
  <2>4. QED
    BY <2>1, <2>2, <2>3, StillFresh DEF IInv
<1>10. AttemptsGrow'
  BY <1>1 DEF IInv, AttemptsGrow
<1>11. NoPixelForgotten'
  <2> SUFFICES ASSUME NEW k \in Keys, b[k].mask # {}, ~b[k].dirty
               PROVE  b[k].mask \in Executed(k) \/ CanHandoff(coverage, k, b[k].mask)
    BY <1>1, <1>6 DEF NoPixelForgotten
  <2>1. ~box[k].dirty /\ b[k].mask = box[k].mask
    BY <1>2
  <2>2. QED
    BY <2>1 DEF IInv, NoPixelForgotten
<1>12. Relayed'
  <2>1. \A k \in Keys : Known(k)' = b[k].mask \union emitted[k]
    <3>1. \A k : Answered(k)' = {}
      BY <1>5 DEF Answered
    <3>2. \A k \in Keys : Nothing[k] = {}
      BY DEF Nothing
    <3>3. QED
      BY <1>1, <3>1, <3>2 DEF Known
  <2>2. \A k \in Keys : Known(k) \subseteq b[k].mask \union emitted[k]
    BY <1>2, <1>3 DEF Known
  <2>3. QED
    BY <1>1, <2>1, <2>2 DEF IInv, Relayed
<1>13. QED
  BY <1>5, <1>7, <1>8, <1>9, <1>10, <1>11, <1>12 DEF IInv

\* A session that starts records its prompt as one more attempt at its mailbox.
LEMMA DispatchStep ==
  ASSUME IInv, NEW j \in Keys, Dispatch(j)
  PROVE  IInv'
<1>1. /\ stage = "waves" /\ j \in DOMAIN plan /\ j \notin active \union received
      /\ active' = active \union {j} /\ attempts' = [attempts EXCEPT ![j] = Append(@, lease[j])]
      /\ flow' = flow /\ stage' = stage /\ box' = box /\ coverage' = coverage
      /\ incoming' = incoming /\ emitted' = emitted /\ lease' = lease /\ plan' = plan
      /\ received' = received
  BY DEF Dispatch
<1> DEFINE old == attempts[j]
           new == Append(old, lease[j])
           n == Len(old)
<1>2. /\ old \in Seq(Executed(j)) /\ attempts' = [k \in Keys |-> attempts'[k]]
      /\ attempts'[j] = new /\ \A k \in Keys \ {j} : attempts'[k] = attempts[k]
  BY <1>1 DEF IInv, TypeOK
<1>3. /\ new \in Seq(Executed(j) \union {lease[j]}) /\ n \in Nat
      /\ DOMAIN old = 1..n /\ DOMAIN new = 1..(n + 1)
      /\ \A i \in 1..n : new[i] = old[i]
      /\ new[n + 1] = lease[j]
  <2>1. old \in Seq(Executed(j) \union {lease[j]}) /\ lease[j] \in Executed(j) \union {lease[j]}
    BY <1>2, SeqMonotonic
  <2>2. n \in Nat /\ DOMAIN old = 1..n
    BY <2>1, LenProperties
  <2>3. /\ new \in Seq(Executed(j) \union {lease[j]}) /\ Len(new) = n + 1
        /\ \A i \in 1..n : new[i] = old[i]
        /\ new[n + 1] = lease[j]
    BY <2>1, <2>2, AppendProperties
  <2>4. DOMAIN new = 1..(n + 1)
    BY <2>3, LenProperties
  <2>5. QED
    BY <2>2, <2>3, <2>4
<1>4. Executed(j) = {old[i] : i \in 1..n}
  BY <1>3 DEF Executed
<1> HIDE DEF new, old, n
<1>5. Executed(j)' = Executed(j) \union {lease[j]}
  <2>1. Executed(j)' = {new[i] : i \in 1..(n + 1)}
    BY <1>2, <1>3 DEF Executed
  <2>2. \A i \in 1..(n + 1) : i \in 1..n \/ i = n + 1
    BY <1>3
  <2>3. 1..n \subseteq 1..(n + 1) /\ n + 1 \in 1..(n + 1)
    BY <1>3
  <2>4. {new[i] : i \in 1..(n + 1)} = {old[i] : i \in 1..n} \union {lease[j]}
    BY <1>3, <1>4, <2>2, <2>3
  <2>5. QED
    BY <1>4, <2>1, <2>4
<1>6. \A k \in Keys \ {j} : Executed(k)' = Executed(k)
  BY <1>2 DEF Executed
<1>7. lease[j] = box[j].mask /\ box[j].dirty /\ lease[j] \notin Executed(j)
      /\ \A m \in Executed(j) : m \subseteq lease[j]
  <2>1. j \in DOMAIN lease
    BY <1>1 DEF IInv, TypeOK
  <2>2. lease[j] = box[j].mask /\ box[j].dirty
    BY <2>1 DEF IInv, Leases
  <2>3. QED
    BY <1>1, <2>2 DEF IInv, Executions
<1>8. TypeOK'
  <2>1. \A k \in Keys : attempts'[k] \in Seq(Executed(k)')
    <3> SUFFICES ASSUME NEW k \in Keys PROVE attempts'[k] \in Seq(Executed(k)')
      OBVIOUS
    <3>1. CASE k = j
      BY <1>2, <1>3, <1>5, <3>1
    <3>2. CASE k # j
      BY <1>2, <1>6, <3>2 DEF IInv, TypeOK
    <3>3. QED
      BY <3>1, <3>2
  <2>2. active' \subseteq DOMAIN plan /\ active' \intersect received = {}
    BY <1>1 DEF IInv, TypeOK
  <2>3. QED
    BY <1>1, <1>2, <2>1, <2>2 DEF IInv, TypeOK
<1>9. Stages'
  BY <1>1 DEF IInv, Stages
<1>10. Leases'
  BY <1>1 DEF IInv, Leases
<1>11. Executions'
  <2> SUFFICES ASSUME NEW k \in Keys
               PROVE  /\ \A m \in Executed(k)' : /\ m \subseteq box[k].mask
                                                 /\ m \subseteq coverage.masks[<<k[1], k[2]>>] \/ k \in active'
                      /\ box[k].dirty /\ k \notin active' \union received => box[k].mask \notin Executed(k)'
                      /\ k \in active' \union received => lease[k] \in Executed(k)'
    BY <1>1 DEF Executions
  <2>1. CASE k = j
    <3>1. k \in active'
      BY <1>1, <2>1
    <3>2. QED
      BY <1>5, <1>7, <2>1, <3>1
  <2>2. CASE k # j
    <3>1. Executed(k)' = Executed(k) /\ (k \in active' <=> k \in active)
      BY <1>1, <1>6, <2>2
    <3>2. QED
      BY <3>1 DEF IInv, Executions
  <2>3. QED
    BY <2>1, <2>2
<1>12. AttemptsGrow'
  <2> SUFFICES ASSUME NEW k \in Keys, NEW a \in DOMAIN attempts'[k], NEW c \in DOMAIN attempts'[k], a < c
               PROVE  attempts'[k][a] \subseteq attempts'[k][c] /\ attempts'[k][a] # attempts'[k][c]
    BY DEF AttemptsGrow
  <2>1. CASE k # j
    BY <1>2, <2>1 DEF IInv, AttemptsGrow
  <2>2. CASE k = j /\ c = n + 1
    <3>1. a \in 1..n
      BY <1>2, <1>3, <2>2
    <3>2. attempts'[k][a] = old[a] /\ attempts'[k][c] = lease[j] /\ old[a] \in Executed(j)
      BY <1>2, <1>3, <1>4, <2>2, <3>1
    <3>3. QED
      BY <1>7, <3>2
  <2>3. CASE k = j /\ c # n + 1
    <3>1. a \in 1..n /\ c \in 1..n
      BY <1>2, <1>3, <2>3
    <3>2. attempts'[k][a] = attempts[j][a] /\ attempts'[k][c] = attempts[j][c]
          /\ a \in DOMAIN attempts[j] /\ c \in DOMAIN attempts[j]
      BY <1>2, <1>3, <2>3, <3>1 DEF old
    <3>3. QED
      BY <3>2 DEF IInv, AttemptsGrow
  <2>4. QED
    BY <2>1, <2>2, <2>3
<1>13. NoPixelForgotten'
  <2> SUFFICES ASSUME NEW k \in Keys, box[k].mask # {}, ~box[k].dirty
               PROVE  box[k].mask \in Executed(k)' \/ CanHandoff(coverage, k, box[k].mask)
    BY <1>1 DEF NoPixelForgotten
  <2>1. Executed(k)' = Executed(k)
    BY <1>6, <1>7
  <2>2. QED
    BY <2>1 DEF IInv, NoPixelForgotten
<1>14. Relayed'
  <2>1. \A k \in Keys : Known(k)' = Known(k)
    BY <1>1 DEF Known, Answered, Seen
  <2>2. QED
    BY <1>1, <2>1 DEF IInv, Relayed
<1>15. QED
  BY <1>8, <1>9, <1>10, <1>11, <1>12, <1>13, <1>14 DEF IInv

\* A session that answers has covered its prompt and relays what it made visible.
LEMMA ReceiveStep ==
  ASSUME IInv, NEW j \in Keys, Receive(j)
  PROVE  IInv'
<1>1. /\ stage = "waves" /\ j \in active
      /\ active' = active \ {j} /\ received' = received \union {j}
      /\ coverage' = Ingested(coverage, j, Seen(j))
      /\ flow' = flow /\ stage' = stage /\ box' = box /\ incoming' = incoming
      /\ emitted' = emitted /\ lease' = lease /\ plan' = plan /\ attempts' = attempts
  BY DEF Receive, Waiting, Seen
<1>2. Ledger(coverage)
  BY DEF IInv, TypeOK, Ledger
<1>3. /\ Ledger(coverage')
      /\ \A s \in Tiles \X Frames : coverage'.masks[s] = coverage.masks[s] \union MaskOf(j, Seen(j), s)
      /\ \A s \in Tiles \X Directions : coverage'.edges[s] = coverage.edges[s] \union EdgesOf(j, Seen(j), s)
  BY <1>1, <1>2, IngestedFacts
<1>4. DOMAIN Seen(j) \subseteq Frames /\ j[2] \in DOMAIN Seen(j) /\ Seen(j)[j[2]] = plan[j]
  BY SessionFacts DEF Seen
<1>5. \A k \in Keys : \A m : CanHandoff(coverage, k, m) => CanHandoff(coverage', k, m)
  BY <1>3, HandoffStays
<1>6. \A k \in Keys : Executed(k)' = Executed(k) /\ <<k[1], k[2]>> \in Tiles \X Frames
  BY <1>1 DEF Executed, Keys
<1>7. TypeOK'
  <2>1. \A k \in Keys : attempts'[k] \in Seq(Executed(k)')
    BY <1>1, <1>6 DEF IInv, TypeOK
  <2>2. active' \subseteq DOMAIN plan /\ received' \subseteq DOMAIN plan /\ active' \intersect received' = {}
    BY <1>1 DEF IInv, TypeOK
  <2>3. QED
    BY <1>1, <1>3, <2>1, <2>2 DEF IInv, TypeOK, Ledger
<1>8. Stages'
  BY <1>1 DEF IInv, Stages
<1>9. Leases'
  <2>1. DOMAIN lease \subseteq Keys
    BY DEF IInv, TypeOK
  <2>2. QED
    BY <1>1, <1>5, <2>1 DEF IInv, Leases
<1>10. Executions'
  <2> SUFFICES ASSUME NEW k \in Keys
               PROVE  /\ \A m \in Executed(k) : /\ m \subseteq box[k].mask
                                                /\ m \subseteq coverage'.masks[<<k[1], k[2]>>] \/ k \in active'
                      /\ box[k].dirty /\ k \notin active' \union received' => box[k].mask \notin Executed(k)
                      /\ k \in active' \union received' => lease[k] \in Executed(k)
    BY <1>1, <1>6 DEF Executions
  <2>1. k \in active' \union received' <=> k \in active \union received
    BY <1>1
  <2>2. \A m \in Executed(k) : m \subseteq coverage.masks[<<k[1], k[2]>>] => m \subseteq coverage'.masks[<<k[1], k[2]>>]
    BY <1>3, <1>6
  <2>3. CASE k # j
    <3>1. k \in active' <=> k \in active
      BY <1>1, <2>3
    <3>2. QED
      BY <2>1, <2>2, <3>1 DEF IInv, Executions
  <2>4. CASE k = j
    <3>1. box[j].mask \subseteq plan[j]
      BY <1>1 DEF IInv, TypeOK, Leases
    <3>2. plan[j] \subseteq coverage'.masks[<<j[1], j[2]>>]
      <4> DEFINE p == <<j[1], j[2]>>
      <4>1. p \in Tiles \X Frames /\ p[1] = j[1] /\ p[2] = j[2]
        BY <1>6
      <4> HIDE DEF p
      <4>2. MaskOf(j, Seen(j), p) = plan[j]
        BY <1>4, <4>1 DEF MaskOf
      <4>3. plan[j] \subseteq coverage'.masks[p]
        BY <1>3, <4>1, <4>2
      <4>4. QED
        BY <4>3 DEF p
    <3>3. \A m \in Executed(k) : m \subseteq box[k].mask
      BY DEF IInv, Executions
    <3>4. QED
      BY <2>1, <2>4, <3>1, <3>2, <3>3 DEF IInv, Executions
  <2>5. QED
    BY <2>3, <2>4
<1>11. AttemptsGrow'
  BY <1>1 DEF IInv, AttemptsGrow
<1>12. NoPixelForgotten'
  BY <1>1, <1>5, <1>6 DEF IInv, NoPixelForgotten
<1>13. Relayed'
  <2> SUFFICES ASSUME NEW s \in Tiles, NEW k \in Keys, s # k[1],
                      Visible(coverage', s, k[1], Previous(k)) = {}
               PROVE  Visible(coverage', s, k[1], k[2]) \subseteq Known(k)'
    BY DEF Relayed
  <2>1. /\ Visible(coverage, s, k[1], Previous(k)) = {}
        /\ Visible(coverage', s, k[1], k[2]) \subseteq
             Visible(coverage, s, k[1], k[2]) \union (IF s = j[1] THEN Relays(s, Seen(j))[k] ELSE {})
    BY <1>1, <1>2, <1>4, RelaysComplete
  <2>2. Visible(coverage, s, k[1], k[2]) \subseteq Known(k)
    BY <2>1 DEF IInv, Relayed
  <2>3. /\ Answered(k) \subseteq Answered(k)'
        /\ Relays(j[1], Seen(j))[k] \subseteq Answered(k)'
    BY <1>1 DEF Answered, Seen
  <2>4. Known(k) \subseteq Known(k)'
    BY <1>1, <2>3 DEF Known
  <2>5. Relays(j[1], Seen(j))[k] \subseteq Known(k)'
    BY <2>3 DEF Known
  <2>6. QED
    BY <2>1, <2>2, <2>4, <2>5
<1>14. QED
  BY <1>7, <1>8, <1>9, <1>10, <1>11, <1>12, <1>13 DEF IInv

\* A failure changes the stage only, and so does a step that changes nothing.
LEMMA FailStep ==
  ASSUME IInv, Fail \/ UNCHANGED vars
  PROVE  IInv'
<1>1. /\ flow' = flow /\ box' = box /\ coverage' = coverage /\ incoming' = incoming
      /\ emitted' = emitted /\ lease' = lease /\ plan' = plan /\ active' = active
      /\ received' = received /\ attempts' = attempts
      /\ stage' = stage \/ (stage = "waves" /\ stage' = "raised")
  BY DEF Fail, Waiting, wave, vars
<1>2. TypeOK'
  BY <1>1 DEF IInv, TypeOK, Executed
<1>3. Stages'
  BY <1>1 DEF IInv, Stages
<1>4. Leases' /\ AttemptsGrow'
  BY <1>1 DEF IInv, Leases, AttemptsGrow
<1>5. Executions' /\ NoPixelForgotten'
  BY <1>1 DEF IInv, Executions, NoPixelForgotten, Executed
<1>6. Relayed'
  BY <1>1 DEF IInv, Relayed, Known, Answered, Seen
<1>7. QED
  BY <1>2, <1>3, <1>4, <1>5, <1>6 DEF IInv

\* What the barrier of a wave does to the mailboxes: the leased ones are clean unless a
\* continuation brought them pixels.
LEMMA SettledFacts ==
  ASSUME IInv
  PROVE  /\ Boxes(Settled(flow, box, lease, plan))
         /\ \A k \in Keys :
              /\ box[k].mask \subseteq Settled(flow, box, lease, plan)[k].mask
              /\ ~Settled(flow, box, lease, plan)[k].dirty =>
                   /\ Settled(flow, box, lease, plan)[k].mask = box[k].mask
                   /\ ~box[k].dirty \/ k \in DOMAIN lease
              /\ Settled(flow, box, lease, plan)[k].dirty =>
                   \/ Settled(flow, box, lease, plan)[k].mask # box[k].mask
                   \/ box[k].dirty /\ k \notin DOMAIN lease
<1> DEFINE a == Acknowledged(box, lease)
           b == Offered(a, Continued(flow, plan))
<1>1. Boxes(box) /\ DOMAIN lease \subseteq Keys /\ \A k \in DOMAIN lease : lease[k] = box[k].mask
  BY DEF IInv, TypeOK, Boxes, Leases
<1>2. /\ Boxes(a)
      /\ \A k \in Keys : a[k].mask = box[k].mask /\ a[k].dirty = (box[k].dirty /\ k \notin DOMAIN lease)
  BY <1>1, AcknowledgedFacts
<1> HIDE DEF a
<1>3. /\ Boxes(b)
      /\ \A k \in Keys :
           /\ b[k].mask = a[k].mask \union Continued(flow, plan)[k]
           /\ b[k].dirty \/ (~a[k].dirty /\ b[k].mask = a[k].mask)
           /\ b[k].dirty /\ ~a[k].dirty => b[k].mask # a[k].mask
  BY <1>2, OfferedFacts
<1>4. Settled(flow, box, lease, plan) = b
  BY DEF Settled, a
<1> HIDE DEF b
<1>5. \A k \in Keys : /\ box[k].mask \subseteq b[k].mask
                      /\ ~b[k].dirty => b[k].mask = box[k].mask /\ (~box[k].dirty \/ k \in DOMAIN lease)
                      /\ b[k].dirty => b[k].mask # box[k].mask \/ (box[k].dirty /\ k \notin DOMAIN lease)
  <2> SUFFICES ASSUME NEW k \in Keys
               PROVE  /\ box[k].mask \subseteq b[k].mask
                      /\ ~b[k].dirty => b[k].mask = box[k].mask /\ (~box[k].dirty \/ k \in DOMAIN lease)
                      /\ b[k].dirty => b[k].mask # box[k].mask \/ (box[k].dirty /\ k \notin DOMAIN lease)
    OBVIOUS
  <2>1. a[k].mask = box[k].mask /\ (a[k].dirty <=> box[k].dirty /\ k \notin DOMAIN lease)
    BY <1>2
  <2>2. QED
    BY <1>3, <2>1
<1>6. QED
  BY <1>3, <1>4, <1>5

\* The relays of a wave whose sessions have all answered are what the barrier emits.
LEMMA AllEmitted ==
  ASSUME received = DOMAIN plan, NEW k \in Keys
  PROVE  Emitted(flow, plan)[k] = Answered(k)
<1> DEFINE of == [r \in DOMAIN plan |-> Relays(r[1], Seen(r))]
<1>1. Emitted(flow, plan) = AllSeeds(of)
  BY DEF Emitted, Seen
<1>2. AllSeeds(of)[k] = UNION {of[r][k] : r \in DOMAIN of}
  BY DEF AllSeeds
<1>3. {of[r][k] : r \in DOMAIN of} = {Relays(r[1], Seen(r))[k] : r \in received}
  OBVIOUS
<1>4. QED
  BY <1>1, <1>2, <1>3 DEF Answered

\* The barrier keeps the invariant, whether another wave follows or the generation ends.
LEMMA BarrierStep ==
  ASSUME IInv, Barrier
  PROVE  IInv'
<1> DEFINE b == Settled(flow, box, lease, plan)
           out == Both(emitted, Emitted(flow, plan))
<1>1. /\ stage = "waves" /\ received = DOMAIN plan /\ box' = b
      /\ flow' = flow /\ coverage' = coverage /\ attempts' = attempts
  BY DEF Barrier
<1>2. \/ /\ DOMAIN Wave(b) # {} /\ StartWave(b, coverage) /\ stage' = "waves"
         /\ emitted' = out /\ incoming' = incoming
      \/ /\ stage' = "admit" /\ incoming' = out /\ emitted' = Nothing
         /\ lease' = NoWave /\ plan' = NoWave /\ active' = {} /\ received' = {}
  BY DEF Barrier, StartWave
<1>3. incoming = Nothing /\ active = {}
  BY <1>1 DEF IInv, Stages, TypeOK
<1>4. /\ Boxes(b)
      /\ \A k \in Keys :
           /\ box[k].mask \subseteq b[k].mask
           /\ ~b[k].dirty => b[k].mask = box[k].mask /\ (~box[k].dirty \/ k \in DOMAIN lease)
           /\ b[k].dirty => b[k].mask # box[k].mask \/ (box[k].dirty /\ k \notin DOMAIN lease)
  BY SettledFacts
<1>5. \A k \in Keys : out[k] = emitted[k] \union Answered(k) /\ Nothing[k] = {}
  BY <1>1, AllEmitted DEF Both, Nothing
<1> HIDE DEF b, out
<1>6. /\ lease' = [k \in DOMAIN lease' |-> lease'[k]] /\ DOMAIN lease' \subseteq Keys
      /\ plan' = [k \in DOMAIN plan' |-> plan'[k]] /\ DOMAIN plan' \subseteq DOMAIN lease'
      /\ active' = {} /\ received' = {} /\ Leases'
  <2>1. CASE StartWave(b, coverage)
    BY <1>1, <2>1, WaveStarts
  <2>2. CASE lease' = NoWave /\ plan' = NoWave /\ active' = {} /\ received' = {}
    <3>1. DOMAIN NoWave = {} /\ NoWave = [k \in DOMAIN NoWave |-> NoWave[k]]
      BY DEF NoWave
    <3>2. Leases'
      BY <2>2, <3>1 DEF Leases
    <3>3. QED
      BY <2>2, <3>1, <3>2
  <2>3. QED
    BY <1>2, <2>1, <2>2
<1>7. \A k \in Keys : Executed(k)' = Executed(k)
  BY <1>1 DEF Executed
<1>8. TypeOK'
  <2>1. stage' \in {"admit", "waves", "settled", "raised"}
    BY <1>2
  <2>2. box' = [k \in Keys |-> [mask |-> box'[k].mask, dirty |-> box'[k].dirty]]
        /\ \A k \in Keys : box'[k].dirty \in BOOLEAN
    BY <1>1, <1>4 DEF Boxes
  <2>3. \A k \in Keys : attempts'[k] \in Seq(Executed(k)')
    BY <1>1, <1>7 DEF IInv, TypeOK
  <2>4. QED
    BY <1>1, <1>6, <2>1, <2>2, <2>3 DEF IInv, TypeOK
<1>9. Stages'
  <2>1. CASE stage' = "waves"
    BY <1>2, <1>3, <2>1 DEF Stages, StartWave
  <2>2. CASE stage' = "admit"
    <3>1. lease' = NoWave /\ emitted' = Nothing
      BY <1>2, <2>2
    <3>2. DOMAIN NoWave = {}
      BY DEF NoWave
    <3>3. QED
      BY <2>2, <3>1, <3>2 DEF Stages
  <2>3. QED
    BY <1>2, <2>1, <2>2
<1>10. Executions'
  <2> SUFFICES ASSUME NEW k \in Keys
               PROVE  /\ \A m \in Executed(k) : m \subseteq b[k].mask
                                                /\ m \subseteq coverage.masks[<<k[1], k[2]>>]
                      /\ b[k].dirty => b[k].mask \notin Executed(k)
    BY <1>1, <1>6, <1>7 DEF Executions
  <2>1. \A m \in Executed(k) : m \subseteq coverage.masks[<<k[1], k[2]>>]
    BY <1>3 DEF IInv, Executions
  <2>2. b[k].dirty => b[k].mask # box[k].mask \/ (box[k].dirty /\ k \notin active \union received)
    BY <1>1, <1>3, <1>4 DEF IInv, TypeOK
  <2>3. box[k].mask \subseteq b[k].mask
    BY <1>4
  <2>4. \A m \in Executed(k) : m \subseteq b[k].mask
    BY <2>3 DEF IInv, Executions
  <2>5. b[k].dirty => b[k].mask \notin Executed(k)
    BY <2>2, <2>3, StillFresh DEF IInv
  <2>6. QED
    BY <2>1, <2>4, <2>5
<1>11. AttemptsGrow'
  BY <1>1 DEF IInv, AttemptsGrow
<1>12. NoPixelForgotten'
  <2> SUFFICES ASSUME NEW k \in Keys, b[k].mask # {}, ~b[k].dirty
               PROVE  b[k].mask \in Executed(k) \/ CanHandoff(coverage, k, b[k].mask)
    BY <1>1, <1>7 DEF NoPixelForgotten
  <2>1. b[k].mask = box[k].mask /\ (~box[k].dirty \/ k \in DOMAIN lease)
    BY <1>4
  <2>2. CASE ~box[k].dirty
    BY <2>1, <2>2 DEF IInv, NoPixelForgotten
  <2>3. CASE k \in DOMAIN plan
    <3>1. lease[k] = box[k].mask
      BY <2>3 DEF IInv, TypeOK, Leases
    <3>2. lease[k] \in Executed(k)
      BY <1>1, <2>3 DEF IInv, Executions
    <3>3. QED
      BY <2>1, <3>1, <3>2
  <2>4. CASE k \in DOMAIN lease /\ k \notin DOMAIN plan
    BY <2>1, <2>4 DEF IInv, Leases
  <2>5. QED
    BY <2>1, <2>2, <2>3, <2>4
<1>13. Relayed'
  <2>1. ASSUME NEW k \in Keys
        PROVE  Known(k) \subseteq Known(k)'
    <3>1. Known(k) = box[k].mask \union emitted[k] \union Answered(k)
      BY <1>3, <1>5 DEF Known
    <3>2. box[k].mask \subseteq b[k].mask /\ out[k] = emitted[k] \union Answered(k)
      BY <1>4, <1>5
    <3>3. box'[k].mask \union incoming'[k] \union emitted'[k] \subseteq Known(k)'
      BY DEF Known
    <3>4. emitted' = out \/ incoming' = out
      BY <1>2
    <3>5. QED
      BY <1>1, <3>1, <3>2, <3>3, <3>4
  <2>2. QED
    BY <1>1, <2>1 DEF IInv, Relayed
<1>14. QED
  BY <1>6, <1>8, <1>9, <1>10, <1>11, <1>12, <1>13 DEF IInv

-----------------------------------------------------------------------------
(* The start. *)

\* The two initial windows of an origin and what they cover.
Onward(fl, o) == Tracked(fl, <<o[1], o[2], "forward">>, o[3], LastFrame)
Backward(fl, o) == Tracked(fl, <<o[1], o[2], "backward">>, o[3], 0)
Initial(fl, o) ==
  Ingested(Ingested(NoCoverage, <<o[1], o[2], "forward">>, Onward(fl, o)),
           <<o[1], o[2], "backward">>, Backward(fl, o))

\* The initial chain is what the initial coverage holds of its tile.
LEMMA InitialCoverage ==
  ASSUME NEW o \in Origins, NEW fl
  PROVE  /\ Ledger(Initial(fl, o))
         /\ DOMAIN Chain(fl, o) \subseteq Frames
         /\ \A s \in Tiles, f \in Frames :
              Initial(fl, o).masks[<<s, f>>] =
                IF s = o[1] /\ f \in DOMAIN Chain(fl, o) THEN Chain(fl, o)[f] ELSE {}
<1> DEFINE kf == <<o[1], o[2], "forward">>
           kb == <<o[1], o[2], "backward">>
           ahead == Onward(fl, o)
           behind == Backward(fl, o)
           first == Ingested(NoCoverage, kf, ahead)
<1>1. kf \in Keys /\ kb \in Keys /\ o[2] \in 0..LastFrame /\ LastFrame \in Nat
  BY OriginsAssumption, FrontierAssumption DEF Keys, Directions, Frames
<1>2. /\ DOMAIN ahead \subseteq o[2]..LastFrame /\ o[2] \in DOMAIN ahead /\ ahead[o[2]] = o[3]
  <2>1. LastFrame \in Frames /\ Facing(kf, LastFrame) /\ Span(kf, LastFrame) = o[2]..LastFrame
    BY <1>1 DEF Frames, Facing, Span
  <2> DEFINE k == kf
  <2>2. k \in Keys /\ k[2] = o[2] /\ Facing(k, LastFrame) /\ Span(k, LastFrame) = o[2]..LastFrame
        /\ ahead = Tracked(fl, k, o[3], LastFrame)
    BY <1>1, <2>1 DEF Onward
  <2> DEFINE far == LastFrame
  <2>3. far \in Frames /\ Facing(k, far)
    BY <2>1, <2>2
  <2> HIDE DEF k, ahead, far
  <2>4. /\ DOMAIN Tracked(fl, k, o[3], far) \subseteq Span(k, far)
        /\ k[2] \in DOMAIN Tracked(fl, k, o[3], far)
        /\ Tracked(fl, k, o[3], far)[k[2]] = o[3]
    BY <2>2, <2>3, TrackedStart
  <2>5. QED
    BY <2>2, <2>4 DEF far
<1>3. /\ DOMAIN behind \subseteq 0..o[2] /\ o[2] \in DOMAIN behind /\ behind[o[2]] = o[3]
  <2>1. 0 \in Frames /\ Facing(kb, 0) /\ Span(kb, 0) = 0..o[2]
    BY <1>1 DEF Frames, Facing, Span
  <2> DEFINE k == kb
  <2>2. k \in Keys /\ k[2] = o[2] /\ Facing(k, 0) /\ Span(k, 0) = 0..o[2]
        /\ behind = Tracked(fl, k, o[3], 0)
    BY <1>1, <2>1 DEF Backward
  <2> HIDE DEF k, behind
  <2>3. 0 \in Frames
    BY <2>1
  <2>4. /\ DOMAIN Tracked(fl, k, o[3], 0) \subseteq Span(k, 0)
        /\ k[2] \in DOMAIN Tracked(fl, k, o[3], 0)
        /\ Tracked(fl, k, o[3], 0)[k[2]] = o[3]
    BY <2>2, <2>3, TrackedStart
  <2>5. QED
    BY <2>2, <2>4
<1>4. Ledger(NoCoverage) /\ \A s \in Tiles \X Frames : NoCoverage.masks[s] = {}
  BY DEF Ledger, NoCoverage
<1> DEFINE whole == [f \in DOMAIN ahead \union DOMAIN behind |-> IF f \in DOMAIN ahead THEN ahead[f] ELSE behind[f]]
<1>5. Chain(fl, o) = whole
  BY DEF Chain, Onward, Backward
<1> HIDE DEF ahead, behind
<1>6. Ledger(first) /\ \A s \in Tiles \X Frames : first.masks[s] = MaskOf(kf, ahead, s)
  <2> DEFINE k == kf
  <2>1. k \in Keys
    BY <1>1
  <2> HIDE DEF k
  <2>2. Ledger(Ingested(NoCoverage, k, ahead))
        /\ \A s \in Tiles \X Frames : Ingested(NoCoverage, k, ahead).masks[s] = NoCoverage.masks[s] \union MaskOf(k, ahead, s)
    BY <1>4, <2>1, IngestedFacts
  <2>3. QED
    BY <1>4, <2>2 DEF k
<1> HIDE DEF first
<1>7. /\ Ledger(Initial(fl, o))
      /\ \A s \in Tiles \X Frames : Initial(fl, o).masks[s] = MaskOf(kf, ahead, s) \union MaskOf(kb, behind, s)
  <2> DEFINE k == kb
  <2>1. k \in Keys
    BY <1>1
  <2>2. Initial(fl, o) = Ingested(first, k, behind)
    BY DEF Initial, first, ahead, behind
  <2> HIDE DEF k
  <2>3. Ledger(Ingested(first, k, behind))
        /\ \A s \in Tiles \X Frames : Ingested(first, k, behind).masks[s] = first.masks[s] \union MaskOf(k, behind, s)
    BY <1>6, <2>1, IngestedFacts
  <2>4. QED
    BY <1>6, <2>2, <2>3 DEF k
<1>8. DOMAIN whole \subseteq Frames
  BY <1>1, <1>2, <1>3 DEF Frames
<1>9. ASSUME NEW s \in Tiles, NEW f \in Frames
      PROVE  Initial(fl, o).masks[<<s, f>>] = IF s = o[1] /\ f \in DOMAIN whole THEN whole[f] ELSE {}
  <2> DEFINE p == <<s, f>>
             m == IF s = o[1] /\ f \in DOMAIN ahead THEN ahead[f] ELSE {}
             n == IF s = o[1] /\ f \in DOMAIN behind THEN behind[f] ELSE {}
  <2>1. p \in Tiles \X Frames /\ p[1] = s /\ p[2] = f
    OBVIOUS
  <2>2. MaskOf(kf, ahead, p) = m /\ MaskOf(kb, behind, p) = n
    BY DEF MaskOf
  <2> HIDE DEF p
  <2>3. Initial(fl, o).masks[p] = m \union n
    BY <1>7, <2>1, <2>2
  <2>4. f \in DOMAIN ahead /\ f \in DOMAIN behind => ahead[f] = behind[f]
    <3>1. f \in DOMAIN ahead /\ f \in DOMAIN behind => f = o[2]
      BY <1>1, <1>2, <1>3
    <3>2. QED
      BY <1>2, <1>3, <3>1
  <2>5. m \union n = IF s = o[1] /\ f \in DOMAIN whole THEN whole[f] ELSE {}
    BY <2>4
  <2>6. QED
    BY <2>3, <2>5 DEF p
<1>10. QED
  BY <1>5, <1>7, <1>8, <1>9

\* What the initial windows show a neighbour is offered to it.
LEMMA InitInv == Init => IInv
<1> SUFFICES ASSUME Init PROVE IInv
  OBVIOUS
<1>1. PICK o \in Origins : coverage = Initial(flow, o) /\ incoming = Relays(o[1], Chain(flow, o))
  BY DEF Init, Initial, Onward, Backward
<1>2. /\ stage = "admit" /\ box = EmptyBoxes /\ emitted = Nothing /\ lease = NoWave
      /\ plan = NoWave /\ active = {} /\ received = {} /\ attempts = [k \in Keys |-> <<>>]
  BY DEF Init
<1>3. /\ Ledger(coverage) /\ DOMAIN Chain(flow, o) \subseteq Frames
      /\ \A s \in Tiles, f \in Frames :
           coverage.masks[<<s, f>>] = IF s = o[1] /\ f \in DOMAIN Chain(flow, o) THEN Chain(flow, o)[f] ELSE {}
  BY <1>1, InitialCoverage
<1>4. DOMAIN lease = {} /\ DOMAIN plan = {} /\ lease = [k \in DOMAIN lease |-> lease[k]]
      /\ plan = [k \in DOMAIN plan |-> plan[k]]
  BY <1>2 DEF NoWave
<1>5. \A k \in Keys : box[k].mask = {} /\ box[k].dirty = FALSE /\ attempts[k] = <<>> /\ Executed(k) = {}
  BY <1>2 DEF EmptyBoxes, Executed
<1>6. TypeOK
  <2>1. box = [k \in Keys |-> [mask |-> box[k].mask, dirty |-> box[k].dirty]]
    BY <1>2, <1>5 DEF EmptyBoxes
  <2>2. attempts = [k \in Keys |-> attempts[k]] /\ \A k \in Keys : attempts[k] \in Seq(Executed(k))
    BY <1>2, <1>5
  <2>3. QED
    BY <1>2, <1>3, <1>4, <1>5, <2>1, <2>2 DEF TypeOK, Ledger
<1>7. Stages /\ Leases
  BY <1>2, <1>4 DEF Stages, Leases
<1>8. Executions /\ AttemptsGrow /\ NoPixelForgotten
  BY <1>2, <1>5 DEF Executions, AttemptsGrow, NoPixelForgotten
<1>9. Relayed
  <2> SUFFICES ASSUME NEW s \in Tiles, NEW k \in Keys, s # k[1],
                      Visible(coverage, s, k[1], Previous(k)) = {}
               PROVE  Visible(coverage, s, k[1], k[2]) \subseteq Known(k)
    BY DEF Relayed
  <2> DEFINE seen == Chain(flow, o)
  <2>1. ASSUME NEW f
        PROVE  Visible(coverage, s, k[1], f) = IF s = o[1] THEN Shows(seen, s, k[1], f) ELSE {}
    <3>1. CASE f \notin Frames
      BY <1>3, <3>1 DEF Visible, Shows
    <3>2. CASE f \in Frames
      <4>1. coverage.masks[<<s, f>>] = IF s = o[1] /\ f \in DOMAIN seen THEN seen[f] ELSE {}
        BY <1>3, <3>2
      <4>2. QED
        BY <3>2, <4>1, SharedFacts DEF Visible, Shows
    <3>3. QED
      BY <3>1, <3>2
  <2>2. CASE s # o[1]
    BY <2>1, <2>2
  <2>3. CASE s = o[1]
    <3>1. incoming[k] = Shows(seen, s, k[1], k[2])
      BY <1>1, <2>1, <2>3, RelaysFacts
    <3>2. incoming[k] \subseteq Known(k)
      BY DEF Known
    <3>3. QED
      BY <2>1, <2>3, <3>1, <3>2
  <2>4. QED
    BY <2>2, <2>3
<1>10. QED
  BY <1>6, <1>7, <1>8, <1>9 DEF IInv

-----------------------------------------------------------------------------
(* The invariants. *)

\* Every step keeps the invariant.
LEMMA NextInv == IInv /\ [Next]_vars => IInv'
<1> SUFFICES ASSUME IInv, [Next]_vars PROVE IInv'
  OBVIOUS
<1>1. CASE Admit
  BY <1>1, AdmitStep
<1>2. CASE Barrier
  BY <1>2, BarrierStep
<1>3. CASE Fail \/ UNCHANGED vars
  BY <1>3, FailStep
<1>4. CASE \E k \in Keys : Dispatch(k) \/ Receive(k)
  BY <1>4, DispatchStep, ReceiveStep
<1>5. QED
  BY <1>1, <1>2, <1>3, <1>4 DEF Next, Done

\* When the frontier settles every mailbox is clean and nothing is on its way, so what a
\* neighbour sees was executed by it or handed off, and is covered either way.
LEMMA Closed == IInv => SettledIsClosed
<1> SUFFICES ASSUME IInv, stage = "settled", NEW s \in Tiles, NEW t \in Tiles, NEW f \in Frames, s # t,
                    \/ f = 0 \/ Shared(s, t, coverage.masks[<<s, f - 1>>]) = {}
                    \/ f = LastFrame \/ Shared(s, t, coverage.masks[<<s, f + 1>>]) = {}
             PROVE  Shared(s, t, coverage.masks[<<s, f>>]) \subseteq coverage.masks[<<t, f>>]
  BY DEF SettledIsClosed
<1>1. f \in 0..LastFrame /\ LastFrame \in Nat
  BY FrontierAssumption DEF Frames
<1>2. PICK k \in Keys : k[1] = t /\ k[2] = f /\ Visible(coverage, s, t, Previous(k)) = {}
  <2>1. CASE f = 0 \/ Shared(s, t, coverage.masks[<<s, f - 1>>]) = {}
    <3> DEFINE k == <<t, f, "forward">>
    <3>1. k \in Keys /\ k[1] = t /\ k[2] = f /\ Previous(k) = f - 1
      BY DEF Keys, Directions, Previous
    <3>2. f = 0 => f - 1 \notin Frames
      BY <1>1 DEF Frames
    <3>3. Visible(coverage, s, t, f - 1) = {}
      BY <2>1, <3>2 DEF Visible
    <3>4. QED
      BY <3>1, <3>3
  <2>2. CASE f = LastFrame \/ Shared(s, t, coverage.masks[<<s, f + 1>>]) = {}
    <3> DEFINE k == <<t, f, "backward">>
    <3>1. k \in Keys /\ k[1] = t /\ k[2] = f /\ Previous(k) = f + 1
      BY DEF Keys, Directions, Previous
    <3>2. f = LastFrame => f + 1 \notin Frames
      BY <1>1 DEF Frames
    <3>3. Visible(coverage, s, t, f + 1) = {}
      BY <2>2, <3>2 DEF Visible
    <3>4. QED
      BY <3>1, <3>3
  <2>3. QED
    BY <2>1, <2>2
<1>3. Visible(coverage, s, t, f) \subseteq Known(k)
  BY <1>2 DEF IInv, Relayed
<1>4. /\ incoming = Nothing /\ emitted = Nothing /\ active = {} /\ Answered(k) = {}
      /\ ~box[k].dirty /\ Nothing[k] = {}
  BY NoneOut DEF IInv, Stages, Nothing
<1>5. Known(k) = box[k].mask
  BY <1>4 DEF Known
<1>6. box[k].mask \subseteq coverage.masks[<<t, f>>]
  <2>1. CASE box[k].mask \in Executed(k)
    BY <1>2, <1>4, <2>1 DEF IInv, Executions
  <2>2. CASE CanHandoff(coverage, k, box[k].mask)
    BY <1>2, <2>2 DEF CanHandoff
  <2>3. QED
    BY <1>4, <2>1, <2>2 DEF IInv, NoPixelForgotten
<1>7. QED
  BY <1>3, <1>5, <1>6 DEF Visible

\* IInv is an invariant of the frontier.
THEOREM FrontierInvariant == Spec => []IInv
<1>1. QED
  BY InitInv, NextInv, PTL DEF Spec

\* No offered pixel is forgotten, and a settled frontier is closed under the overlaps of its
\* tiles: what one tile shows another at the end of an episode, the other has covered.
THEOREM CoverageAlwaysComplete == Spec => []CoverageIsComplete
<1>1. IInv => CoverageIsComplete
  BY Closed DEF IInv, CoverageIsComplete
<1>2. QED
  BY <1>1, FrontierInvariant, PTL

\* A mailbox is executed again only with strictly more pixels than ever before.
THEOREM AttemptsAlwaysGrow == Spec => []AttemptsGrow
<1>1. IInv => AttemptsGrow
  BY DEF IInv
<1>2. QED
  BY <1>1, FrontierInvariant, PTL

-----------------------------------------------------------------------------
(* The frontier implements the waves. *)

\* The operators of the waves are those of the frontier.
LEMMA SameOperators ==
  /\ Waves!Nothing = Nothing /\ Waves!EmptyBoxes = EmptyBoxes
  /\ \A a, b : Waves!Both(a, b) = Both(a, b)
  /\ \A b, q : Waves!Offered(b, q) = Offered(b, q)
  /\ \A b : Waves!Wave(b) = Wave(b)
  /\ \A c, w : Waves!Planned(c, w) = Planned(c, w)
  /\ \A fl, p : Waves!Emitted(fl, p) = Emitted(fl, p)
  /\ \A fl, c, p : Waves!AllCovered(fl, c, p) = AllCovered(fl, c, p)
  /\ \A fl, b, w, p : Waves!Settled(fl, b, w, p) = Settled(fl, b, w, p)
<1>1. Waves!Frames = Frames /\ Waves!Directions = Directions
  BY DEF Waves!Frames, Waves!Directions, Frames, Directions
<1>2. Waves!Keys = Keys
  BY <1>1 DEF Waves!Keys, Keys
<1>3. Waves!Nothing = Nothing /\ Waves!EmptyBoxes = EmptyBoxes
  BY <1>2 DEF Waves!Nothing, Nothing, Waves!EmptyBoxes, EmptyBoxes
<1>4. \A a, b : Waves!Both(a, b) = Both(a, b)
  BY <1>2 DEF Waves!Both, Both
<1>5. \A b, q : Waves!Offered(b, q) = Offered(b, q)
  BY <1>2 DEF Waves!Offered, Offered
<1>6. \A k : Waves!Far(k) = Far(k)
  BY DEF Waves!Far, Far
<1>7. \A k : Waves!Sweep(k) = Sweep(k) /\ Waves!Terminal(k) = Terminal(k)
  BY <1>6 DEF Waves!Sweep, Sweep, Waves!Terminal, Terminal
<1>8. \A j, k : Waves!SameSlab(j, k) = SameSlab(j, k)
  BY <1>7 DEF Waves!SameSlab, SameSlab
<1>9. \A j, k : Waves!Before(j, k) = Before(j, k)
  BY <1>7, <1>8 DEF Waves!Before, Before
<1>10. \A b : Waves!Wave(b) = Wave(b)
  <2> SUFFICES ASSUME NEW b PROVE Waves!Wave(b) = Wave(b)
    OBVIOUS
  <2> DEFINE dirty == {k \in Keys : b[k].dirty}
             slab == {k \in dirty : \A j \in dirty : SameSlab(j, k) \/ Before(k, j)}
             leased == {k \in slab : Cardinality({j \in slab : Before(j, k)}) < WaveLimit}
             dirtyW == {k \in Waves!Keys : b[k].dirty}
             slabW == {k \in dirtyW : \A j \in dirtyW : Waves!SameSlab(j, k) \/ Waves!Before(k, j)}
             leasedW == {k \in slabW : Waves!Cardinality({j \in slabW : Waves!Before(j, k)}) < WaveLimit}
  <2>1. Wave(b) = [k \in leased |-> b[k].mask] /\ Waves!Wave(b) = [k \in leasedW |-> b[k].mask]
    BY DEF Wave, Waves!Wave
  <2>2. \A S : Waves!Cardinality(S) = Cardinality(S)
    BY DEF Waves!Cardinality, Cardinality
  <2>3. dirtyW = dirty
    BY <1>2
  <2> HIDE DEF dirty, dirtyW
  <2>4. slabW = slab
    BY <1>8, <1>9, <2>3
  <2> HIDE DEF slab, slabW
  <2>5. \A k : {j \in slabW : Waves!Before(j, k)} = {j \in slab : Before(j, k)}
    BY <1>9, <2>4
  <2>6. leasedW = leased
    BY <2>2, <2>4, <2>5
  <2> HIDE DEF leased, leasedW
  <2>7. QED
    BY <2>1, <2>6
<1>11. \A b, w : Waves!Acknowledged(b, w) = Acknowledged(b, w)
  BY <1>2 DEF Waves!Acknowledged, Acknowledged
<1>12. \A k, f : Waves!Span(k, f) = Span(k, f) /\ Waves!Distance(k, f) = Distance(k, f)
  BY DEF Waves!Span, Span, Waves!Distance, Distance
<1>13. \A fl, k, p, f : Waves!Tracked(fl, k, p, f) = Tracked(fl, k, p, f)
  <2> SUFFICES ASSUME NEW fl, NEW k, NEW p, NEW far PROVE Waves!Tracked(fl, k, p, far) = Tracked(fl, k, p, far)
    OBVIOUS
  <2> DEFINE mask == CHOOSE m : m = [i \in Nat |-> IF i = 0 THEN p ELSE fl[k[1]][k[3]][m[i - 1]]]
             visited == {f \in Span(k, far) : \A g \in Span(k, far) :
                           Distance(k, g) < Distance(k, f) => mask[Distance(k, g)] # {}}
             visitedW == {f \in Waves!Span(k, far) : \A g \in Waves!Span(k, far) :
                           Waves!Distance(k, g) < Waves!Distance(k, f) => mask[Waves!Distance(k, g)] # {}}
  <2>1. Tracked(fl, k, p, far) = [f \in visited |-> mask[Distance(k, f)]]
    BY DEF Tracked
  <2>2. Waves!Tracked(fl, k, p, far) = [f \in visitedW |-> mask[Waves!Distance(k, f)]]
    BY DEF Waves!Tracked
  <2> HIDE DEF mask
  <2>3. visitedW = visited
    BY <1>12
  <2> HIDE DEF visited, visitedW
  <2>4. QED
    BY <1>12, <2>1, <2>2, <2>3
<1>14. \A seen : Waves!Edges(seen) = Edges(seen)
  BY DEF Waves!Edges, Edges
<1>15. \A c, k, m : Waves!CanHandoff(c, k, m) = CanHandoff(c, k, m) /\ Waves!Prompt(c, k, m) = Prompt(c, k, m)
  BY DEF Waves!CanHandoff, CanHandoff, Waves!Prompt, Prompt
<1>16. \A c, w : Waves!Planned(c, w) = Planned(c, w)
  BY <1>15 DEF Waves!Planned, Planned
<1>17. \A fl, k, p : Waves!Continuation(fl, k, p) = Continuation(fl, k, p)
  BY <1>2, <1>6, <1>7, <1>13 DEF Waves!Continuation, Continuation
<1>18. \A s, t, m : Waves!Shared(s, t, m) = Shared(s, t, m)
  BY DEF Waves!Shared, Shared
<1>19. \A s, seen : Waves!Relays(s, seen) = Relays(s, seen)
  BY <1>2, <1>18 DEF Waves!Relays, Relays
<1>20. \A of : Waves!AllSeeds(of) = AllSeeds(of)
  BY <1>2 DEF Waves!AllSeeds, AllSeeds
<1>21. \A fl, p : Waves!Continued(fl, p) = Continued(fl, p)
  BY <1>17, <1>20 DEF Waves!Continued, Continued
<1>22. \A fl, p : Waves!Emitted(fl, p) = Emitted(fl, p)
  BY <1>6, <1>13, <1>19, <1>20 DEF Waves!Emitted, Emitted
<1>23. \A fl, c, p : Waves!AllCovered(fl, c, p) = AllCovered(fl, c, p)
  <2> SUFFICES ASSUME NEW fl, NEW c, NEW p PROVE Waves!AllCovered(fl, c, p) = AllCovered(fl, c, p)
    OBVIOUS
  <2> DEFINE seen == [k \in DOMAIN p |-> Tracked(fl, k, p[k], Far(k))]
             seenW == [k \in DOMAIN p |-> Waves!Tracked(fl, k, p[k], Waves!Far(k))]
  <2>1. seenW = seen
    BY <1>6, <1>13
  <2>2. AllCovered(fl, c, p) =
          [masks |-> [s \in Tiles \X Frames |-> c.masks[s] \union
                       UNION {seen[k][s[2]] : k \in {j \in DOMAIN p : j[1] = s[1] /\ s[2] \in DOMAIN seen[j]}}],
           edges |-> [s \in Tiles \X Directions |-> c.edges[s] \union
                       UNION {Edges(seen[k]) : k \in {j \in DOMAIN p : j[1] = s[1] /\ j[3] = s[2]}}]]
    BY DEF AllCovered
  <2>3. Waves!AllCovered(fl, c, p) =
          [masks |-> [s \in Tiles \X Waves!Frames |-> c.masks[s] \union
                       UNION {seenW[k][s[2]] : k \in {j \in DOMAIN p : j[1] = s[1] /\ s[2] \in DOMAIN seenW[j]}}],
           edges |-> [s \in Tiles \X Waves!Directions |-> c.edges[s] \union
                       UNION {Waves!Edges(seenW[k]) : k \in {j \in DOMAIN p : j[1] = s[1] /\ j[3] = s[2]}}]]
    BY DEF Waves!AllCovered
  <2> HIDE DEF seen, seenW
  <2>4. \A s : UNION {Waves!Edges(seen[k]) : k \in {j \in DOMAIN p : j[1] = s[1] /\ j[3] = s[2]}} =
               UNION {Edges(seen[k]) : k \in {j \in DOMAIN p : j[1] = s[1] /\ j[3] = s[2]}}
    BY <1>14
  <2> DEFINE masks == [s \in Tiles \X Frames |-> c.masks[s] \union
                       UNION {seen[k][s[2]] : k \in {j \in DOMAIN p : j[1] = s[1] /\ s[2] \in DOMAIN seen[j]}}]
             edges == [s \in Tiles \X Directions |-> c.edges[s] \union
                       UNION {Edges(seen[k]) : k \in {j \in DOMAIN p : j[1] = s[1] /\ j[3] = s[2]}}]
             edgesW == [s \in Tiles \X Directions |-> c.edges[s] \union
                       UNION {Waves!Edges(seen[k]) : k \in {j \in DOMAIN p : j[1] = s[1] /\ j[3] = s[2]}}]
  <2>5. edgesW = edges
    BY <2>4
  <2>6. AllCovered(fl, c, p) = [masks |-> masks, edges |-> edges]
    BY <2>2
  <2>7. Waves!AllCovered(fl, c, p) = [masks |-> masks, edges |-> edgesW]
    BY <1>1, <2>1, <2>3
  <2> HIDE DEF masks, edges, edgesW
  <2>8. QED
    BY <2>5, <2>6, <2>7
<1>24. \A fl, b, w, p : Waves!Settled(fl, b, w, p) = Settled(fl, b, w, p)
  BY <1>5, <1>11, <1>21 DEF Waves!Settled, Settled
<1>25. QED
  BY <1>3, <1>4, <1>5, <1>10, <1>16, <1>22, <1>23, <1>24

\* The mailboxes, the coverage and the relays as the waves see them: a wave is over when it starts.
BoxSeen == IF stage = "admit" \/ DOMAIN lease = {} THEN box ELSE Settled(flow, box, lease, plan)
CoverageSeen == AllCovered(flow, coverage, [k \in DOMAIN plan \ received |-> plan[k]])
EmittedSeen == IF DOMAIN lease = {} THEN emitted ELSE Both(emitted, Emitted(flow, plan))

\* The coverage of no session is the coverage there is.
LEMMA CoveredByNone ==
  ASSUME NEW fl, NEW cov, Ledger(cov), NEW p, DOMAIN p = {}
  PROVE  AllCovered(fl, cov, p) = cov
<1> DEFINE seen == [k \in DOMAIN p |-> Tracked(fl, k, p[k], Far(k))]
           masks == [s \in Tiles \X Frames |-> cov.masks[s] \union
                       UNION {seen[k][s[2]] : k \in {j \in DOMAIN p : j[1] = s[1] /\ s[2] \in DOMAIN seen[j]}}]
           edges == [s \in Tiles \X Directions |-> cov.edges[s] \union
                       UNION {Edges(seen[k]) : k \in {j \in DOMAIN p : j[1] = s[1] /\ j[3] = s[2]}}]
<1>1. AllCovered(fl, cov, p) = [masks |-> masks, edges |-> edges]
  BY DEF AllCovered
<1> HIDE DEF seen
<1>2. masks = [s \in Tiles \X Frames |-> cov.masks[s]] /\ edges = [s \in Tiles \X Directions |-> cov.edges[s]]
  OBVIOUS
<1> HIDE DEF masks, edges
<1>3. QED
  BY <1>1, <1>2 DEF Ledger

\* A plan without one of its sessions.
Without(p, j) == [k \in DOMAIN p \ {j} |-> p[k]]

\* The sessions of a wave cover the same whether one of them is ingested first or not.
LEMMA CoveredInAnyOrder ==
  ASSUME NEW fl, NEW cov, Ledger(cov), NEW p, DOMAIN p \subseteq Keys, NEW j \in DOMAIN p
  PROVE  AllCovered(fl, Ingested(cov, j, Tracked(fl, j, p[j], Far(j))), Without(p, j))
           = AllCovered(fl, cov, p)
<1> DEFINE T(k) == Tracked(fl, k, p[k], Far(k))
           q == [k \in DOMAIN p \ {j} |-> p[k]]
           in == Ingested(cov, j, T(j))
           masks == [s \in Tiles \X Frames |-> cov.masks[s] \union
                       UNION {T(k)[s[2]] : k \in {h \in DOMAIN p : h[1] = s[1] /\ s[2] \in DOMAIN T(h)}}]
           edges == [s \in Tiles \X Directions |-> cov.edges[s] \union
                       UNION {Edges(T(k)) : k \in {h \in DOMAIN p : h[1] = s[1] /\ h[3] = s[2]}}]
           masksQ == [s \in Tiles \X Frames |-> in.masks[s] \union
                       UNION {T(k)[s[2]] : k \in {h \in DOMAIN p \ {j} : h[1] = s[1] /\ s[2] \in DOMAIN T(h)}}]
           edgesQ == [s \in Tiles \X Directions |-> in.edges[s] \union
                       UNION {Edges(T(k)) : k \in {h \in DOMAIN p \ {j} : h[1] = s[1] /\ h[3] = s[2]}}]
<1>1. AllCovered(fl, cov, p) = [masks |-> masks, edges |-> edges]
  BY DEF AllCovered
<1>2. AllCovered(fl, in, q) = [masks |-> masksQ, edges |-> edgesQ]
  <2> DEFINE seen == [k \in DOMAIN q |-> Tracked(fl, k, q[k], Far(k))]
  <2>1. DOMAIN q = DOMAIN p \ {j} /\ \A k \in DOMAIN p \ {j} : seen[k] = T(k)
    OBVIOUS
  <2>2. AllCovered(fl, in, q) =
          [masks |-> [s \in Tiles \X Frames |-> in.masks[s] \union
                       UNION {seen[k][s[2]] : k \in {h \in DOMAIN q : h[1] = s[1] /\ s[2] \in DOMAIN seen[h]}}],
           edges |-> [s \in Tiles \X Directions |-> in.edges[s] \union
                       UNION {Edges(seen[k]) : k \in {h \in DOMAIN q : h[1] = s[1] /\ h[3] = s[2]}}]]
    BY DEF AllCovered
  <2> HIDE DEF seen, q, T, in
  <2>3. \A s : {seen[k][s[2]] : k \in {h \in DOMAIN q : h[1] = s[1] /\ s[2] \in DOMAIN seen[h]}} =
               {T(k)[s[2]] : k \in {h \in DOMAIN p \ {j} : h[1] = s[1] /\ s[2] \in DOMAIN T(h)}}
    BY <2>1
  <2>4. \A s : {Edges(seen[k]) : k \in {h \in DOMAIN q : h[1] = s[1] /\ h[3] = s[2]}} =
               {Edges(T(k)) : k \in {h \in DOMAIN p \ {j} : h[1] = s[1] /\ h[3] = s[2]}}
    BY <2>1
  <2>5. [s \in Tiles \X Frames |-> in.masks[s] \union
           UNION {seen[k][s[2]] : k \in {h \in DOMAIN q : h[1] = s[1] /\ s[2] \in DOMAIN seen[h]}}] = masksQ
    BY <2>3
  <2>6. [s \in Tiles \X Directions |-> in.edges[s] \union
           UNION {Edges(seen[k]) : k \in {h \in DOMAIN q : h[1] = s[1] /\ h[3] = s[2]}}] = edgesQ
    BY <2>4
  <2> HIDE DEF masksQ, edgesQ
  <2>7. QED
    BY <2>2, <2>5, <2>6
<1>3. j \in Keys
  OBVIOUS
<1> HIDE DEF T, in
<1>4. masksQ = masks
  <2> SUFFICES ASSUME NEW s \in Tiles \X Frames
               PROVE  masksQ[s] = masks[s]
    OBVIOUS
  <2>1. in.masks[s] = cov.masks[s] \union MaskOf(j, T(j), s)
    BY <1>3, IngestedFacts DEF in
  <2>2. MaskOf(j, T(j), s) \union UNION {T(k)[s[2]] : k \in {h \in DOMAIN p \ {j} : h[1] = s[1] /\ s[2] \in DOMAIN T(h)}}
          = UNION {T(k)[s[2]] : k \in {h \in DOMAIN p : h[1] = s[1] /\ s[2] \in DOMAIN T(h)}}
    BY DEF MaskOf
  <2>3. QED
    BY <2>1, <2>2
<1>5. edgesQ = edges
  <2> SUFFICES ASSUME NEW s \in Tiles \X Directions
               PROVE  edgesQ[s] = edges[s]
    OBVIOUS
  <2>1. in.edges[s] = cov.edges[s] \union EdgesOf(j, T(j), s)
    BY <1>3, IngestedFacts DEF in
  <2>2. EdgesOf(j, T(j), s) \union UNION {Edges(T(k)) : k \in {h \in DOMAIN p \ {j} : h[1] = s[1] /\ h[3] = s[2]}}
          = UNION {Edges(T(k)) : k \in {h \in DOMAIN p : h[1] = s[1] /\ h[3] = s[2]}}
    BY DEF EdgesOf
  <2>3. QED
    BY <2>1, <2>2
<1>6. QED
  BY <1>1, <1>2, <1>4, <1>5 DEF in, T, Without

\* Between two waves the waves see what is there.
LEMMA SeenBetween ==
  ASSUME IInv, DOMAIN lease = {}
  PROVE  BoxSeen = box /\ CoverageSeen = coverage /\ EmittedSeen = emitted
<1>1. BoxSeen = box /\ EmittedSeen = emitted
  BY DEF BoxSeen, EmittedSeen
<1> DEFINE p == [k \in DOMAIN plan \ received |-> plan[k]]
<1>2. DOMAIN p = {}
  BY DEF IInv, TypeOK
<1> HIDE DEF p
<1>3. Ledger(coverage)
  BY DEF IInv, TypeOK, Ledger
<1>4. AllCovered(flow, coverage, p) = coverage
  BY <1>2, <1>3, CoveredByNone
<1>5. QED
  BY <1>1, <1>4 DEF CoverageSeen, p

\* When a wave starts, its whole outcome is seen.
LEMMA SeenStarting ==
  ASSUME NEW b, box' = b, coverage' = coverage, flow' = flow, StartWave(b, coverage),
         DOMAIN Wave(b) # {}
  PROVE  /\ BoxSeen' = Settled(flow, b, Wave(b), Planned(coverage, Wave(b)))
         /\ CoverageSeen' = AllCovered(flow, coverage, Planned(coverage, Wave(b)))
         /\ EmittedSeen' = Both(emitted', Emitted(flow, Planned(coverage, Wave(b))))
<1>1. /\ stage' = "waves" /\ lease' = Wave(b) /\ plan' = Planned(coverage, Wave(b))
      /\ active' = {} /\ received' = {}
  BY DEF StartWave
<1>2. BoxSeen' = Settled(flow, b, lease', plan') /\ EmittedSeen' = Both(emitted', Emitted(flow, plan'))
  BY <1>1 DEF BoxSeen, EmittedSeen
<1>3. plan' = [k \in DOMAIN plan' |-> plan'[k]]
  BY WaveStarts
<1>4. plan' = [k \in DOMAIN plan' \ received' |-> plan'[k]]
  BY <1>1, <1>3
<1>5. CoverageSeen' = AllCovered(flow, coverage, plan')
  BY <1>4 DEF CoverageSeen
<1>6. QED
  BY <1>1, <1>2, <1>5

\* The head of a generation is that of the waves, with the whole of its first wave.
LEMMA AdmitImplements ==
  ASSUME IInv, Admit
  PROVE  Waves!Admit
<1> DEFINE b == Offered(box, incoming)
           w == Wave(b)
           p == Planned(coverage, w)
<1>1. /\ stage = "admit" /\ box' = b /\ incoming' = Nothing /\ flow' = flow
      /\ generation' = generation /\ coverage' = coverage /\ emitted' = emitted
  BY DEF Admit
<1>2. \/ /\ DOMAIN w # {} /\ generation <= MaxGenerations
         /\ StartWave(b, coverage) /\ stage' = "waves"
      \/ /\ ~(DOMAIN w # {} /\ generation <= MaxGenerations)
         /\ stage' = (IF DOMAIN w = {} THEN "settled" ELSE "raised")
         /\ lease' = lease /\ plan' = plan /\ active' = active /\ received' = received
  BY DEF Admit, StartWave, wave
<1>3. DOMAIN lease = {} /\ received = {} /\ DOMAIN plan = {}
  BY <1>1, NoneOut DEF IInv, Stages
<1>4. BoxSeen = box /\ CoverageSeen = coverage /\ EmittedSeen = emitted
  BY <1>3, SeenBetween
<1> HIDE DEF b
<1>5. CASE StartWave(b, coverage) /\ DOMAIN w # {} /\ generation <= MaxGenerations
  <2>1. /\ BoxSeen' = Settled(flow, b, w, p) /\ CoverageSeen' = AllCovered(flow, coverage, p)
        /\ EmittedSeen' = Both(emitted, Emitted(flow, p))
    BY <1>1, <1>5, SeenStarting
  <2>2. stage' = "waves"
    BY <1>5 DEF StartWave
  <2> HIDE DEF w, p
  <2>3. Waves!Advances(b, coverage, w)
    BY <1>4, <2>1, <2>2, SameOperators DEF Waves!Advances, BoxSeen, CoverageSeen, EmittedSeen, p
  <2>4. b = Waves!Offered(BoxSeen, incoming) /\ coverage = CoverageSeen /\ w = Waves!Wave(b)
        /\ incoming' = Waves!Nothing
    BY <1>1, <1>4, SameOperators DEF b, w
  <2>5. QED
    BY <1>1, <1>5, <2>3, <2>4 DEF Waves!Admit, BoxSeen, CoverageSeen
<1>6. CASE /\ ~(DOMAIN w # {} /\ generation <= MaxGenerations)
           /\ stage' = (IF DOMAIN w = {} THEN "settled" ELSE "raised")
           /\ lease' = lease /\ plan' = plan /\ active' = active /\ received' = received
  <2>1. BoxSeen' = b /\ EmittedSeen' = emitted
    BY <1>1, <1>3, <1>6 DEF BoxSeen, EmittedSeen
  <2>2. CoverageSeen' = CoverageSeen
    BY <1>1, <1>6 DEF CoverageSeen
  <2> HIDE DEF w, p
  <2>3. b = Waves!Offered(BoxSeen, incoming) /\ coverage = CoverageSeen /\ w = Waves!Wave(b)
        /\ incoming' = Waves!Nothing
    BY <1>1, <1>4, SameOperators DEF b, w
  <2>4. QED
    BY <1>1, <1>4, <1>6, <2>1, <2>2, <2>3 DEF Waves!Admit, BoxSeen, CoverageSeen, EmittedSeen
<1>7. QED
  BY <1>2, <1>5, <1>6

\* The barrier is the start of the next wave, or the end of the generation.
LEMMA BarrierImplements ==
  ASSUME IInv, Barrier
  PROVE  Waves!NextWave \/ Waves!EndGeneration
<1> DEFINE b == Settled(flow, box, lease, plan)
           out == Both(emitted, Emitted(flow, plan))
           w == Wave(b)
           p == Planned(coverage, w)
<1>1. /\ stage = "waves" /\ received = DOMAIN plan /\ box' = b
      /\ flow' = flow /\ coverage' = coverage
  BY DEF Barrier
<1>2. \/ /\ DOMAIN w # {} /\ StartWave(b, coverage)
         /\ emitted' = out /\ incoming' = incoming /\ generation' = generation
      \/ /\ DOMAIN w = {} /\ stage' = "admit" /\ generation' = generation + 1
         /\ incoming' = out /\ emitted' = Nothing
         /\ lease' = NoWave /\ plan' = NoWave /\ active' = {} /\ received' = {}
  BY DEF Barrier
<1>3. BoxSeen = b /\ EmittedSeen = out /\ CoverageSeen = coverage
  <2>1. DOMAIN lease # {}
    BY <1>1 DEF IInv, Stages
  <2>2. Ledger(coverage)
    BY DEF IInv, TypeOK, Ledger
  <2> DEFINE q == [k \in DOMAIN plan \ received |-> plan[k]]
  <2>3. DOMAIN q = {}
    BY <1>1
  <2> HIDE DEF q
  <2>4. AllCovered(flow, coverage, q) = coverage
    BY <2>2, <2>3, CoveredByNone
  <2>5. QED
    BY <1>1, <2>1, <2>4 DEF BoxSeen, EmittedSeen, CoverageSeen, q
<1> HIDE DEF b, out
<1>4. CASE DOMAIN w # {} /\ StartWave(b, coverage)
           /\ emitted' = out /\ incoming' = incoming /\ generation' = generation
  <2>1. /\ BoxSeen' = Settled(flow, b, w, p) /\ CoverageSeen' = AllCovered(flow, coverage, p)
        /\ EmittedSeen' = Both(out, Emitted(flow, p))
    BY <1>1, <1>4, SeenStarting
  <2>2. stage' = "waves"
    BY <1>4 DEF StartWave
  <2> HIDE DEF w, p
  <2>3. Waves!Advances(b, coverage, w)
    BY <1>3, <2>1, <2>2, SameOperators DEF Waves!Advances, BoxSeen, CoverageSeen, EmittedSeen, p
  <2>4. w = Waves!Wave(b)
    BY SameOperators DEF w
  <2>5. Waves!NextWave
    BY <1>1, <1>3, <1>4, <2>3, <2>4 DEF Waves!NextWave, BoxSeen, CoverageSeen
  <2>6. QED
    BY <2>5
<1>5. CASE /\ DOMAIN w = {} /\ stage' = "admit" /\ generation' = generation + 1
           /\ incoming' = out /\ emitted' = Nothing
           /\ lease' = NoWave /\ plan' = NoWave /\ active' = {} /\ received' = {}
  <2>1. DOMAIN lease' = {} /\ DOMAIN plan' = {}
    BY <1>5 DEF NoWave
  <2>2. BoxSeen' = b /\ EmittedSeen' = Nothing
    BY <1>1, <1>5, <2>1 DEF BoxSeen, EmittedSeen
  <2>3. CoverageSeen' = coverage
    <3> DEFINE q == [k \in DOMAIN plan' \ received' |-> plan'[k]]
    <3>1. DOMAIN q = {} /\ Ledger(coverage)
      BY <2>1 DEF IInv, TypeOK, Ledger
    <3>2. CoverageSeen' = AllCovered(flow, coverage, q)
      BY <1>1 DEF CoverageSeen
    <3> HIDE DEF q
    <3>3. QED
      BY <3>1, <3>2, CoveredByNone
  <2> HIDE DEF w, p
  <2>4. w = Waves!Wave(b) /\ Waves!Nothing = Nothing
    BY SameOperators DEF w
  <2>5. Waves!EndGeneration
    BY <1>1, <1>3, <1>5, <2>2, <2>3, <2>4 DEF Waves!EndGeneration, BoxSeen, CoverageSeen, EmittedSeen
  <2>6. QED
    BY <2>5
<1>6. QED
  BY <1>2, <1>4, <1>5

\* A session that starts or answers is not seen: the outcome of the wave was decided.
LEMMA SessionsUnseen ==
  ASSUME IInv, NEW j \in Keys, Dispatch(j) \/ Receive(j)
  PROVE  UNCHANGED Waves!vars
<1>1. /\ stage = "waves" /\ flow' = flow /\ stage' = stage /\ generation' = generation /\ box' = box
      /\ incoming' = incoming /\ emitted' = emitted /\ lease' = lease /\ plan' = plan
  BY DEF Dispatch, Receive, Waiting
<1>2. BoxSeen' = BoxSeen /\ EmittedSeen' = EmittedSeen
  BY <1>1 DEF BoxSeen, EmittedSeen
<1>3. CoverageSeen' = CoverageSeen
  <2>1. CASE Dispatch(j)
    BY <2>1 DEF Dispatch, CoverageSeen
  <2>2. CASE Receive(j)
    <3> DEFINE p == [k \in DOMAIN plan \ received |-> plan[k]]
    <3>1. /\ j \in active /\ received' = received \union {j}
          /\ coverage' = Ingested(coverage, j, Tracked(flow, j, plan[j], Far(j)))
      BY <2>2 DEF Receive
    <3>2. Ledger(coverage) /\ DOMAIN p \subseteq Keys /\ j \in DOMAIN p /\ p[j] = plan[j]
      BY <3>1 DEF IInv, TypeOK, Ledger
    <3>3. [k \in DOMAIN plan' \ received' |-> plan'[k]] = Without(p, j)
      BY <1>1, <3>1 DEF Without
    <3>4. CoverageSeen = AllCovered(flow, coverage, p)
      BY DEF CoverageSeen
    <3>5. CoverageSeen' = AllCovered(flow, coverage', [k \in DOMAIN plan' \ received' |-> plan'[k]])
      BY <1>1 DEF CoverageSeen
    <3> HIDE DEF p
    <3>6. AllCovered(flow, Ingested(coverage, j, Tracked(flow, j, p[j], Far(j))), Without(p, j))
            = AllCovered(flow, coverage, p)
      BY <3>2, CoveredInAnyOrder
    <3>7. QED
      BY <3>1, <3>2, <3>3, <3>4, <3>5, <3>6
  <2>3. QED
    BY <2>1, <2>2
<1>4. QED
  BY <1>1, <1>2, <1>3 DEF Waves!vars, BoxSeen, CoverageSeen, EmittedSeen

\* A failure ends the waves where they are.
LEMMA FailImplements ==
  ASSUME IInv, Fail
  PROVE  Waves!Fail
<1>1. /\ stage = "waves" /\ stage' = "raised" /\ flow' = flow /\ generation' = generation /\ box' = box
      /\ coverage' = coverage /\ incoming' = incoming /\ emitted' = emitted /\ lease' = lease
      /\ plan' = plan /\ active' = active /\ received' = received
  BY DEF Fail, Waiting, wave
<1>2. BoxSeen' = BoxSeen /\ EmittedSeen' = EmittedSeen /\ CoverageSeen' = CoverageSeen
  BY <1>1 DEF BoxSeen, EmittedSeen, CoverageSeen
<1>3. QED
  BY <1>1, <1>2 DEF Waves!Fail, BoxSeen, CoverageSeen, EmittedSeen

\* The frontier starts where the waves do.
LEMMA InitImplements == Init => Waves!Start
<1> SUFFICES ASSUME Init PROVE Waves!Start
  OBVIOUS
<1>1. stage = "admit" /\ generation = 1 /\ box = EmptyBoxes /\ emitted = Nothing /\ DOMAIN lease = {}
  BY DEF Init, NoWave
<1>2. BoxSeen = EmptyBoxes /\ EmittedSeen = Nothing
  BY <1>1 DEF BoxSeen, EmittedSeen
<1>3. QED
  BY <1>1, <1>2, SameOperators DEF Waves!Start, BoxSeen, EmittedSeen

\* Every step of the frontier is a step of the waves, or is not seen.
LEMMA NextImplements == IInv /\ [Next]_vars => [Waves!Next]_(Waves!vars)
<1> SUFFICES ASSUME IInv, [Next]_vars PROVE [Waves!Next]_(Waves!vars)
  OBVIOUS
<1>1. CASE Admit
  BY <1>1, AdmitImplements DEF Waves!Next
<1>2. CASE Barrier
  BY <1>2, BarrierImplements DEF Waves!Next
<1>3. CASE Fail
  BY <1>3, FailImplements DEF Waves!Next
<1>4. CASE \E k \in Keys : Dispatch(k) \/ Receive(k)
  BY <1>4, SessionsUnseen
<1>5. CASE UNCHANGED vars
  <2>1. UNCHANGED <<BoxSeen, CoverageSeen, EmittedSeen, flow, stage, generation, incoming>>
    BY <1>5 DEF vars, BoxSeen, CoverageSeen, EmittedSeen
  <2>2. QED
    BY <2>1 DEF Waves!vars, BoxSeen, CoverageSeen, EmittedSeen
<1>6. QED
  BY <1>1, <1>2, <1>3, <1>4, <1>5 DEF Next, Done

\* The number of devices and the order of the answers change nothing about what a wave
\* does: with them or without, the frontier goes through the same waves.
THEOREM FrontierIsDeterministic == Spec => Deterministic
<1>1. QED
  BY InitImplements, NextImplements, FrontierInvariant, PTL DEF Spec, Deterministic, Waves!Spec

=============================================================================
