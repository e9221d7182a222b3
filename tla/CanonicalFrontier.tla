-------------------------- MODULE CanonicalFrontier --------------------------
(***************************************************************************)
(* The data of the LTA relay frontier: mailboxes keyed by tile, frame and  *)
(* direction that accumulate offered pixels (lta_frontier.py), the ledger  *)
(* of what sessions covered (lta_coverage.py), and what one session of a   *)
(* worker returns.  Everything here is a pure function; one lineage, since *)
(* lineages share nothing but the session that carries them.  The tracker  *)
(* itself is external: `flow` says, per tile and direction, which pixels   *)
(* follow from which between neighbouring frames.                          *)
(***************************************************************************)
EXTENDS Integers, FiniteSets

CONSTANTS Tiles, Pixels,
          LastFrame,  \* frames are 0..LastFrame
          Advance,    \* _ADVANCE: the frames from one shared boundary to the next
          WaveLimit,  \* FRONTIER_WAVE_SEEDS
          Rank,       \* the order of the hashed mailbox keys
          Overlap     \* Overlap[<<s, t>>][p]: the pixels of tile t where pixel p of s lies

Frames == 0..LastFrame
Directions == {"forward", "backward"}
Keys == Tiles \X Frames \X Directions
ASSUME FrontierAssumption ==
  /\ LastFrame \in Nat
  /\ Advance \in Nat \ {0} /\ WaveLimit \in Nat \ {0} /\ \A k \in Keys : Rank[k] \in Nat

Nothing == [k \in Keys |-> {}]
Both(a, b) == [k \in Keys |-> a[k] \union b[k]]

\* _canonical_window: the far frame of a mailbox's window, and the slab it belongs to.
Far(k) ==
  IF k[3] = "forward"
  THEN LET next == (k[2] \div Advance + 1) * Advance IN IF next < LastFrame THEN next ELSE LastFrame
  ELSE IF k[2] = 0 THEN 0 ELSE ((k[2] - 1) \div Advance) * Advance
Sweep(k) ==
  CASE k[3] = "forward" /\ k[2] = LastFrame -> (LastFrame + Advance - 1) \div Advance
    [] k[3] = "forward" /\ k[2] # LastFrame -> k[2] \div Advance
    [] k[3] = "backward" /\ k[2] = 0 -> 1
    [] OTHER -> -Far(k)
Terminal(k) == Far(k) = IF k[3] = "forward" THEN LastFrame ELSE 0

-----------------------------------------------------------------------------
(* Mailboxes. *)

EmptyBoxes == [k \in Keys |-> [mask |-> {}, dirty |-> FALSE]]

\* Mutant of Offered: a mailbox holds the latest seed instead of all of them.
OfferedLatest(box, seeds) ==
  [k \in Keys |-> IF seeds[k] \subseteq box[k].mask THEN box[k] ELSE [mask |-> seeds[k], dirty |-> TRUE]]

\* offer: the pixels join the mailbox, which becomes dirty only if some are new.
Offered(box, seeds) ==
  [k \in Keys |-> [mask |-> box[k].mask \union seeds[k],
                   dirty |-> box[k].dirty \/ ~(seeds[k] \subseteq box[k].mask)]]

SameSlab(j, k) == j[3] = k[3] /\ Sweep(j) = Sweep(k)
Before(j, k) ==
  \/ j[3] = "forward" /\ k[3] = "backward"
  \/ j[3] = k[3] /\ Sweep(j) < Sweep(k)
  \/ SameSlab(j, k) /\ Rank[j] < Rank[k]

\* take_wave: the first dirty mailboxes of the first slab; the wave freezes their masks.
Wave(box) ==
  LET dirty == {k \in Keys : box[k].dirty}
      slab == {k \in dirty : \A j \in dirty : SameSlab(j, k) \/ Before(k, j)}
      leased == {k \in slab : Cardinality({j \in slab : Before(j, k)}) < WaveLimit}
  IN [k \in leased |-> box[k].mask]

\* complete: a mailbox is clean if its mask is still the one that was leased.
Acknowledged(box, lease) ==
  [k \in Keys |-> IF k \in DOMAIN lease THEN [box[k] EXCEPT !.dirty = box[k].mask # lease[k]]
                                        ELSE box[k]]

-----------------------------------------------------------------------------
(* Sessions and what they cover. *)

\* The frames a session can reach, by distance from the prompt.
Span(k, far) == IF k[3] = "forward" THEN k[2]..far ELSE far..k[2]
Distance(k, f) == IF k[3] = "forward" THEN f - k[2] ELSE k[2] - f

\* The predictions of a session: the tracker stops after its first empty frame.
Tracked(flow, k, prompt, far) ==
  LET mask[i \in Nat] == IF i = 0 THEN prompt ELSE flow[k[1]][k[3]][mask[i - 1]]
      visited == {f \in Span(k, far) : \A g \in Span(k, far) :
                     Distance(k, g) < Distance(k, f) => mask[Distance(k, g)] # {}}
  IN [f \in visited |-> mask[Distance(k, f)]]

NoCoverage == [masks |-> [s \in Tiles \X Frames |-> {}], edges |-> [s \in Tiles \X Directions |-> {}]]

\* An edge f stands for the step between frames f and f + 1.
Edges(seen) == {f \in DOMAIN seen : f + 1 \in DOMAIN seen}

\* ingest: masks and traversed edges are united with those of earlier sessions.
Ingested(coverage, k, seen) ==
  [masks |-> [s \in Tiles \X Frames |-> coverage.masks[s] \union
                IF s[1] = k[1] /\ s[2] \in DOMAIN seen THEN seen[s[2]] ELSE {}],
   edges |-> [coverage.edges EXCEPT ![<<k[1], k[3]>>] = @ \union Edges(seen)]]

\* can_handoff: these pixels were predicted here and a session went on in this direction.
CanHandoff(coverage, k, mask) ==
  LET atEnd == k[2] = IF k[3] = "forward" THEN LastFrame ELSE 0
      edge == IF k[3] = "forward" THEN k[2] ELSE k[2] - 1
  IN /\ mask # {} /\ mask \subseteq coverage.masks[<<k[1], k[2]>>]
     /\ atEnd \/ edge \in coverage.edges[<<k[1], k[3]>>]

\* merge_prompt_support: the prompt is joined by what is already published there.
Prompt(coverage, k, mask) == mask \union coverage.masks[<<k[1], k[2]>>]

\* The sessions of a wave: its entries that are not handed off, each with its prompt.
Planned(coverage, lease) ==
  [k \in {j \in DOMAIN lease : ~CanHandoff(coverage, j, lease[j])} |-> Prompt(coverage, k, lease[k])]

\* The dogfood seed at the far boundary of a window goes on in the next slab.
Continuation(flow, k, prompt) ==
  LET seen == Tracked(flow, k, prompt, Far(k))
      next == <<k[1], Far(k), k[3]>>
  IN [j \in Keys |-> IF j = next /\ ~Terminal(k) /\ Far(k) \in DOMAIN seen THEN seen[Far(k)] ELSE {}]

\* The pixels of a prediction of tile s that its neighbour t sees.
Shared(s, t, mask) == UNION {Overlap[<<s, t>>][p] : p \in mask}

\* Mutant of Relays: the last frame of an episode is not offered backward.
RelaysForward(s, seen) ==
  LET at(t, f) == IF f \in DOMAIN seen /\ t # s THEN Shared(s, t, seen[f]) ELSE {}
  IN [k \in Keys |-> IF k[3] = "forward" /\ at(k[1], k[2] - 1) = {} THEN at(k[1], k[2]) ELSE {}]

\* The relays: every episode of consecutive frames whose pixels a neighbour sees is
\* offered to it forward from its first frame and backward from its last.
Relays(s, seen) ==
  LET at(t, f) == IF f \in DOMAIN seen /\ t # s THEN Shared(s, t, seen[f]) ELSE {}
  IN [k \in Keys |->
        LET before == IF k[3] = "forward" THEN k[2] - 1 ELSE k[2] + 1
        IN IF at(k[1], before) = {} THEN at(k[1], k[2]) ELSE {}]

\* Sums over the sessions of a wave, in any order.
AllSeeds(of) == [j \in Keys |-> UNION {of[k][j] : k \in DOMAIN of}]
AllCovered(flow, coverage, plan) ==
  LET seen == [k \in DOMAIN plan |-> Tracked(flow, k, plan[k], Far(k))]
  IN [masks |-> [s \in Tiles \X Frames |-> coverage.masks[s] \union
                   UNION {seen[k][s[2]] : k \in {j \in DOMAIN plan : j[1] = s[1] /\ s[2] \in DOMAIN seen[j]}}],
      edges |-> [s \in Tiles \X Directions |-> coverage.edges[s] \union
                   UNION {Edges(seen[k]) : k \in {j \in DOMAIN plan : j[1] = s[1] /\ j[3] = s[2]}}]]

\* What the barrier adds: continuations to the mailboxes, relays to the next generation.
Continued(flow, plan) == AllSeeds([k \in DOMAIN plan |-> Continuation(flow, k, plan[k])])
Emitted(flow, plan) ==
  AllSeeds([k \in DOMAIN plan |-> Relays(k[1], Tracked(flow, k, plan[k], Far(k)))])

\* Mutant of Settled: only the entries that were executed are acknowledged.
SettledExecuted(flow, box, lease, plan) ==
  Offered(Acknowledged(box, [k \in DOMAIN plan |-> lease[k]]), Continued(flow, plan))

\* The mailboxes after the barrier of a wave.
Settled(flow, box, lease, plan) == Offered(Acknowledged(box, lease), Continued(flow, plan))
=============================================================================
