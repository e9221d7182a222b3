---------------------------- MODULE RelayFrontier ----------------------------
(***************************************************************************)
(* _drive_canonical_relay_frontier (lta_frontier_execution.py): spatial    *)
(* generations of waves.  A wave's prompts are frozen when it is planned;  *)
(* its sessions run on the workers' slots and answer in any order, their   *)
(* coverage is recorded as they answer, and only when all have answered    *)
(* are the leased revisions acknowledged and continuations offered.        *)
(***************************************************************************)
EXTENDS CanonicalFrontier, Sequences

CONSTANTS MaxGenerations,  \* _relay_generation_bound
          Slots,           \* devices times workers per device
          Motions,         \* the tracker's behaviours explored, per tile
          Origins          \* the initial prompts: triples of tile, frame and mask

ASSUME OriginsAssumption == \A o \in Origins : o[1] \in Tiles /\ o[2] \in Frames

VARIABLES
  flow,       \* the tracker, fixed for the run
  stage,      \* "admit", "waves" (a wave is out), "settled" or "raised"
  generation, box, coverage,
  incoming,   \* relays to be offered when the generation starts
  emitted,    \* relays of the finished waves of this generation
  lease,      \* the outstanding wave: leased mailbox -> frozen mask
  plan,       \* its sessions: mailbox -> prompt
  active, received,
  attempts    \* history: mailbox -> the revisions that were executed, in order

vars == <<flow, stage, generation, box, coverage, incoming, emitted, lease, plan,
          active, received, attempts>>
wave == <<lease, plan, active, received>>

NoWave == [k \in {} |-> {}]

\* The initial windows have followed their prompt through the whole view in both
\* directions, as one chain: their coverage and relays are what the frontier starts from.
Chain(fl, o) ==
  LET ahead == Tracked(fl, <<o[1], o[2], "forward">>, o[3], LastFrame)
      behind == Tracked(fl, <<o[1], o[2], "backward">>, o[3], 0)
  IN [f \in DOMAIN ahead \union DOMAIN behind |-> IF f \in DOMAIN ahead THEN ahead[f] ELSE behind[f]]

Init ==
  /\ flow \in [Tiles -> Motions]
  /\ \E o \in Origins :
       LET ahead == Tracked(flow, <<o[1], o[2], "forward">>, o[3], LastFrame)
           behind == Tracked(flow, <<o[1], o[2], "backward">>, o[3], 0)
       IN /\ coverage = Ingested(Ingested(NoCoverage, <<o[1], o[2], "forward">>, ahead),
                                 <<o[1], o[2], "backward">>, behind)
          /\ incoming = Relays(o[1], Chain(flow, o))
  /\ stage = "admit" /\ generation = 1
  /\ box = EmptyBoxes /\ emitted = Nothing
  /\ lease = NoWave /\ plan = NoWave /\ active = {} /\ received = {}
  /\ attempts = [k \in Keys |-> <<>>]

\* The wave over mailboxes b, planned against the coverage cov.
StartWave(b, cov) ==
  /\ stage' = "waves"
  /\ lease' = Wave(b)
  /\ plan' = Planned(cov, Wave(b))
  /\ active' = {} /\ received' = {}

\* The head of a generation: relays are merged into their mailboxes and a wave is taken.
Admit ==
  LET b == Offered(box, incoming)
  IN /\ stage = "admit"
     /\ box' = b /\ incoming' = Nothing
     /\ IF DOMAIN Wave(b) # {} /\ generation <= MaxGenerations
        THEN StartWave(b, coverage)
        ELSE /\ stage' = IF DOMAIN Wave(b) = {} THEN "settled" ELSE "raised"
             /\ UNCHANGED wave
     /\ UNCHANGED <<flow, generation, coverage, emitted, attempts>>

\* _dispatch_available: a free slot takes one of the wave's sessions.
Dispatch(k) ==
  /\ stage = "waves" /\ k \in DOMAIN plan \ (active \union received)
  /\ Cardinality(active) < Slots
  /\ active' = active \union {k}
  /\ attempts' = [attempts EXCEPT ![k] = Append(@, lease[k])]
  /\ UNCHANGED <<flow, stage, generation, box, coverage, incoming, emitted, lease, plan, received>>

\* The driver fills every free slot before it waits.
Waiting ==
  /\ stage = "waves" /\ active # {}
  /\ Cardinality(active) = Slots \/ active \union received = DOMAIN plan

\* Mutant of Receive: later sessions of the wave are prompted with coverage of earlier ones.
ReceiveAndReplan(k) ==
  /\ Waiting /\ k \in active
  /\ active' = active \ {k} /\ received' = received \union {k}
  /\ coverage' = Ingested(coverage, k, Tracked(flow, k, plan[k], Far(k)))
  /\ plan' = [j \in DOMAIN plan |-> IF j \in active' \union received' THEN plan[j]
                                    ELSE Prompt(coverage', j, lease[j])]
  /\ UNCHANGED <<flow, stage, generation, box, incoming, emitted, lease, attempts>>

\* A result: its coverage is recorded at once, its seeds wait for the barrier.
Receive(k) ==
  /\ Waiting /\ k \in active
  /\ active' = active \ {k}
  /\ received' = received \union {k}
  /\ coverage' = Ingested(coverage, k, Tracked(flow, k, plan[k], Far(k)))
  /\ UNCHANGED <<flow, stage, generation, box, incoming, emitted, lease, plan, attempts>>

\* The lease of a session expires, its worker dies or its evidence does not validate.
Fail ==
  /\ Waiting /\ stage' = "raised"
  /\ UNCHANGED <<flow, generation, box, coverage, incoming, emitted, wave, attempts>>

\* All results are in: acknowledge, offer the continuations, and take the next wave or
\* end the generation.
Barrier ==
  LET b == Settled(flow, box, lease, plan)
      out == Both(emitted, Emitted(flow, plan))
  IN /\ stage = "waves" /\ received = DOMAIN plan
     /\ box' = b
     /\ IF DOMAIN Wave(b) # {}
        THEN /\ StartWave(b, coverage)
             /\ emitted' = out /\ UNCHANGED <<generation, incoming>>
        ELSE /\ stage' = "admit" /\ generation' = generation + 1
             /\ incoming' = out /\ emitted' = Nothing
             /\ lease' = NoWave /\ plan' = NoWave /\ active' = {} /\ received' = {}
     /\ UNCHANGED <<flow, coverage, attempts>>

Done == stage \in {"settled", "raised"} /\ UNCHANGED vars

Next == Admit \/ Barrier \/ Fail \/ Done \/ \E k \in Keys : Dispatch(k) \/ Receive(k)

Spec == Init /\ [][Next]_vars

\* The driver is one loop, and a wait ends in a result or in an error.
Fairness ==
  /\ WF_vars(Admit \/ Barrier \/ \E k \in Keys : Dispatch(k))
  /\ WF_vars(Fail \/ \E k \in Keys : Receive(k))
FairSpec == Spec /\ Fairness

-----------------------------------------------------------------------------
(* Properties. *)

\* The revisions of a mailbox that were executed.
Executed(k) == {attempts[k][i] : i \in DOMAIN attempts[k]}

\* Every clean mailbox was executed with all of its pixels in one prompt, or is handed
\* off to sessions that covered them: no offered pixel is ever forgotten, whatever else
\* was merged into its mailbox meanwhile.
NoPixelForgotten ==
  \A k \in Keys : box[k].mask # {} /\ ~box[k].dirty =>
                    box[k].mask \in Executed(k) \/ CanHandoff(coverage, k, box[k].mask)

\* When the frontier settles the coverage is closed under the overlaps of the tiles: what a
\* tile shows its neighbour in the first or the last frame of an episode was predicted by
\* the neighbour too.
SettledIsClosed ==
  stage = "settled" =>
    \A s, t \in Tiles, f \in Frames :
      LET shown(g) == Shared(s, t, coverage.masks[<<s, g>>])
      IN /\ s # t
         /\ \/ f = 0 \/ shown(f - 1) = {}
            \/ f = LastFrame \/ shown(f + 1) = {}
         => shown(f) \subseteq coverage.masks[<<t, f>>]

\* Nothing that was offered or seen is missing from the coverage.
CoverageIsComplete == NoPixelForgotten /\ SettledIsClosed

\* A mailbox is executed again only with strictly more pixels than ever before ("another
\* attempt requires new input foreground"), so the loop between two tiles must run dry.
AttemptsGrow ==
  \A k \in Keys : \A i, j \in DOMAIN attempts[k] :
    i < j => attempts[k][i] \subseteq attempts[k][j] /\ attempts[k][i] # attempts[k][j]

\* The waves seen from outside: one deterministic step each.  While a wave is out its
\* outcome is already decided, whichever sessions have answered.
Waves == INSTANCE RelayWaves WITH
  box <- IF stage = "admit" \/ DOMAIN lease = {} THEN box ELSE Settled(flow, box, lease, plan),
  coverage <- AllCovered(flow, coverage, [k \in DOMAIN plan \ received |-> plan[k]]),
  emitted <- IF DOMAIN lease = {} THEN emitted ELSE Both(emitted, Emitted(flow, plan))
Deterministic == Waves!Spec

\* Unless a session fails, the frontier settles by itself: "coverage admission must drive
\* convergence" (lta_execution.py:95), and the bound on generations is never what ends it.
Settles == <>(stage = "settled" \/ (stage = "raised" /\ generation <= MaxGenerations))
=============================================================================
