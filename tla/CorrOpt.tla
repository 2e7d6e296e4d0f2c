------------------------------- MODULE CorrOpt -------------------------------
(***************************************************************************)
(* CorrOpt: disable corrupting links as long as every ToR keeps its share  *)
(* of paths to the core.  The fast checker decides about one link when it  *)
(* fails; the optimizer, when a link has been repaired, looks for the best *)
(* set of corrupting links to disable.                                     *)
(***************************************************************************)
EXTENDS Topology

CONSTANT CapacityConstraintPercent  \* capacity_constraint_percent

\* Paths of "any 1 ToR (symmetric topos, of course!)": they all have as many.
ASSUME CorrOptAssumption ==
    /\ CapacityConstraintPercent \in 0 .. 100
    /\ \A t, u \in Tors :
            Cardinality(LivePaths(t, {})) = Cardinality(LivePaths(u, {}))

\* min_active_paths_constraint, from any ToR of the (symmetric) topology
MinActivePaths ==
    LET tor   == CHOOSE t \in Tors : TRUE
        paths == BuiltTopology.numPaths[tor]
    IN  (paths * CapacityConstraintPercent + 99) \div 100

-----------------------------------------------------------------------------
\* corropt_fast_checker: can the link be disabled safely?
CanDisable(T, l) ==
    \A t \in AffectedTors(l) :
        MinActivePaths <=
            IF l \in CoreLinks
            THEN NumPathsToCore(T, t, {},
                                [T.activeUplinks EXCEPT ![l[1]] = @ - 1])
            ELSE NumPathsToCore(T, t, {l[2]}, T.activeUplinks)

\* Mutant of UplinksWithout: an aggregation switch loses one uplink at most.
UplinksWithoutOne(T, S) ==
    [a \in Aggs |->
        T.activeUplinks[a] - IF \E l \in S \cap CoreLinks : l[1] = a
                             THEN 1 ELSE 0]

\* agg_switches_to_update: the uplinks that are left without the links of S
UplinksWithout(T, S) ==
    [a \in Aggs |->
        T.activeUplinks[a] - Cardinality({l \in S \cap CoreLinks : l[1] = a})]

\* get_tors_with_capacity_constraint_violation
Violating(T, S) ==
    {t \in UNION {AffectedTors(l) : l \in S} :
        NumPathsToCore(T, t, {l[2] : l \in {k \in S \cap TorLinks : k[1] = t}},
                       UplinksWithout(T, S)) < MinActivePaths}

\* Mutant of Combinations: the largest combination is left out.
ShorterCombinations(singles) == (SUBSET singles) \ {{}, singles}

\* get_all_corrupting_link_subsets, with the single links
Combinations(singles) == (SUBSET singles) \ {{}}

\* The subsets that pass process_curr_subset_of_links: supersets of a
\* rejected subset are rejected without being looked at.
Candidates(T) ==
    LET singles  == {l \in T.corrupting : Violating(T, {l}) = {}}
        subsets  == Combinations(singles)
        rejected == {S \in subsets : Violating(T, S) # {}}
    IN  {S \in subsets : ~\E R \in rejected : R \subseteq S}

RemainingLossRate(T, S) == T.totalLossRate - SumOver(T.lossRate, S)

\* Mutant of LeastSubsets: the heap is taken from the wrong end.
MostSubsets(T, candidates) ==
    {S \in candidates : \A R \in candidates :
        RemainingLossRate(T, S) >= RemainingLossRate(T, R)}

\* get_least_lossrate_subset.  Which one of several is least follows from the
\* layout of the heap: any may be.
LeastSubsets(T, candidates) ==
    {S \in candidates : \A R \in candidates :
        RemainingLossRate(T, S) <= RemainingLossRate(T, R)}

\* disable_link, one link after another; their order does not matter.
DisableLinks(T, S) == FoldSet(LAMBDA l, U : DisableLink(U, l), T, S)

\* Step 2: the links that are not upstream of a ToR that is in violation when
\* all the corrupting links are disabled.
NotUpstream(T) ==
    LET violating == Violating(T, T.corrupting)
    IN  {l \in T.corrupting : AffectedTors(l) \cap violating = {}}

\* corropt_optimizer: the sets of links it may disable
Optimizer(T) ==
    LET free       == NotUpstream(T)
        rest       == DisableLinks(T, free)
        candidates == Candidates(rest)
    IN  IF candidates = {} THEN {free}
        ELSE {free \cup S : S \in LeastSubsets(rest, candidates)}

-----------------------------------------------------------------------------
\* Reference: the sets of corrupting links without which every ToR keeps
\* enough paths, counted in the graph.
SafeSets(T) ==
    {S \in SUBSET T.corrupting : \A t \in Tors :
        Cardinality(LivePaths(t, T.disabled \cup S)) >= MinActivePaths}
=============================================================================
