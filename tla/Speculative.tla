---------------------------- MODULE Speculative ----------------------------
(***************************************************************************)
(* SpeculativeEngine: branches that are forked against a token budget, run *)
(* by a caller, completed or failed, merged and pruned. Every method takes *)
(* the engine exclusively and is one step; the caller may call them in any *)
(* order and for any branch id, also for a branch that is over. What a     *)
(* branch does, its strategy and its latency are left out.                 *)
(***************************************************************************)
EXTENDS Integers, Sequences, FiniteSets, FiniteSetsExt, SequencesExt

CONSTANTS
  Outputs,         \* outputs of branches, told apart by their JSON text
  Spent,           \* tokens a result says it has consumed
  CandidateLists,  \* lists of [confidence, estimated] that fork is given
  MinConfidence,   \* SpeculativeEngine.min_confidence
  MaxConcurrent,   \* SpeculativeEngine.max_concurrent_branches
  InitialBudget,   \* what the engine is created with
  Additions,       \* what add_budget is called with
  MaxBranches,     \* bound: branches spawned
  MaxGiven,        \* bound: tokens given to the engine
  MaxLate          \* bound: calls for a branch that is over

ASSUME SpeculativeAssumption ==
  /\ InitialBudget \in Nat /\ Additions \subseteq Nat /\ Spent \subseteq Nat
  /\ MinConfidence \in Nat /\ MaxConcurrent \in Nat
  /\ CandidateLists \subseteq Seq([confidence: Nat, estimated: Nat])
  /\ MaxBranches \in Nat /\ MaxGiven \in Nat /\ MaxLate \in Nat

VARIABLES
  branches,        \* sequence of [estimated, state], by branch id
  results,         \* [output, novel] of branches, by branch id
  token_budget,    \* SpeculativeEngine.token_budget
  total_merged,
  total_pruned,
  given,           \* history: tokens the engine was given
  charged,         \* history: tokens kept for the completion of a branch
  late             \* history: calls for a branch that was over

speculative_vars ==
  <<branches, results, token_budget, total_merged, total_pruned, given,
    charged, late>>

BranchStates ==
  {"Queued", "Running", "Completed", "Merged", "Pruned", "Failed", "TimedOut"}
ActiveStates == {"Queued", "Running"}

BranchIds == DOMAIN branches
InState(states) == {b \in BranchIds : branches[b].state \in states}
Active == InState(ActiveStates)

SpeculativeInit ==
  /\ branches = <<>>
  /\ results = [b \in {} |-> 0]
  /\ token_budget = InitialBudget
  /\ total_merged = 0
  /\ total_pruned = 0
  /\ given = InitialBudget
  /\ charged = <<>>
  /\ late = 0

\* A call for a branch that is over, which no method refuses.
Late(b) == IF b \in Active THEN 0 ELSE 1
Tolerated(b) == late + Late(b) <= MaxLate

AddBudget(n) ==
  /\ given + n <= MaxGiven
  /\ token_budget' = token_budget + n
  /\ given' = given + n
  /\ UNCHANGED <<branches, results, total_merged, total_pruned, charged, late>>

\* One candidate of fork: the budget, confidence and concurrency gates. Once
\* the last one closes it stays closed, as if the loop went on.
\* Mutant: the candidate is weighed against the budget fork started with.
Spawned_StaleBudget(acc, candidate) ==
  IF /\ candidate.estimated <= token_budget
     /\ candidate.confidence >= MinConfidence
     /\ acc.active < MaxConcurrent
  THEN [branches |-> Append(acc.branches, [estimated |-> candidate.estimated,
                                           state |-> "Queued"]),
        budget |-> IF acc.budget < candidate.estimated THEN 0
                   ELSE acc.budget - candidate.estimated,
        active |-> acc.active + 1]
  ELSE acc

Spawned(acc, candidate) ==
  IF /\ candidate.estimated <= acc.budget
     /\ candidate.confidence >= MinConfidence
     /\ acc.active < MaxConcurrent
  THEN [branches |-> Append(acc.branches, [estimated |-> candidate.estimated,
                                           state |-> "Queued"]),
        budget |-> acc.budget - candidate.estimated,
        active |-> acc.active + 1]
  ELSE acc

\* The most confident candidates come first, equal ones as they are given.
Ranks(candidates) ==
  {r \in Bijection(DOMAIN candidates, DOMAIN candidates) :
     \A i, j \in DOMAIN candidates : i < j =>
       LET c == candidates[r[i]].confidence
           d == candidates[r[j]].confidence
       IN  c > d \/ (c = d /\ r[i] < r[j])}

Fork(candidates) ==
  \E r \in Ranks(candidates) :
    LET sorted == [i \in DOMAIN candidates |-> candidates[r[i]]]
        after == FoldLeft(Spawned,
                          [branches |-> branches, budget |-> token_budget,
                           active |-> Cardinality(Active)], sorted)
    IN  /\ Len(after.branches) <= MaxBranches
        /\ branches' = after.branches
        /\ token_budget' = after.budget
        /\ charged' = charged \o
             [i \in 1 .. Len(after.branches) - Len(branches) |-> 0]
        /\ UNCHANGED <<results, total_merged, total_pruned, given, late>>

StartBranch(b) ==
  /\ Tolerated(b)
  /\ branches' = [branches EXCEPT ![b].state = "Running"]
  /\ late' = late + Late(b)
  /\ UNCHANGED <<results, token_budget, total_merged, total_pruned, given,
                 charged>>

Smaller(m, n) == IF m < n THEN m ELSE n

\* Any result still held counts, also that of a branch that failed since.
\* Mutant: only results that are novel themselves are compared with.
IsRedundant_Never(output) == FALSE

IsRedundant(output) == \E b \in DOMAIN results : results[b].output = output

\* What was reserved and not spent comes back; what was overspent is not asked.
CompleteBranch(b, output, spent) ==
  /\ Tolerated(b)
  /\ LET kept == Smaller(spent, branches[b].estimated)
     IN  /\ token_budget' = token_budget + branches[b].estimated - kept
         /\ charged' = [charged EXCEPT ![b] = @ + kept]
  /\ branches' = [branches EXCEPT ![b].state = "Completed"]
  /\ results' = [c \in DOMAIN results \cup {b} |->
                   IF c = b
                   THEN [output |-> output, novel |-> ~IsRedundant(output)]
                   ELSE results[c]]
  /\ late' = late + Late(b)
  /\ UNCHANGED <<total_merged, total_pruned, given>>

\* Completed branches whose result is still there, split by its novelty.
Mergeable(novel) ==
  {b \in InState({"Completed"}) \cap DOMAIN results : results[b].novel = novel}

Merge ==
  LET kept == Mergeable(TRUE)
      dropped == Mergeable(FALSE)
  IN  /\ kept \cup dropped # {}
      /\ branches' =
           [b \in BranchIds |->
              CASE b \in kept    -> [branches[b] EXCEPT !.state = "Merged"]
                [] b \in dropped -> [branches[b] EXCEPT !.state = "Pruned"]
                [] OTHER         -> branches[b]]
      /\ results' = [b \in DOMAIN results \ (kept \cup dropped) |-> results[b]]
      /\ total_merged' = total_merged + Cardinality(kept)
      /\ total_pruned' = total_pruned + Cardinality(dropped)
      /\ UNCHANGED <<token_budget, given, charged, late>>

Reserved(S) == MapThenSumSet(LAMBDA b : branches[b].estimated, S)

PruneAllActive ==
  /\ Active # {}
  /\ token_budget' = token_budget + Reserved(Active)
  /\ branches' = [b \in BranchIds |->
                    IF b \in Active THEN [branches[b] EXCEPT !.state = "Pruned"]
                    ELSE branches[b]]
  /\ total_pruned' = total_pruned + Cardinality(Active)
  /\ UNCHANGED <<results, total_merged, given, charged, late>>

\* The reservation comes back in whatever state the branch is.
FailBranch(b) ==
  /\ Tolerated(b)
  /\ branches' = [branches EXCEPT ![b].state = "Failed"]
  /\ token_budget' = token_budget + branches[b].estimated
  /\ late' = late + Late(b)
  /\ UNCHANGED <<results, total_merged, total_pruned, given, charged>>

SpeculativeNext ==
  \/ \E n \in Additions : AddBudget(n)
  \/ \E list \in CandidateLists : Fork(list)
  \/ \E b \in BranchIds : StartBranch(b)
  \/ \E b \in BranchIds, output \in Outputs, spent \in Spent :
       CompleteBranch(b, output, spent)
  \/ Merge
  \/ PruneAllActive
  \/ \E b \in BranchIds : FailBranch(b)

SpeculativeSpec == SpeculativeInit /\ [][SpeculativeNext]_speculative_vars

-----------------------------------------------------------------------------
(* Properties *)

SpeculativeTypeOK ==
  /\ \A b \in BranchIds : branches[b] \in [estimated: Nat, state: BranchStates]
  /\ DOMAIN results \subseteq BranchIds
  /\ token_budget \in Nat
  /\ Len(charged) = Len(branches)

\* Tokens are in the budget, reserved by an active branch, or kept for one
\* that completed, and these are the tokens the engine was given: no order of
\* forks, completions, merges, failures and prunings loses any, and only a
\* call for a branch that is over can mint some. No more branches than allowed
\* are active, unless such a call has revived one.
TokensConserved ==
  LET held == token_budget + Reserved(Active)
              + MapThenSumSet(LAMBDA b : charged[b], BranchIds)
  IN  /\ SpeculativeTypeOK
      /\ held >= given
      /\ late = 0 => held = given /\ Cardinality(Active) <= MaxConcurrent

\* As long as no call reaches a branch that is over, a merge takes every
\* result there is and each distinct output among them once, and the counters
\* say how many branches were merged and how many pruned.
MergeExact ==
  late = 0 =>
    /\ DOMAIN results = InState({"Completed"})
    /\ \A b \in DOMAIN results :
         Cardinality({c \in Mergeable(TRUE) :
                        results[c].output = results[b].output}) = 1
    /\ total_merged = Cardinality(InState({"Merged"}))
    /\ total_pruned = Cardinality(InState({"Pruned"}))

=============================================================================
