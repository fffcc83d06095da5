------------------------------- MODULE Memory -------------------------------
(***************************************************************************)
(* The semantic memory of one agent: AgentMemoryStore with its TF-IDF      *)
(* index, its tiers, and the entry points of MemoryService, which keeps a  *)
(* store per agent, created by the agent's first chunk; the stores share   *)
(* nothing. Every call runs under the kernel's write lock and is one step. *)
(*                                                                         *)
(* A text is the set of its terms: how often a term occurs only changes    *)
(* the order of an answer, which is left out together with the cosine and  *)
(* the S-Clock score, so that a query may answer any top_k of the chunks   *)
(* that match and an eviction may take any chunk of a tier.                *)
(***************************************************************************)
EXTENDS Integers, FiniteSets

CONSTANTS
  ChunkIds,        \* chunk ids clients use
  Terms,           \* terms of at least two characters that occur in texts
  TopKs,           \* sizes of an answer clients ask for
  Thresholds,      \* values set_tier_thresholds is called with
  DefaultTiers,    \* TierThresholds::default
  MaxHits,         \* bound: accesses of a chunk
  MaxRestores      \* bound: stores of a chunk id that is indexed already

VARIABLES
  mem_open,        \* the agent has a store
  chunks,          \* AgentMemoryStore.chunks
  term_vectors,    \* TfIdfIndex.term_vectors
  doc_count,       \* TfIdfIndex.doc_count
  doc_freq,        \* TfIdfIndex.doc_freq; a term that is absent counts 0
  thresholds,      \* AgentMemoryStore.thresholds
  restores,        \* history: stores of a chunk id that was indexed already
  enforced,        \* history: limits of the tiers at the last store
  promoted         \* history: chunks a query moved into a tier since then

memory_vars == <<mem_open, chunks, term_vectors, doc_count, doc_freq,
                 thresholds, restores, enforced, promoted>>

MemoryTiers == {"Working", "ShortTerm", "LongTerm", "Archival"}
LimitedTiers == MemoryTiers \ {"Archival"}

\* A TierThresholds, and the sizes of an answer.
TierThresholds ==
  [short_hits: Nat, long_hits: Nat, max: [LimitedTiers -> Nat]]

ASSUME MemoryAssumption ==
  /\ DefaultTiers \in TierThresholds
  /\ Thresholds \subseteq TierThresholds
  /\ TopKs \subseteq Nat
  /\ MaxHits \in Nat

Stored == DOMAIN chunks

\* The set of chunks of f in a tier.
InTier(f, tier) == {id \in DOMAIN f : f[id].tier = tier}

With(f, id, value) ==
  [x \in DOMAIN f \cup {id} |-> IF x = id THEN value ELSE f[x]]
Without(f, id) == [x \in DOMAIN f \ {id} |-> f[x]]

Weight(b) == IF b THEN 1 ELSE 0
Least(m, n) == IF m < n THEN m ELSE n

MemoryInit ==
  /\ mem_open = FALSE
  /\ chunks = [id \in {} |-> 0]
  /\ term_vectors = [id \in {} |-> {}]
  /\ doc_count = 0
  /\ doc_freq = [t \in Terms |-> 0]
  /\ thresholds = DefaultTiers
  /\ restores = 0
  /\ enforced = DefaultTiers.max
  /\ promoted = [tier \in LimitedTiers |-> 0]

-----------------------------------------------------------------------------

\* What enforce_tier_limits demotes: as many of each tier as it has too many.
\* Mutant: one too few.
Evictions_OffByOne(f) ==
  {out \in SUBSET DOMAIN f :
     /\ out \cap InTier(f, "Archival") = {}
     /\ \A tier \in LimitedTiers :
          LET excess == Cardinality(InTier(f, tier)) - thresholds.max[tier] - 1
          IN  Cardinality(out \cap InTier(f, tier)) =
                IF excess > 0 THEN excess ELSE 0}

Evictions(f) ==
  {out \in SUBSET DOMAIN f :
     /\ out \cap InTier(f, "Archival") = {}
     /\ \A tier \in LimitedTiers :
          LET excess == Cardinality(InTier(f, tier)) - thresholds.max[tier]
          IN  Cardinality(out \cap InTier(f, tier)) =
                IF excess > 0 THEN excess ELSE 0}

\* The index adds the text without taking out what the id had before; the
\* client chooses the tier and the access count of the chunk it sends.
StoreMemory(id, terms, tier, hits) ==
  /\ id \in Stored => restores < MaxRestores
  /\ mem_open' = TRUE
  /\ doc_freq' = [t \in Terms |-> doc_freq[t] + Weight(t \in terms)]
  /\ term_vectors' = With(term_vectors, id, terms)
  /\ doc_count' = doc_count + 1
  /\ LET added == With(chunks, id, [terms |-> terms, tier |-> tier, hits |-> hits])
     IN  \E out \in Evictions(added) :
           chunks' = [x \in DOMAIN added |->
                        IF x \in out THEN [added[x] EXCEPT !.tier = "Archival"]
                        ELSE added[x]]
  /\ restores' = restores + Weight(id \in Stored)
  /\ enforced' = thresholds.max
  /\ promoted' = [t \in LimitedTiers |-> 0]
  /\ UNCHANGED thresholds

-----------------------------------------------------------------------------

\* The inverse document frequency is positive, so that the cosine is, when
\* the text and the query have a term in common.
Ranked(terms, top_k) ==
  LET matching == {id \in DOMAIN term_vectors : term_vectors[id] \cap terms # {}}
  IN  {answer \in SUBSET matching :
         Cardinality(answer) = Least(top_k, Cardinality(matching))}

NewTier(tier, hits) ==
  CASE tier = "Working" /\ hits >= thresholds.short_hits  -> "ShortTerm"
    [] tier = "ShortTerm" /\ hits >= thresholds.long_hits -> "LongTerm"
    [] OTHER -> tier

Accessed(chunk) ==
  [chunk EXCEPT !.hits = @ + 1, !.tier = NewTier(@, chunk.hits + 1)]

\* A query counts an access of every chunk it answers and may promote it; no
\* limit is enforced afterwards. Without a store the answer is empty.
QueryMemory(terms, top_k) ==
  /\ mem_open
  /\ \E answer \in Ranked(terms, top_k) :
       /\ \A id \in answer : chunks[id].hits < MaxHits
       /\ chunks' = [id \in Stored |->
                       IF id \in answer THEN Accessed(chunks[id]) ELSE chunks[id]]
       /\ promoted' =
            [tier \in LimitedTiers |->
               promoted[tier] + Cardinality({id \in answer :
                 /\ chunks[id].tier # tier
                 /\ NewTier(chunks[id].tier, chunks[id].hits + 1) = tier})]
  /\ UNCHANGED <<mem_open, term_vectors, doc_count, doc_freq, thresholds,
                 restores, enforced>>

\* Mutant: removing a document keeps the frequencies of its terms.
FrequenciesWithout_Kept(id) == doc_freq

\* The subtraction saturates.
FrequenciesWithout(id) ==
  [t \in Terms |-> IF t \in term_vectors[id] /\ doc_freq[t] > 0
                   THEN doc_freq[t] - 1 ELSE doc_freq[t]]

ForgetMemory(id) ==
  /\ id \in DOMAIN term_vectors
  /\ doc_freq' = FrequenciesWithout(id)
  /\ term_vectors' = Without(term_vectors, id)
  /\ doc_count' = IF doc_count > 0 THEN doc_count - 1 ELSE 0
  /\ chunks' = Without(chunks, id)
  /\ UNCHANGED <<mem_open, thresholds, restores, enforced, promoted>>

\* New limits are enforced by the next store.
SetTierThresholds(new) ==
  /\ mem_open
  /\ thresholds' = new
  /\ UNCHANGED <<mem_open, chunks, term_vectors, doc_count, doc_freq,
                 restores, enforced, promoted>>

MemoryNext ==
  \/ \E id \in ChunkIds, terms \in SUBSET Terms, tier \in MemoryTiers,
        hits \in {0, MaxHits} :
       StoreMemory(id, terms, tier, hits)
  \/ \E terms \in SUBSET Terms, top_k \in TopKs : QueryMemory(terms, top_k)
  \/ \E id \in ChunkIds : ForgetMemory(id)
  \/ \E new \in Thresholds : SetTierThresholds(new)

MemorySpec == MemoryInit /\ [][MemoryNext]_memory_vars

-----------------------------------------------------------------------------
(* Properties *)

MemoryTypeOK ==
  /\ Stored \subseteq ChunkIds
  /\ \A id \in Stored : chunks[id] \in
       [terms: SUBSET Terms, tier: MemoryTiers, hits: 0 .. MaxHits]
  /\ doc_count \in Nat
  /\ doc_freq \in [Terms -> Nat]

WithTerm(t) == Cardinality({id \in Stored : t \in chunks[id].terms})

\* The index never loses sight of a stored chunk, whatever is stored twice,
\* forgotten or asked: it holds the text of exactly the chunks stored, and no
\* term occurs in more documents than are counted, so that no weight turns
\* negative. The count of documents is ahead by one for every chunk stored
\* over another, and if none was, both counts are exact.
IndexExact ==
  /\ MemoryTypeOK
  /\ DOMAIN term_vectors = Stored
  /\ \A id \in Stored : term_vectors[id] = chunks[id].terms
  /\ doc_count = Cardinality(Stored) + restores
  /\ \A t \in Terms : doc_freq[t] \in WithTerm(t) .. doc_count
  /\ restores = 0 => \A t \in Terms : doc_freq[t] = WithTerm(t)

\* A tier holds no more chunks than its limit at the last store and those
\* that queries have promoted into it since.
TiersBounded ==
  \A tier \in LimitedTiers :
    Cardinality(InTier(chunks, tier)) <= enforced[tier] + promoted[tier]

=============================================================================
