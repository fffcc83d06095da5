----------------------------- MODULE TokenBudget -----------------------------
(***************************************************************************)
(* The token budget of one agent (crates/lak-core/src/token_budget.rs): a  *)
(* hard limit, a reserve for priority requests and a rolling window.  The  *)
(* kernel only ever calls check_allocation; record_consumption, refund and *)
(* reset are the rest of the type's interface.  An answer is its amount,   *)
(* 0 for Denied: the soft limit decides only whether it is called Granted  *)
(* or Reduced, which the kernel does not look at.                          *)
(***************************************************************************)
EXTENDS Integers, Sequences, FiniteSetsExt, SequencesExt

CONSTANTS
  hard_limit,
  priority_reserve,
  window_duration,  \* in ticks of the clock
  Requests,         \* amounts asked for, recorded or refunded
  MaxConsumed,      \* bound of the model: record_consumption stops above it
  MaxEntries        \* bound of the model: entries in the window

ASSUME BudgetAssumption ==
  /\ hard_limit \in Nat /\ priority_reserve \in Nat
  /\ window_duration \in Nat \ {0}
  /\ Requests \subseteq Nat
  /\ MaxConsumed \in Nat /\ MaxEntries \in Nat

VARIABLES
  consumed,
  window,   \* the consumption window: the age and tokens of each entry
  api_calls \* TRUE: the operations that the kernel never calls are used too

vars == <<consumed, window, api_calls>>

max_per_window_Tuned == hard_limit \div 2
\* ConsumptionWindow::max_per_window as new() sets it; nothing changes it.
max_per_window == hard_limit

Monus(m, n) == IF m <= n THEN 0 ELSE m - n   \* saturating_sub
Tokens(w) == FoldSeq(LAMBDA e, sum : e.tokens + sum, 0, w)

\* The entries of the window, and those that retain keeps of a list of them.
Entries == [age: 0..window_duration, tokens: Nat]
Retained[w \in Seq(Entries)] ==
  IF w = <<>> THEN <<>>
  ELSE IF Last(w).age < window_duration THEN Append(Retained[Front(w)], Last(w))
       ELSE Retained[Front(w)]

Unexpired_Never(w) == w
\* retain(now.duration_since(t) < window_duration)
Unexpired(w) == Retained[w]

Init ==
  /\ consumed = 0
  /\ window = <<>>
  /\ api_calls \in BOOLEAN

-----------------------------------------------------------------------------
EffectiveRemaining_NoReserve(is_priority) == Monus(hard_limit, consumed)
\* What of the budget a request may use: priority requests see the reserve.
EffectiveRemaining(is_priority) ==
  LET remaining == Monus(hard_limit, consumed)
  IN  IF is_priority THEN remaining ELSE Monus(remaining, priority_reserve)

Grant_WindowIgnored(requested, is_priority) ==
  Min({requested, EffectiveRemaining(is_priority)})
\* What check_allocation grants; 0 when any of its three early returns denies.
Grant(requested, is_priority) ==
  LET window_available == Monus(max_per_window, Tokens(Unexpired(window)))
  IN  Min({requested, window_available, EffectiveRemaining(is_priority)})

\* A denial still expires old window entries.
CheckAllocation(requested, is_priority) ==
  LET grant == Grant(requested, is_priority)
  IN  /\ consumed' = consumed + grant
      /\ window' = IF grant = 0 THEN Unexpired(window)
                   ELSE Append(Unexpired(window), [age |-> 0, tokens |-> grant])
      /\ Len(window') <= MaxEntries

RecordConsumption(tokens) ==
  /\ consumed + tokens <= MaxConsumed
  /\ Len(window) < MaxEntries
  /\ consumed' = consumed + tokens
  /\ window' = Append(window, [age |-> 0, tokens |-> tokens])

\* The window keeps the refunded tokens.
Refund(tokens) ==
  /\ consumed' = Monus(consumed, tokens)
  /\ UNCHANGED window

Reset ==
  /\ consumed' = 0
  /\ window' = <<>>

\* Entries age; past the window their age no longer matters.
Tick ==
  /\ window' = [i \in DOMAIN window |-> [window[i] EXCEPT !.age = Min({@ + 1, window_duration})]]
  /\ UNCHANGED consumed

OtherCall ==
  \/ \E n \in Requests : RecordConsumption(n)
  \/ \E n \in Requests : Refund(n)
  \/ Reset

Next ==
  /\ \/ \E n \in Requests, p \in BOOLEAN : CheckAllocation(n, p)
     \/ api_calls /\ OtherCall
     \/ Tick
  /\ UNCHANGED api_calls

Spec == Init /\ [][Next]_vars

-----------------------------------------------------------------------------
(* Properties.                                                             *)

TypeOK ==
  /\ consumed \in Nat
  /\ window \in Seq(Entries)
  /\ api_calls \in BOOLEAN

\* Only record_consumption may overdraw the budget: a grant never does, and the
\* priority reserve is carved out for priority requests, so that no sequence of
\* grants to others reaches into it.
GrantsWithinBudget ==
  [][\A n \in Requests, p \in BOOLEAN :
       CheckAllocation(n, p) /\ consumed' > consumed =>
         consumed' <= IF p THEN hard_limit ELSE Monus(hard_limit, priority_reserve)]_vars

\* Whatever was refunded or recorded in between, a grant leaves the tokens of
\* the current window within the rate limit.
RateLimited ==
  [][\A n \in Requests, p \in BOOLEAN :
       CheckAllocation(n, p) /\ consumed' > consumed =>
         Tokens(Unexpired(window')) <= max_per_window]_vars

\* As long as nobody refunds or resets, the window never binds before the hard
\* limit does: a request gets all that the budget allows.  Kernel.tla's Grant
\* relies on this.  After a refund it fails: the window still counts the
\* refunded tokens.
WindowNeverBinds ==
  [][\A n \in Requests, p \in BOOLEAN :
       CheckAllocation(n, p) /\ ~api_calls =>
         consumed' - consumed = Min({n, EffectiveRemaining(p)})]_vars
=============================================================================
