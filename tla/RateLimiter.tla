----------------------------- MODULE RateLimiter -----------------------------
(***************************************************************************)
(* One FixedWindowRateLimiter over time: requests of clients consume,      *)
(* successful logins reset, the clock runs.  History variables tell what   *)
(* the clients saw, so that the properties can speak of that.              *)
(***************************************************************************)
EXTENDS FixedWindow, FiniteSets

CONSTANTS
  Keys,       \* clients, or accounts
  Limit, Window, MaxKeys,
  MaxClock    \* bound: when the clock stops

ASSUME OptionsAssumption ==
  /\ Limit \in Nat \ {0}
  /\ Window \in Nat \ {0}
  /\ MaxKeys \in Nat \ {0}

VARIABLES
  clock,      \* the time
  entries,    \* #entries
  recent,     \* history: recent[k]: <<n, time>> of the requests of k that were
              \* admitted in the last window, each the n-th that its entry
              \* counts, as far as the limiter did not have to forget k
  lastUse,    \* history: the keys in the order of their last request
  retryAt     \* history: retryAt[k]: when k was told to retry, 0 if it need not

limiterVars == <<clock, entries, recent, lastUse, retryAt>>

Options == [limit |-> Limit, window |-> Window, maxKeys |-> MaxKeys]

LimiterTypeOK ==
  /\ clock \in Nat
  /\ entries \in Seq([key : Keys, count : 1..Limit, resetAt : Nat])
  /\ \A i, j \in 1..Len(entries) : entries[i].key = entries[j].key => i = j
  /\ Len(entries) <= MaxKeys
  /\ recent \in [Keys -> SUBSET ((1..Limit) \X Nat)]
  /\ lastUse \in Seq(Keys)
  /\ retryAt \in [Keys -> Nat]

\* The limiter counts the requests of k.
Counts(k) == Has(entries, k) /\ IsOpen(Entry(entries, k), clock)

\* The keys a step makes the limiter forget before their time.
Forgotten(after) == {k \in Keys : Counts(k) /\ ~Has(after, k)}

\* The admissions that are younger than a window.
Last(times) == {t \in times : t[2] + Window > clock}

-----------------------------------------------------------------------------
LimiterInit ==
  /\ clock = 0
  /\ entries = <<>>
  /\ recent = [k \in Keys |-> {}]
  /\ lastUse = <<>>
  /\ retryAt = [k \in Keys |-> 0]

\* A request of client k is admitted or refused.
Request(k) ==
  LET answer == Consume(entries, k, clock, Options)
      admitted == <<Entry(answer.entries, k).count, clock>>
      known == [recent EXCEPT ![k] = IF answer.allowed THEN @ \cup {admitted} ELSE @]
  IN /\ entries' = answer.entries
     /\ recent' = [j \in Keys |-> IF j \in Forgotten(answer.entries)
                                  THEN {} ELSE Last(known[j])]
     /\ lastUse' = Append(Keep(lastUse, {i \in 1..Len(lastUse) : lastUse[i] # k}), k)
     /\ retryAt' = [retryAt EXCEPT ![k] =
                      IF answer.allowed THEN 0 ELSE clock + answer.retryAfter * Second]
     /\ UNCHANGED clock

\* A login of client k succeeded.
ResetKey(k) ==
  /\ Has(entries, k)
  /\ entries' = Reset(entries, k)
  /\ recent' = [recent EXCEPT ![k] = {}]
  /\ UNCHANGED <<clock, lastUse, retryAt>>

ClockTick ==
  /\ clock < MaxClock
  /\ clock' = clock + 1
  /\ UNCHANGED <<entries, recent, lastUse, retryAt>>

LimiterNext == ClockTick \/ \E k \in Keys : Request(k) \/ ResetKey(k)

LimiterSpec == LimiterInit /\ [][LimiterNext]_limiterVars

-----------------------------------------------------------------------------
(* Correctness *)

\* A client gets less than twice its limit through in any span as long as a
\* window, wherever the span starts: a window that ended still has the request
\* that opened it outside the span.
SlidingBound == \A k \in Keys : Cardinality(Last(recent[k])) <= 2 * Limit - 1

\* A client that waits as long as Retry-After told it to is admitted.
RetryIsEnough ==
  \A k \in Keys :
    retryAt[k] # 0 /\ clock >= retryAt[k] => Consume(entries, k, clock, Options).allowed

\* When the limiter has to forget a client before its window ends, it forgets
\* the one that has not asked for the longest time, refused or not.
ForgetsLeastRecent ==
  [][\A r, j, k \in Keys :
       Request(r) /\ j \in Forgotten(entries') /\ Counts(k) /\ Has(entries', k) =>
         \A m, n \in 1..Len(lastUse') :
           lastUse'[m] = j /\ lastUse'[n] = k => m < n]_limiterVars

\* README, "Issuance and public verification": public issuance is limited to
\* so many requests per IP and minute.  That minute is the limiter's window.
LimitPerWindow == \A k \in Keys : Cardinality(Last(recent[k])) <= Limit

=============================================================================
