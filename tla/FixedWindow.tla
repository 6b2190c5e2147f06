----------------------------- MODULE FixedWindow -----------------------------
(***************************************************************************)
(* FixedWindowRateLimiter (src/http/admission-control.ts) as operators.    *)
(*                                                                         *)
(* A limiter is its #entries, a Map: a sequence of entries in the order in *)
(* which they were last set, at most one for each key.  Its options are a  *)
(* record [limit, window, maxKeys]; times are in the unit of its clock.    *)
(***************************************************************************)
EXTENDS Integers, Sequences

CONSTANTS
  Inspected,  \* how many entries one call of #pruneExpired looks at
  Second      \* units of the clock in a second

ASSUME InspectedAssumption == Inspected \in Nat \ {0}
ASSUME SecondAssumption == Second \in Nat \ {0}

\* Of a sequence, what is at the positions at, in its order.
Keep(seq, at) ==
  LET kept[i \in 0..Len(seq)] ==
        IF i = 0 THEN <<>>
        ELSE IF i \in at THEN Append(kept[i - 1], seq[i])
        ELSE kept[i - 1]
  IN kept[Len(seq)]

Without(entries, key) == Keep(entries, {i \in 1..Len(entries) : entries[i].key # key})
Has(entries, key) == \E i \in 1..Len(entries) : entries[i].key = key
Entry(entries, key) ==
  entries[CHOOSE i \in 1..Len(entries) : entries[i].key = key]

Least(a, b) == IF a <= b THEN a ELSE b
Most(a, b) == IF a >= b THEN a ELSE b

\* The window of an entry has not ended.
IsOpen(entry, now) == entry.resetAt > now

\* Mutant: one request too many is admitted.
IsOverFull(entry, options) == entry.count > options.limit

\* The window of an entry admits no more.
IsFull(entry, options) == entry.count >= options.limit

\* #pruneExpired: of the entries at the front, those that expired go.
PruneExpired(entries, now) ==
  Keep(entries, {i \in 1..Len(entries) : i > Inspected \/ IsOpen(entries[i], now)})

\* #makeRoom: entries leave at the front until there is room for one more.
MakeRoom(entries, maxKeys) ==
  SubSeq(entries, 1 + Most(0, Len(entries) - (maxKeys - 1)), Len(entries))

\* Mutant: the entry keeps its place.
KeepPlace(entries, entry) ==
  [i \in 1..Len(entries) |-> IF entries[i].key = entry.key THEN entry ELSE entries[i]]

\* #touch: the entry moves to the end.
Touch(entries, entry) == Append(Without(entries, entry.key), entry)

\* Mutant: seconds are rounded down.
RetryAfterFloor(resetAt, now, window) ==
  Most(1, Least(window, Most(1, resetAt - now)) \div Second)

\* #retryAfter, in seconds, rounded up.
RetryAfter(resetAt, now, window) ==
  LET remaining == Least(window, Most(1, resetAt - now))
  IN Most(1, (remaining + Second - 1) \div Second)

Admit(entries) == [entries |-> entries, allowed |-> TRUE, retryAfter |-> 0]
Refuse(entries, seconds) ==
  [entries |-> entries, allowed |-> FALSE, retryAfter |-> seconds]

\* consume: what the limiter decides about key, and what it remembers.
Consume(entries, key, now, options) ==
  LET pruned == PruneExpired(entries, now)
      old == Entry(pruned, key)
      new == [key |-> key, count |-> 1, resetAt |-> now + options.window]
  IN IF Has(pruned, key) /\ IsOpen(old, now)
     THEN IF IsFull(old, options)
          THEN Refuse(Touch(pruned, old), RetryAfter(old.resetAt, now, options.window))
          ELSE Admit(Touch(pruned, [old EXCEPT !.count = @ + 1]))
     ELSE Admit(Append(MakeRoom(Without(pruned, key), options.maxKeys), new))

\* reset.
Reset(entries, key) == Without(entries, key)

=============================================================================
