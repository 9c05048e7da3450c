--------------------------------- MODULE Keys ---------------------------------
(***************************************************************************)
(* How a benchmark operation names what it writes (pkg/utils/random.go and *)
(* the loops of internal/redis/operations.go).  A name is a sequence of    *)
(* digits; the alphabets of random strings and of counters, 62 letters and *)
(* 36, are one small alphabet here.  Of a tagged key, "{body}suffix", the  *)
(* body is one value: ComposeTaggedKeyWithCounter cuts or pads it to the   *)
(* room that the key size leaves.                                          *)
(***************************************************************************)
EXTENDS Integers, Sequences, FiniteSets

CONSTANTS Base,         \* the size of the alphabet
          KeySize,      \* Test.KeySize
          BatchSize,    \* Test.BatchSize, or ZSetBatchSize
          Bodies        \* what remains of a hash-slot tag in a key

ASSUME KeysAssumption ==
  /\ Base \in Nat /\ Base >= 2
  /\ KeySize \in Nat \ {0} /\ BatchSize \in Nat \ {0}

Digits == 0..(Base - 1)

\* A number, divided by Base again and again, as FormatInt does.
Quotients(n) ==
  LET quotient[k \in Nat] == IF k = 0 THEN n ELSE quotient[k - 1] \div Base
  IN  quotient

\* The rightmost width digits of n, padded with zeros.
Base36Padded(n, width) == [k \in 1..width |-> Quotients(n)[width - k] % Base]

\* Bug: the digit that is left in the end is not counted.
Base36WidthTooSmall(n) ==
  CHOOSE w \in 1..(n + 1) :
    Quotients(n)[w] < Base /\ \A v \in 1..(w - 1) : Quotients(n)[v] >= Base

\* The number of digits of n, and 1 for 0.
Base36WidthForMax(n) ==
  CHOOSE w \in 1..(n + 1) :
    Quotients(n)[w] = 0 /\ \A v \in 1..(w - 1) : Quotients(n)[v] # 0

RandomStrings(length) == [1..length -> Digits]

ComposeTaggedKeyWithCounter(body, suffixLen, counter) ==
  <<body>> \o Base36Padded(counter, suffixLen)

DefaultTaggedSuffixLen == 2
CounterPadLen == 1

\* The keys of a tagged MSET: the counter is as wide as the batch needs.
TaggedKeys(body) ==
  [i \in 1..BatchSize |->
     ComposeTaggedKeyWithCounter(body, Base36WidthForMax(BatchSize - 1), i - 1)]

\* The keys of an untagged MSET, from the strings that were drawn: one that is
\* there already gets the last digit of its number instead of its own last.
UntaggedKeys(drawn) ==
  LET keys[n \in 0..BatchSize] ==
        IF n = 0 THEN << >>
        ELSE LET key == drawn[n]
                 before == keys[n - 1]
             IN  Append(before,
                   IF \E i \in DOMAIN before : before[i] = key
                     THEN SubSeq(key, 1, Len(key) - 1) \o Base36Padded(n - 1, CounterPadLen)
                     ELSE key)
  IN  keys[BatchSize]

\* The fields of a hash.
Fields == {Base36Padded(i, Base36WidthForMax(BatchSize - 1)) : i \in 0..(BatchSize - 1)}

\* What a batch of keys comes to in the map that MSET is given.
KeySet(keys) == {keys[i] : i \in DOMAIN keys}

\* All the batches that one operation may choose for its keys.
MSetKeys(tagged) ==
  IF tagged THEN {KeySet(TaggedKeys(b)) : b \in Bodies}
            ELSE {KeySet(UntaggedKeys(d)) : d \in [1..BatchSize -> RandomStrings(KeySize)]}

HashKeys(tagged) ==
  IF tagged THEN {ComposeTaggedKeyWithCounter(b, DefaultTaggedSuffixLen, 0) : b \in Bodies}
            ELSE RandomStrings(KeySize)
=============================================================================
