----------------------------- MODULE PairBuckets -----------------------------
(***************************************************************************)
(* PairBuckets: pieces waiting for the other half of their second.  The    *)
(* dictionary is a total function from keys to sequences; an absent key is *)
(* the empty sequence, as in _buckets.get(key, []).                        *)
(***************************************************************************)
EXTENDS Naturals, Sequences

NoBuckets(Key) == [k \in Key |-> <<>>]

(* Faulty variants: matched with one piece too many, or with one too few.   *)
Put_LateMatch(b, k, item) ==
    LET bucket == Append(b[k], item)
    IN  IF Len(bucket) > 2
        THEN [buckets |-> [b EXCEPT ![k] = <<>>], paired |-> bucket]
        ELSE [buckets |-> [b EXCEPT ![k] = bucket], paired |-> <<>>]

Put_Unmatched(b, k, item) == [buckets |-> b, paired |-> <<item>>]

(* put: the second piece of a key empties the bucket and returns the pair.  *)
Put(b, k, item) ==
    LET bucket == Append(b[k], item)
    IN  IF Len(bucket) >= 2
        THEN [buckets |-> [b EXCEPT ![k] = <<>>], paired |-> bucket]
        ELSE [buckets |-> [b EXCEPT ![k] = bucket], paired |-> <<>>]

(* pop_all_remaining: what is left, one list per key.  The order is the     *)
(* dictionary's insertion order, which is left open here.                   *)
Remaining(b) == {b[k] : k \in {x \in DOMAIN b : b[x] # <<>>}}

=============================================================================
