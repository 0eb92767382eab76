-------------------------------- MODULE Gsmd --------------------------------
(***************************************************************************)
(* gsmd.c: the hash table of the configured gsmds.  A chain is the         *)
(* sequence of the names on it, newest first; a gsmd_t pointer is a bucket *)
(* and a position on its chain.                                            *)
(***************************************************************************)
EXTENDS Integers, Sequences

CONSTANTS
  Names,       \* names of gsmds
  UHASH_SIZE,  \* number of buckets
  uhash        \* hash of a name

Bucket == 0 .. UHASH_SIZE - 1

ASSUME HashAssumption == UHASH_SIZE \in Nat \ {0} /\ uhash \in [Names -> Bucket]

EmptyTable == [b \in Bucket |-> <<>>]

NULL == <<>>

gsmd_hash(t, name) == [t EXCEPT ![uhash[name]] = <<name>> \o @]

\* Is there a gsmd of this name?
gsmd_get(t, name) ==
  \E k \in DOMAIN t[uhash[name]] : t[uhash[name]][k] = name

\* The first gsmd of the first chain from bucket b on that has one.
FirstFrom(t, b) ==
  LET used == {d \in Bucket : d >= b /\ t[d] # <<>>}
  IN  IF used = {} THEN NULL
      ELSE <<CHOOSE d \in used : \A e \in used : d <= e, 1>>

\* The static variable i is the bucket of the gsmd that was returned last.
gsmd_next_first(t, g) == FirstFrom(t, IF g = NULL THEN 0 ELSE g[1] + 1)
gsmd_next(t, g) ==
  IF g = NULL THEN FirstFrom(t, 0)
  ELSE IF g[2] < Len(t[g[1]]) THEN <<g[1], g[2] + 1>>
  ELSE FirstFrom(t, g[1] + 1)
=============================================================================
