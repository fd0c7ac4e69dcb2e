------------------------------ MODULE HashTable ------------------------------
(***************************************************************************)
(* The hash table of jpht/jpht/hashtable.c, which the driver connection    *)
(* registry, the filament registry of the reflector and the sessions of    *)
(* cdiag are built on.  A bucket is the list of its entries.  The caller   *)
(* locks; only an enumeration is interleaved, with its own callback, and a *)
(* resize is a loop of steps.                                              *)
(***************************************************************************)
EXTENDS Naturals, Sequences, FiniteSets, SequencesExt, FiniteSetsExt

CONSTANTS
    Entries, Keys,
    KeyOf,         \* the key of an entry
    Hash,          \* Routines.Hash
    Sizes,         \* bucket counts to initialise and resize with
    Null

ASSUME HashAssumption ==
    /\ KeyOf \in [Entries -> Keys]
    /\ Hash \in [Keys -> Nat]
    /\ Sizes \subseteq Nat \ {0}
    /\ Null \notin Entries

VARIABLES
    buckets,   \* Data.Buckets
    count,     \* Data.EntryCount
    result,    \* OldEntry, or the entry that Get returned
    enum,      \* where an enumeration is
    old        \* OldBuckets of a resize: the entries it has still to copy

tableVars == <<buckets, count, result, enum, old>>

BucketCount == Cardinality(DOMAIN buckets)

NoEnum == [active |-> FALSE, bucket |-> 0, next |-> Null]

EmptyBuckets(n) == [i \in 0 .. n - 1 |-> <<>>]

NoBuckets == EmptyBuckets(0)

\* Neither an enumeration nor a resize is under way.
Idle == ~ enum.active /\ old = NoBuckets

TableTypeOK ==
    /\ \E n \in Sizes : buckets \in [0 .. n - 1 -> Seq(Entries)]
    /\ count \in Nat
    /\ result \in Entries \cup {Null}
    /\ enum \in [active : BOOLEAN, bucket : Nat, next : Entries \cup {Null}]
    /\ \E n \in Sizes \cup {0} : old \in [0 .. n - 1 -> Seq(Entries)]

\* JphtInitializeHashtable
TableInit ==
    /\ \E n \in Sizes : buckets = EmptyBuckets(n)
    /\ count = 0
    /\ result = Null
    /\ enum = NoEnum
    /\ old = NoBuckets

BucketOf(b, k) == Hash[k] % Cardinality(DOMAIN b)

Matches(list, k) == {i \in DOMAIN list : KeyOf[list[i]] = k}

\* The list without its i-th entry (RemoveEntryList).
Unlink(list, i) == SubSeq(list, 1, i - 1) \o SubSeq(list, i + 1, Len(list))

\* The list without the entries that have the key.
Without(list, k) ==
    LET kept[n \in 0 .. Len(list)] ==
          IF n = 0 THEN <<>>
          ELSE IF KeyOf[list[n]] = k THEN kept[n - 1] ELSE Append(kept[n - 1], list[n])
    IN  kept[Len(list)]

\* JphtPutEntryHashtable: every entry with the key is removed, the last one is
\* returned, the new one becomes the head of the list.
PutInto(table, e) ==
    LET i    == BucketOf(table.buckets, KeyOf[e])
        list == table.buckets[i]
        same == Matches(list, KeyOf[e])
    IN  [buckets |-> [table.buckets EXCEPT
                        ![i] = <<e>> \o Without(@, KeyOf[e])],
         count   |-> table.count - Cardinality(same) + 1,
         old     |-> IF same = {} THEN Null ELSE list[Max(same)]]

Table == [buckets |-> buckets, count |-> count, old |-> Null]

PutEntry(e) ==
    /\ Idle
    /\ LET after == PutInto(Table, e)
       IN  buckets' = after.buckets /\ count' = after.count /\ result' = after.old
    /\ UNCHANGED <<enum, old>>

\* The first entry with the key.
Find(k) ==
    LET list == buckets[BucketOf(buckets, k)]
        same == Matches(list, k)
    IN  IF same = {} THEN Null ELSE list[Min(same)]

\* JphtGetEntryHashtable
GetEntry(k) ==
    /\ Idle
    /\ result' = Find(k)
    /\ UNCHANGED <<buckets, count, enum, old>>

\* JphtRemoveEntryHashtable takes out the first entry with the key.
RemoveKey(k) ==
    LET i    == BucketOf(buckets, k)
        same == Matches(buckets[i], k)
    IN  IF same = {} THEN result' = Null /\ UNCHANGED <<buckets, count>>
        ELSE /\ result' = buckets[i][Min(same)]
             /\ buckets' = [buckets EXCEPT ![i] = Unlink(@, Min(same))]
             /\ count' = count - 1

RemoveEntry(k) == Idle /\ RemoveKey(k) /\ UNCHANGED <<enum, old>>

-----------------------------------------------------------------------------
\* JphtEnumerateEntries.

EnumerateEntries ==
    /\ Idle
    /\ enum' = [active |-> TRUE, bucket |-> 0, next |-> IF buckets[0] = <<>> THEN Null ELSE Head(buckets[0])]
    /\ UNCHANGED <<buckets, count, result, old>>

\* The end of a list: the next bucket.
NextBucket ==
    /\ enum.active /\ enum.next = Null
    /\ LET i == enum.bucket + 1
       IN  enum' = IF i = BucketCount THEN NoEnum
                   ELSE [enum EXCEPT !.bucket = i,
                                     !.next = IF buckets[i] = <<>> THEN Null ELSE Head(buckets[i])]
    /\ UNCHANGED <<buckets, count, result, old>>

\* Faulty variant: the next entry is looked up in the list the callback left.
SuccessorAfterCallback(before, after, e) ==
    LET i == CHOOSE n \in DOMAIN before : before[n] = e
    IN  IF i + 1 \in DOMAIN after THEN after[i + 1] ELSE Null

\* NextEntry is read before the callback, which may unlink the entry.
Successor(before, after, e) ==
    LET i == CHOOSE n \in DOMAIN before : before[n] = e
    IN  IF i + 1 \in DOMAIN before THEN before[i + 1] ELSE Null

\* The callback for an entry keeps it, or removes it by its key.
VisitEntry ==
    /\ enum.active /\ enum.next # Null
    /\ \/ RemoveKey(KeyOf[enum.next])
       \/ UNCHANGED <<buckets, count, result>>
    /\ enum' = [enum EXCEPT !.next =
                  Successor(buckets[enum.bucket], buckets'[enum.bucket], @)]
    /\ UNCHANGED old

-----------------------------------------------------------------------------
\* JphtResize.

\* Faulty variant: the number of entries is not reset.
ResizeKeepsCount(n) ==
    /\ Idle
    /\ old' = buckets
    /\ buckets' = EmptyBuckets(n)
    /\ UNCHANGED <<count, result, enum>>

\* The new buckets take the place of the old ones.
Resize(n) ==
    /\ Idle
    /\ old' = buckets
    /\ buckets' = EmptyBuckets(n)
    /\ count' = 0
    /\ UNCHANGED <<result, enum>>

\* The old buckets that are not yet empty.
Uncopied == {i \in DOMAIN old : old[i] # <<>>}

\* The entries, in the order of the old buckets, are put into the new ones.
CopyEntry ==
    /\ Uncopied # {}
    /\ LET i     == Min(Uncopied)
           after == PutInto(Table, Head(old[i]))
       IN  /\ buckets' = after.buckets /\ count' = after.count
           /\ old' = [old EXCEPT ![i] = Tail(@)]
    /\ UNCHANGED <<result, enum>>

\* The old buckets are freed.
ResizeEnds ==
    /\ old # NoBuckets /\ Uncopied = {}
    /\ old' = NoBuckets
    /\ UNCHANGED <<buckets, count, result, enum>>

\* Allocate failed: the table is as before.
ResizeFails(n) == Idle /\ UNCHANGED tableVars

\* JphtDeleteHashtable, which asserts that the table is empty, and a new table.
Delete(n) ==
    /\ Idle /\ count = 0
    /\ buckets' = EmptyBuckets(n)
    /\ result' = Null
    /\ UNCHANGED <<count, enum, old>>

TableNext ==
    \/ \E e \in Entries : PutEntry(e)
    \/ \E k \in Keys : GetEntry(k) \/ RemoveEntry(k)
    \/ EnumerateEntries \/ NextBucket \/ VisitEntry
    \/ \E n \in Sizes : Resize(n) \/ ResizeFails(n) \/ Delete(n)
    \/ CopyEntry \/ ResizeEnds

TableSpec == TableInit /\ [][TableNext]_tableVars

-----------------------------------------------------------------------------
(***************************************************************************)
(* Properties.                                                             *)
(***************************************************************************)

\* The entries in the lists of b, and the places they are at.
Elements(b) == UNION {Range(b[i]) : i \in DOMAIN b}
Places(b)   == UNION {{i} \X DOMAIN b[i] : i \in DOMAIN b}

Contents == Elements(buckets) \cup Elements(old)

\* The entries of the rest of the current list and of the lists after it.
Remaining ==
    IF ~ enum.active THEN {}
    ELSE LET list == buckets[enum.bucket]
         IN  (UNION {Range(buckets[i]) : i \in {j \in DOMAIN buckets : j > enum.bucket}})
             \cup (IF enum.next = Null THEN {}
                   ELSE {list[j] : j \in {n \in DOMAIN list :
                            \E m \in DOMAIN list : list[m] = enum.next /\ m <= n}})

D == INSTANCE Dictionary WITH entries <- Contents, todo <- Remaining, busy <- enum.active

\* The table implements the dictionary of its header: whatever the hash routine
\* and the history of resizes, what was put is found, what is displaced or
\* removed is returned to the caller who must free it, and an enumeration whose
\* callback removes entries calls back for each entry exactly once.
ImplementsDictionary == D!DictSpec

\* EntryCount, on which JphtDeleteHashtable asserts that the table is empty, is
\* the number of entries in the lists, and no two entries have the same key, also
\* while a resize counts the entries again.
CountsEntries ==
    /\ count = Cardinality(Places(buckets))
    /\ count = Cardinality({KeyOf[e] : e \in Elements(buckets)})
    /\ Cardinality(Places(buckets)) + Cardinality(Places(old)) = Cardinality({KeyOf[e] : e \in Contents})
=============================================================================
