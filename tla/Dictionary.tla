----------------------------- MODULE Dictionary -----------------------------
(***************************************************************************)
(* What jpht/include/hashtable.h promises: a set of entries with at most   *)
(* one for each key.  Put returns the entry it displaces, Remove the entry *)
(* it took out.  An enumeration calls back once for every entry that is in *)
(* the table when it starts, also if the callback removes the entry it is  *)
(* called for.  A resize does not change the entries.                      *)
(***************************************************************************)
CONSTANTS Entries, Keys, KeyOf, Null

VARIABLES
    entries,  \* the entries in the table
    result,   \* OldEntry, or the entry that Get returned
    todo,     \* the entries an enumeration has still to call back for
    busy      \* an enumeration is in progress

dictVars == <<entries, result, todo, busy>>

WithKey(k) == {e \in entries : KeyOf[e] = k}

Only(set) == IF set = {} THEN Null ELSE CHOOSE e \in set : TRUE

DictInit == entries = {} /\ result = Null /\ todo = {} /\ busy = FALSE

DictPut(e) ==
    /\ ~ busy
    /\ result' = Only(WithKey(KeyOf[e]))
    /\ entries' = (entries \ WithKey(KeyOf[e])) \cup {e}
    /\ UNCHANGED <<todo, busy>>

DictGet(k) ==
    /\ ~ busy
    /\ result' = Only(WithKey(k))
    /\ UNCHANGED <<entries, todo, busy>>

DictRemove(k) ==
    /\ ~ busy
    /\ result' = Only(WithKey(k))
    /\ entries' = entries \ WithKey(k)
    /\ UNCHANGED <<todo, busy>>

DictStart == ~ busy /\ busy' = TRUE /\ todo' = entries /\ UNCHANGED <<entries, result>>

DictVisit(e) ==
    /\ busy /\ e \in todo
    /\ todo' = todo \ {e}
    /\ \/ UNCHANGED <<entries, result>>
       \/ entries' = entries \ {e} /\ result' = e
    /\ UNCHANGED busy

DictEnd == busy /\ todo = {} /\ busy' = FALSE /\ UNCHANGED <<entries, result, todo>>

\* Only an empty table may be deleted: its entries belong to the caller.
DictDelete == ~ busy /\ entries = {} /\ result' = Null /\ UNCHANGED <<entries, todo, busy>>

DictNext ==
    \/ \E e \in Entries : DictPut(e) \/ DictVisit(e)
    \/ \E k \in Keys : DictGet(k) \/ DictRemove(k)
    \/ DictStart \/ DictEnd \/ DictDelete

DictSpec == DictInit /\ [][DictNext]_dictVars
=============================================================================
