---------------------------- MODULE MCDiagnostics ----------------------------
(***************************************************************************)
(* The three parts of cdiag.  They share no state, so one of them moves    *)
(* while the others are at rest.                                           *)
(***************************************************************************)
EXTENDS MessageFormat, Diagnostics, ConfigStore, TLC

MCAlnum == {"a", "b", "c", "0"}

\* "a" abbreviates the first variable, "b" is not short for it.
MCNames == <<<<"a", "b">>, <<"c">>, <<"b">>>>
MCWords == {<<>>, <<"a">>, <<"b">>, <<"c", "c">>, <<"-", "b">>}

MCPackets ==
    [message : {<<>>, <<"m", "g">>}, module : {<<"x">>}, code : {"7", "8", "9"}]
    \cup [message : {<<"m">>}, module : {<<>>}, code : {"9"}]

\* A system message with a space, one too long for the resolver that a second
\* DLL has in a shorter form, and a code nobody knows.
MCTexts ==
    [s \in {"system", "d1", "d2"} |->
      [c \in {"7", "8", "9"} |->
        CASE s = "system" /\ c = "7" -> <<"s", " ", "t">>
          [] s = "d1" /\ c = "8"     -> <<"l", "o", "n", "g", "e", "r">>
          [] s = "d2" /\ c = "8"     -> <<"d", "\n">>
          [] OTHER                   -> <<>>]]

\* The session has two owners.
MCMaxOwned == [o \in Objects |-> IF o = "session" THEN 2 ELSE 1]

MCValues == {[type |-> "dword", length |-> 1], [type |-> "string", length |-> 2]}

\* Everything; no rights for the user's key; a user's key that is write only.
MCAccessModes ==
    {[machine |-> {"read", "write"}, user |-> {"read", "write"}],
     [machine |-> {"read"}, user |-> {}],
     [machine |-> {"read"}, user |-> {"write"}]}

Interchangeable == Permutations(Threads) \cup Permutations(Handlers) \cup Permutations(Formatters)

Init == FormatInit /\ DiagInit /\ StoreInit

Next ==
    \/ DiagInit /\ StoreInit /\ FormatNext /\ UNCHANGED <<diagVars, storeVars>>
    \/ FormatInit /\ StoreInit /\ DiagNext /\ UNCHANGED <<line, storeVars>>
    \/ FormatInit /\ DiagInit /\ StoreNext /\ UNCHANGED <<line, diagVars>>

Spec == Init /\ [][Next]_<<line, diagVars, storeVars>>
==============================================================================
