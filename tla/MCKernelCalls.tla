---------------------------- MODULE MCKernelCalls ----------------------------
(***************************************************************************)
(* Small test modules for KernelCalls.                                     *)
(***************************************************************************)
EXTENDS KernelCalls

E(type, name, length) == [type |-> type, name |-> name, length |-> length]

Fixture(name, length, entries) ==
    [kind |-> "fixture", name |-> <<name, "@4">>, length |-> length, mangled |-> length + 1, valid |-> TRUE, definition |-> entries]

Other == [kind |-> "other", name |-> <<"DllMain", "">>, length |-> 2, mangled |-> 2, valid |-> FALSE,
          definition |-> <<>>]

\* All routines, out of order, with two test cases.
Full == Fixture("Full", 2, <<E("testcase", "t1", 1), E("after", "a", 2), E("setup", "s", 1),
                             E("before", "b", 1), E("testcase", "t2", 2), E("teardown", "d", 1)>>)

\* No routine but test cases: values are never reset.
Bare == Fixture("Bare", 1, <<E("testcase", "u1", 2), E("testcase", "u2", 1)>>)

Empty == Fixture("Empty", 1, <<>>)

Twice == Fixture("Twice", 1, <<E("setup", "s", 1), E("setup", "s2", 1)>>)

LongName == Fixture("LongName", 1, <<E("testcase", "long", 3)>>)

Invalid == [Bare EXCEPT !.valid = FALSE]

Verbose == [Bare EXCEPT !.length = 3, !.mangled = 4]

MCImages == {<<Bare, Invalid>>, <<Verbose>>, <<Other, Full, Bare>>, <<Empty, Other>>, <<Bare, Twice>>, <<LongName>>, <<Other>>}

With(a, e, d) == [assertion |-> a, exception |-> e, debugger |-> d]

MCSettings ==
    {With("continue", "continue", TRUE), With("abort", "break", FALSE),
     With("break", "continue", FALSE), With("breakAlways", "abort", FALSE)}

\* What other drivers do matters until the module is loaded: fixtures are run
\* from the states without them.
Undisturbed == phase # "load" => changes = 0 /\ registered = {Driver}
==============================================================================
