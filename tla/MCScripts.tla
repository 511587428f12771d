------------------------------ MODULE MCScripts ------------------------------
(***************************************************************************)
(* Instances of Scripts for TLC: the tests of HW4Test.cpp in any order,    *)
(* and main.c before one of them.                                          *)
(***************************************************************************)
EXTENDS Scripts

MCHighest == [c \in Code |-> IF c = illegal THEN 50 ELSE 4]

HW4Tests == {"BasicMasterBringUp", "SimpleGameTest", "BreakerWriteEIOTest",
             "SignalInterruptTest"}

MCOrders == {<<s, t, u>> : s \in HW4Tests, t \in HW4Tests, u \in HW4Tests \cup {"main"}}
MCMainFirst == {<<"main", "SimpleGameTest">>}
=============================================================================
