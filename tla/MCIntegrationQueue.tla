-------------------------- MODULE MCIntegrationQueue --------------------------
(* TLC instances of IntegrationQueue. *)
EXTENDS IntegrationQueue, TLC

CONSTANTS p1, p2, q1, q2, change, addition, other

\* A queue that changes a file, adds one and changes another; two queues.
OneOrder == q1 :> <<change, addition, other>>
TwoOrders == (q1 :> <<change, addition>>) @@ (q2 :> <<other>>)

\* Nothing conflicts; the patches of a queue do; the second one and an edit do.
EachClash == {{}, {<<change, addition>>}, {<<addition, Hand>>}}
AcrossClash == {{<<addition, other>>}}

\* Nothing fails; everything may fail except recording an applied patch.
EachFaults == {{}, Locked \ {"record"}}
NoFaults == {{}}
RecordFaults == {{"record", "clean"}}

=============================================================================
