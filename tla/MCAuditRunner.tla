---------------------------- MODULE MCAuditRunner ----------------------------
(* A check that asks the bot, or the two that do not, with one request that *)
(* executes them once more.                                                 *)
EXTENDS AuditRunner

UpToTwo == {<<"integration">>, <<"consistency">>, <<"data_quality", "storage">>}

SomeObserved ==
    [integration  |-> {[trades |-> 0, signals |-> 1, duplicates |-> 0]},
     consistency  |-> {[net |-> 5, gross |-> 16, fees |-> 5, wins |-> 1]},
     data_quality |-> {[impossible |-> 0, nulls |-> 0, future |-> 0, snapshots |-> 9, outliers |-> 1],
                       [impossible |-> 1, nulls |-> 1, future |-> 0, snapshots |-> 9, outliers |-> 0]},
     storage      |-> {[disk |-> 60, today |-> 4, yesterday |-> 8],
                       [disk |-> 92, today |-> 4, yesterday |-> 0]}]

=============================================================================
