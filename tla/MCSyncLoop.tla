----------------------------- MODULE MCSyncLoop -----------------------------
(***************************************************************************)
(* Instances of SyncLoop: two forks, "a" the one of the majority.          *)
(***************************************************************************)
EXTENDS SyncLoopProps, TLC

TwoForks == ("a" :> 5) @@ ("b" :> 3)
AllStarts == {Block(f, h) : f \in {"a", "b"}, h \in 1..3}
Tips == {Block("a", 5), Block("b", 3), Block("a", 2)}

Plan(syncs, moves, leaves, failures) ==
    [syncs |-> syncs, moves |-> moves, leaves |-> leaves, failures |-> failures]
\* Peers that stand still, one that moves, one that leaves, and peers that go
\* back and forth, one of them away for some of it, while the node only listens.
AllPlans == {Plan(1, 0, 0, 2), Plan(1, 1, 0, 1), Plan(1, 0, 1, 1), Plan(0, 3, 1, 0)}
=============================================================================
