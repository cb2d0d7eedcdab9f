--------------------------- MODULE MCProcessGroup ---------------------------
(***************************************************************************)
(* Three ranks and, per behaviour, one menu of calls: each menu is the     *)
(* smallest set of calls in which one kind of agreement can go wrong.      *)
(* Processes that cannot form a group make no calls.                       *)
(***************************************************************************)
EXTENDS GroupSession

Op(name, root, reduction) == [name |-> name, root |-> root, reduction |-> reduction]
T(value) == [shape |-> "a", float |-> TRUE, value |-> value]
Other == [shape |-> "b", float |-> TRUE, value |-> 3]
Whole(value) == [shape |-> "a", float |-> FALSE, value |-> value]

Coll(o, ts) == [kind |-> "collective", operation |-> o, error |-> FALSE, tensors |-> ts,
                bytes |-> <<>>, identical |-> FALSE]
BytesCall(b, same) == [Coll(Op("Bytes", 0, "Sum"), <<>>) EXCEPT !.bytes = b, !.identical = same]
Barrier == Coll(Op("Barrier", 0, "Sum"), <<>>)
SendTo(q, tag) == [kind |-> "send", peer |-> q, tag |-> tag]
RecvFrom(q, tag) == [kind |-> "recv", peer |-> q, tag |-> tag]

AllReduce(op, t) == Coll(Op("AllReduce", 0, op), <<t>>)

Menu(n, cs) == [each |-> n, calls |-> cs]

NoCalls == Menu(0, {})

MCMenus == {NoCalls,
    \* two programs that may differ, and a rank whose own input is wrong
    Menu(3, {Barrier, AllReduce("Sum", T(3)), [Barrier EXCEPT !.error = TRUE]}),
    \* one stream shared by collectives and point-to-point calls
    Menu(3, {Barrier, SendTo(0, 1), RecvFrom(1, 1), RecvFrom(1, 2)}),
    Menu(3, {SendTo(1, 1), SendTo(1, 2), RecvFrom(0, 1), RecvFrom(2, 1)}),
    Menu(2, {SendTo(0, 1), SendTo(1, 1), RecvFrom(0, 1), RecvFrom(1, 1)}),
    Menu(2, {Barrier, SendTo(1, 1), RecvFrom(0, 1), AllReduce("Max", T(6))}),
    \* metadata that must be identical, and too many bytes
    Menu(1, {BytesCall(<<"x">>, TRUE), BytesCall(<<"y">>, TRUE),
             BytesCall(<<"x", "y", "x", "y">>, FALSE)})}
    \cup {Menu(1, {AllReduce(op, T(3)), AllReduce(op, T(-6))}) : op \in Reductions}
    \cup {Menu(1, {Coll(Op(name, root, "Max"), <<T(v)>>) : v \in {0, 3}, root \in {1, 3}}) :
            name \in {"Broadcast", "Reduce", "Gather"}}
    \cup {Menu(1, {AllReduce("Mean", Whole(3)), AllReduce("Mean", T(3)), AllReduce("Mean", Other)}),
          Menu(1, {Coll(Op("AllGather", 0, "Sum"), <<T(v)>>) : v \in {0, 3, 6}}),
          Menu(1, {Coll(Op("Scatter", 2, "Sum"), ts) : ts \in {<<>>, <<T(0), T(3), T(6)>>}}),
          Menu(1, {Coll(Op("ReduceScatter", 0, "Min"), ts) :
                    ts \in {<<T(0), T(3), T(6)>>, <<T(3), T(3), T(0)>>}}),
          Menu(1, {Coll(Op("AllToAll", 0, "Sum"), ts) :
                    ts \in {<<T(0), T(3), T(6)>>, <<T(3), T(6), T(0)>>}})}

Claim(rank, settings) == [rank |-> rank, settings |-> settings]
Claims(ranks) == [p \in 0 .. Len(ranks) - 1 |-> Claim(ranks[p + 1], "s")]

ProperClaims == Claims(<<0, 1, 2>>)

\* Two processes that claim one rank, another session, and a foreigner
OddClaims == {
    Claims(<<0, 1, 2, 2>>), Claims(<<0, 1, 2, 1>>), Claims(<<0, 1, 1>>),
    [ProperClaims EXCEPT ![2].settings = "t"],
    Claims(<<0, 1, 2>>) @@ (3 :> Claim(1, "t"))}

MCSessions ==
    [claims : {ProperClaims}, menu : MCMenus] \cup [claims : OddClaims, menu : {NoCalls}]
=============================================================================
