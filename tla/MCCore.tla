-------------------------------- MODULE MCCore --------------------------------
EXTENDS Core

Op(reads, writes, loads, stores) ==
    [reads |-> reads, writes |-> writes, loads |-> loads, stores |-> stores]

\* Every sequence of three of these is a program,
MCKinds == {
    Op(<<>>, {"r"}, <<>>, <<>>),
    Op(<<"r">>, {"s"}, <<>>, <<>>),
    Op(<<"r", "s">>, {"r"}, <<>>, <<>>),
    Op(<<>>, {"r"}, <<"x">>, <<>>),
    Op(<<"r">>, {"s"}, <<"x">>, <<>>),
    Op(<<>>, {}, <<"x", "y">>, <<>>),
    Op(<<"r">>, {}, <<>>, <<"x">>),
    Op(<<>>, {}, <<>>, <<"y">>),
    Op(<<"s">>, {}, <<"x">>, <<"x">>)}

\* and of four, and of five, of these.
MCStoring == {
    Op(<<>>, {"r"}, <<"x">>, <<>>),
    Op(<<"r">>, {}, <<>>, <<"x">>),
    Op(<<>>, {}, <<>>, <<"x", "y">>)}
MCLong == {
    Op(<<"r">>, {"r"}, <<"x">>, <<>>),
    Op(<<"r">>, {}, <<>>, <<"x">>)}

\* A store to two addresses, one of which is overwritten before an instruction
\* loads both.
MCPartly == {<<Op(<<>>, {}, <<>>, <<"x", "y">>), Op(<<>>, {}, <<>>, <<"x">>),
               Op(<<>>, {}, <<"x", "y">>, <<>>)>>}

MCAll == [1..3 -> MCKinds] \cup [1..4 -> MCStoring] \cup [1..5 -> MCLong] \cup MCPartly

\* A load that waits for a register, two stores that wait for what it loads,
\* and loads of the two addresses they store to: with as many instructions
\* in the scheduler as there are slots in the load queue, which are the sizes
\* of the code, the younger loads can take all slots.
MCBlocked == {<<Op(<<>>, {"r"}, <<>>, <<>>), Op(<<"r">>, {"s"}, <<"x">>, <<>>),
                Op(<<"s">>, {}, <<>>, <<"x">>), Op(<<"s">>, {}, <<>>, <<"y">>),
                Op(<<>>, {}, <<"x", "y">>, <<>>), Op(<<>>, {}, <<"x", "y">>, <<>>),
                Op(<<>>, {}, <<"x", "y">>, <<>>), Op(<<>>, {}, <<"x", "y">>, <<>>)>>}
=============================================================================
