----------------------------- MODULE MCTreeCmd ------------------------------
EXTENDS TreeCmdLaws

TN(label, value, kids) == <<label, value, kids>>
Seg(label, pred) == [label |-> label, wild |-> FALSE, pred |-> pred]
Wild(pred) == [label |-> "*", wild |-> TRUE, pred |-> pred]
Whole == <<"none">>

MCForests ==
    {<<>>,
     <<TN(<<"a">>, <<"v">>, <<>>), TN(<<"a">>, <<>>, <<TN(<<"b">>, <<"v">>, <<>>)>>)>>,
     <<TN(<<>>, <<"w">>, <<TN(<<"a">>, <<>>, <<>>)>>), TN(<<"a">>, <<"w">>, <<>>)>>}

MCPaths ==
    {<<>>, <<Seg("a", Whole)>>, <<Seg("a", <<"index", 2>>)>>, <<Seg("a", <<"last">>)>>,
     <<Seg("a", <<"last+1">>)>>, <<Seg("a", <<"value", "v">>)>>, <<Seg("", Whole)>>,
     <<Seg("a", <<"child", <<Seg("b", Whole)>>, <<>>>>)>>,
     <<Wild(<<"child", <<Seg("b", Whole)>>, <<"v">>>>)>>,
     <<Seg("a", Whole), Seg("b", Whole)>>,
     <<Wild(Whole), Seg("b", <<"last">>)>>,
     <<Seg("b", Whole), Wild(Whole)>>}
=============================================================================
