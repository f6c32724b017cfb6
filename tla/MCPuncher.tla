----------------------------- MODULE MCPuncher -----------------------------
EXTENDS Puncher, TLC

TwoNodes == {1, 2}
ThreeNodes == {1, 2, 3}
SecondDialsFirst == {<<2, 1>>}
NoDials == {}
=============================================================================
