--------------------------- MODULE MCSecondFactors ---------------------------
EXTENDS SecondFactors

Id(id, length) == [id |-> id, length |-> length]
Ask(rpId, allow, uv) == [rpId |-> rpId, allow |-> allow, uv |-> uv]
MCRequests == {
    Ask("kc", <<Id("other", 1), Id("own", 2)>>, "preferred"), Ask("kc", <<>>, "preferred"),
    Ask("kc", <<Id("own", 2)>>, "required"), Ask("kc", <<Id("own", 2), Id("long", 4)>>, "preferred"),
    Ask("kc", <<Id("own", 2), Id("own", 2), Id("own", 2)>>, "preferred"),
    Ask("evil", <<Id("own", 2)>>, "preferred"), Ask("", <<Id("own", 2)>>, "preferred")}

\* The third code is the first one again: codes have few digits.
MCCodes  == {"755224", "287082", "359152"}
MCCodeAt == [n \in 0..3 |-> CASE n \in {0, 2} -> "755224" [] n = 1 -> "287082" [] OTHER -> "359152"]
=============================================================================
