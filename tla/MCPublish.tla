------------------------------ MODULE MCPublish ------------------------------
EXTENDS PublishFlow, TLC

CONSTANTS f1, f2, a, b, c, d, m1, m2, g

TheSubs == {<<f1, a>>, <<f1, b>>, <<f2, b>>, <<f1, c>>, <<f1, d>>}
TheGroups == [s \in TheSubs |-> IF s[2] \in {c, d} THEN g ELSE NoGroup]
TheNoLocal == {<<f2, b>>}
ThePublisher == (m1 :> b) @@ (m2 :> a)
TheSubscribes == [x \in Clients |-> IF x = d THEN 1 ELSE 2]
TheCasts == {{a, m1, m2}, {b, m1}, {b, m2}, {c, d, m1}, {a, c, m2}}
=============================================================================
