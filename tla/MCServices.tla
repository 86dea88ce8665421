----------------------------- MODULE MCServices -----------------------------
EXTENDS Services

CONSTANTS r1, r2, k1, t1, t2, c1, c2, c3
MCRequest == {r1, r2}
\* One cell without packages, one with some of the other's.
MCPackages(c) == CASE c = c1 -> {"numpy"} [] c = c2 -> {"numpy", "pandas"} [] OTHER -> {}
MCKey     == {k1}
MCToken   == {t1, t2}
\* One entry grants both providers, one grants and configures the second.
MCOf == [e \in Entry |-> IF e = "platform" THEN {"free", "keyed"} ELSE {"keyed"}]
\* 15 minutes, 1, 6 and 24 hours, in steps.
MCDelay == [i \in 0..3 |-> i + 1]
=============================================================================
