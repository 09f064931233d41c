----------------------------- MODULE MCEditLease -----------------------------
EXTENDS EditLeaseProperties, TLC
CONSTANTS tab1, tab2, other, ann, bob
\* Two tabs of one user and one of another.
TwoUsers == [s \in {tab1, tab2, other} |-> IF s = other THEN bob ELSE ann]
\* The tabs of one user are interchangeable.
Tabs == Permutations({tab1, tab2})
\* A tab of each of two users.
TwoTabs == [s \in {tab1, other} |-> IF s = other THEN bob ELSE ann]
=============================================================================
