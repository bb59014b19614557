----------------------------- MODULE MCNightly -----------------------------
EXTENDS Nightly, TLC

\* Two products of one tenant, one of another that earns far more.
MCProductOf == [ph |-> "p", qh |-> "q", rh |-> "r"]
MCCompanyOf == [p |-> "ours", q |-> "ours", r |-> "theirs"]
MCIdOf == [p |-> 1, q |-> 2, r |-> 3]
MCDelivered == [ph |-> 5, qh |-> 1, rh |-> 2]

\* p and q earn 4 to 1, on the edge of class A; p's first sale makes a forecast
\* of 1.5, both one of 2, q's 0.5 and r's 1.
MCContent == [s1 |-> [pair |-> "ph", quantity |-> 3, price |-> 4],
              s2 |-> [pair |-> "ph", quantity |-> 1, price |-> 4],
              s3 |-> [pair |-> "qh", quantity |-> 1, price |-> 3],
              s4 |-> [pair |-> "rh", quantity |-> 2, price |-> 100]]

Symmetry == Permutations(Schedulers)
=============================================================================
