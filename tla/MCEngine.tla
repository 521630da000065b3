------------------------------ MODULE MCEngine ------------------------------
EXTENDS Engine, TLC

CONSTANTS t1, t2, t3, base, user, badCel, badPool

NoHost == [t \in Threads |-> NoThread]

\* t3 is a call that Python code run by t1 makes.
T3OnT1 == [t \in Threads |-> IF t = t3 THEN t1 ELSE NoThread]

ThreadSymmetry == Permutations(Threads)

\* user imports base; the CEL environment refuses badCel, which imports base;
\* the pool refuses badPool, which imports user.
TwoImports == (base :> {}) @@ (user :> {base})
ThreeImports == TwoImports @@ (badCel :> {base})
FourImports == ThreeImports @@ (badPool :> {user})
=============================================================================
