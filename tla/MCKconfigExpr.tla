---------------------------- MODULE MCKconfigExpr -----------------------------
EXTENDS KconfigExpr

CONSTANTS B, T

BoolSyms == {B}
TriSyms  == {T}

\* Operands of the dependencies.
Atoms == {SymE(B), SymE(T), NotE(SymE(B)), NotE(SymE(T)),
          Cmp("eq", T, "y"), Cmp("eq", T, "m"), Cmp("neq", T, "n")}
Chained == {Two(op, e, f) : op \in Chains, e \in Atoms, f \in Atoms}
MenuAtoms == {SymE(B), SymE(T), NotE(SymE(T)), Cmp("neq", T, "n")}
MenuDeps == {None} \union {Two(op, e, f) : op \in Chains, e \in MenuAtoms, f \in MenuAtoms}
OtherDeps == {SymE(B), Two("and", SymE(T), SymE(B))}
Deps == {None} \union Atoms \union Chained \union {NotE(e) : e \in Chained}

\* The rounds of expr_eliminate_dups that KconfigExpr allows are enough.
ASSUME RoundsEnd == \A p \in MenuDeps \ {None}, d \in Chained : Rounds(AndE(p, Transform[d])).n = 0
=============================================================================
