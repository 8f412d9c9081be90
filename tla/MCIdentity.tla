----------------------------- MODULE MCIdentity -----------------------------
(* A foreign company, an entry of the register whose name is nearly the    *)
(* same, a mention that is like both and has another number, and one that  *)
(* is a little like each.                                                  *)
EXTENDS Identity

CONSTANTS m1, m2, m3, m4, p, acme, acmes, ames, acne, n1, n2, gb, us

Fact(name, number, country) == [name |-> name, number |-> number, country |-> country]

Neighbours == [m \in Mentions |->
    CASE m = m1 -> Fact(acme, Unknown, us)
      [] m = m2 -> Fact(acmes, n1, gb)
      [] m = m3 -> Fact(ames, n2, Unknown)
      [] m = m4 -> Fact(acne, Unknown, Unknown)]

Alike == [x \in Names |-> [y \in Names |->
    CASE {x, y} = {acme, acmes} -> "held"
      [] acne \in {x, y}        -> "near"
      [] OTHER                  -> "auto"]]

=============================================================================
