SPECIFICATION Spec

CONSTANTS
  Proc = {p1, p2}
  Acct = {a1, a2}
  Amount <- EnteredAmounts
  Unit = 2
  MaxOps = 4
  MaxKills = 2

INVARIANTS
  OverdrawnAsEntered
  Reconciles
  GapWithinKills
