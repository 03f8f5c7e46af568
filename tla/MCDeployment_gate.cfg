SPECIFICATION Spec
CONSTANTS
  a1 = a1
  r1 = r1
  r2 = r2
  Addresses = {a1}
  Codes <- TwoCodes
  Wants <- MCWants
  Contents = {"edited"}
  Reviewers = {r1, r2}
  MaxPlans = 2
SYMMETRY ReviewerSymmetry
INVARIANTS TypeOK AppliedAsSeen ViewForgetsNothing
