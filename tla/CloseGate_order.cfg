SPECIFICATION Spec
CONSTANTS
  i1 = i1  c1 = c1  x = x  y = y
  test = test  review = review
  h1 = h1  h2 = h2  t0 = t0  t1 = t1
  Invs <- MCInvs
  Crits <- MCCrits
  Authors <- MCAuthors
  Kinds <- MCKinds
  Review = review
  Commits <- MCCommits
  Trees <- MCTrees
  Clean = t0
  MaxRev = 2
  MaxEvidence = 2
  MaxViolations = 1
  MaxActs = 3
  Definitions <- MCDefinitions
SYMMETRY MCSymmetry
INVARIANT UpdateMakesStale
