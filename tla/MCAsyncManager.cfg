CONSTANT Task = {t1, t2, t3}
SPECIFICATION FairSpec
INVARIANTS TypeOK ResultsMatchFutures
PROPERTIES NormalReturnWaits CallsEnd ImplementsForkJoin
