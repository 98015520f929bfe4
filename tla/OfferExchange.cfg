SPECIFICATION MCSpec
CONSTANTS
  Accounts = {worker, hirer, other}
  Workers = {worker}
  Bystanders = {other}
  Offers = {o1, o2}
  Requests = {r1, r2}
  Names = {n1, n2}
  None = None
  MaxEdits = 1
  MaxFaults = 1
SYMMETRY Symmetry
INVARIANTS ExchangeIffAccepted DecisionsAreAudited ConsentBehindEveryOffer CountMatchesDeliveries CopySentWasMailed MailMatchesThePage PendingCopyIsExplained ExchangeInv
PROPERTIES LifecycleSpec NoOfferPastAFreezeOrBlock NameIsWrittenOnce
