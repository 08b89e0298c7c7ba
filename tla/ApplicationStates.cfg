SPECIFICATION FairSpec
CONSTANTS
  State <- MCState
  WordOf <- MCWordOf
  NumWords = 2
  MaxTimeouts = 2
  MaxTimeout = 2
INVARIANTS SlotsConsistent  CallbacksTruthful
PROPERTY TimesOut
