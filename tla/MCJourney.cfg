CONSTANTS
  BPPs = {"bpp.tabular.local", "bpp.vision.local", "bpp.models.local", "bpp.sparse.local", "bpp.nameless.local"}
  Resources = {"ds-churn", "ds-housing", "ds-shapes", "model-churn-logreg", "model-shapes-mlp"}
  Offers = {"offer-churn-full", "offer-housing-full", "offer-shapes-full", "offer-churn-logreg", "offer-shapes-mlp"}
  Fields = {"f1"}
  Skew = 30
  None = None
  CatalogOf <- MCCatalogs
  Queries = {"churn", "housing", "shape", "model"}
  Messages <- MCMessages
  Scopes <- MCScopes
  Strays <- MCStrays
SPECIFICATION JourneySpec
INVARIANTS
  SearchHonoursIntent
  OfferedIsObtainable
  ServedIsOffered
CHECK_DEADLOCK FALSE
