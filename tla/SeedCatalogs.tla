---------------------------- MODULE SeedCatalogs ----------------------------
(* The catalogs generate-seed.ts writes for the three BPPs of the network. *)
EXTENDS BppCatalog, TLC

Published(resource, kind, modality, taskType, licenseClass, rows, text, full, sample) ==
  [resources |-> <<resource>>, kind |-> kind, modality |-> modality, taskType |-> taskType,
   licenseClass |-> licenseClass, rows |-> rows, text |-> text, full |-> full,
   sample |-> sample]

(* text: which of "churn", "housing", "shape", "model" a search finds in   *)
(* the names and the description of the offer.                             *)
BuildTabular ==
  [bppId |-> "bpp.tabular.local",
   offers |->
     "offer-churn-full" :> Published("ds-churn", "dataset", "tabular", "classification",
       "permissive", 3000, {"churn"}, "churn.csv", "churn.sample.csv")
     @@ "offer-housing-full" :> Published("ds-housing", "dataset", "tabular", "regression",
       "permissive", 2500, {"housing"}, "housing.csv", None)]

BuildImage ==
  [bppId |-> "bpp.vision.local",
   offers |->
     "offer-shapes-full" :> Published("ds-shapes", "dataset", "image", "classification",
       "permissive", 2000, {"shape"}, "shapes.ndjson", "shapes.sample.ndjson")]

BuildModels ==
  [bppId |-> "bpp.models.local",
   offers |->
     "offer-churn-logreg" :> Published("model-churn-logreg", "model", "tabular",
       "classification", "permissive", 0, {"churn"}, "churn-logreg.json", None)
     @@ "offer-shapes-mlp" :> Published("model-shapes-mlp", "model", "image",
       "classification", "research-only", 0, {"shape"}, "shapes-mlp.json", None)]
=============================================================================
