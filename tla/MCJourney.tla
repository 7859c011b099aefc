----------------------------- MODULE MCJourney -----------------------------
(* An instance of Journey for TLC: the network with its seed catalogs, and *)
(* two BPPs whose catalogs lack what the schema leaves optional.           *)
EXTENDS Journey, SeedCatalogs

(* One catalog with an offer over two resources, one without resources,    *)
(* one without a license class and one without a file.                     *)
Sparse ==
  [bppId |-> "bpp.sparse.local",
   offers |->
     "offer-churn-full" :> [BuildTabular.offers["offer-churn-full"] EXCEPT
        !.resources = <<"ds-churn", "ds-housing">>]
     @@ "offer-housing-full" :> [BuildTabular.offers["offer-housing-full"] EXCEPT
        !.resources = <<>>, !.rows = None]
     @@ "offer-shapes-mlp" :> [BuildModels.offers["offer-shapes-mlp"] EXCEPT
        !.licenseClass = None]
     @@ "offer-churn-logreg" :> [BuildModels.offers["offer-churn-logreg"] EXCEPT
        !.full = None]]

(* One that does not name its BPP.                                         *)
Nameless == [BuildImage EXCEPT !.bppId = None]

MCCatalogs ==
  "bpp.tabular.local" :> BuildTabular @@ "bpp.vision.local" :> BuildImage
  @@ "bpp.models.local" :> BuildModels
  @@ "bpp.sparse.local" :> Sparse @@ "bpp.nameless.local" :> Nameless

MCMessages ==
  [kind : {None, "dataset"}, modality : {None, "tabular", "hologram"},
   taskType : {None, "regression"}, licenseClass : {None, "research-only"},
   minRows : {None, 0, 2500, 2501}, query : {None, "churn"}, name : {None, "shape"}]

MCScopes ==
  { [kind |-> "full", fields |-> {}, maxDownloads |-> None],
    [kind |-> "sample", fields |-> {}, maxDownloads |-> 1],
    [kind |-> "subset", fields |-> {}, maxDownloads |-> None] }

MCStrays ==
  {<<"bpp.vision.local", "offer-churn-full">>, <<"bpp.tabular.local", "offer-shapes-full">>}
=============================================================================
