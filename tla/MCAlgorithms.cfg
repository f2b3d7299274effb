\* Every pure algorithm, over the inputs MCAlgorithms and MCDocuments name.
SPECIFICATION MCSpec
CONSTANTS
  PlanFields <- MCPlanFields
  Packages <- MCPackages
  Results <- MCResults
  Selections <- MCSelections
  Samples <- MCSamples
  QuartileValues <- MCQuartileValues
  Estimates <- MCEstimates
  Containers <- MCContainers
  PageReports <- MCPageReports
  Contrasts <- MCContrasts
  OtsuImages <- MCOtsuImages
  SauvolaImages <- MCSauvolaImages
  SauvolaParams <- MCSauvolaParams
  Masks <- MCMasks
  Limits = {1, 2, 4}
  PackedMasks <- MCPackedMasks
  Pages <- MCPages
  Settings <- MCSettings
  Rivals <- MCRivals
INVARIANTS PlansBind PagesAreExact ThresholdsAreRight PackedPageIsClean ScoresAgree
INVARIANTS PackagesAreLinked TextFollowsRevisions OutlinesAreTrees
CHECK_DEADLOCK FALSE
