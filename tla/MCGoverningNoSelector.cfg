\* A governing service without a selector passes EnsureCustomGoverningService.
CONSTANTS
  Pods <- MCPods
  DiscoveryAnswers <- MCDiscoveryAnswers
  Resources <- MCResources
  GovAnswers <- MCGovAnswers
  LabelSets <- LabelMaps
  DNSConfigs <- MCDNSConfigs
  DNSPolicies <- MCDNSPolicies
  FinalizerLists <- MCFinalizerLists
  ClusterConfigs <- MCClusterConfigs
  Environments <- MCEnvironments
  KindAnswers <- MCKindAnswers
  Nil = Nil

SPECIFICATION Spec

INVARIANT AcceptedServiceHasSelector
