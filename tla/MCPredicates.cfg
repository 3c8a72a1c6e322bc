\* Every small decision of k8sutil on every answer of the API server.
CONSTANTS
  Pods <- MCPods
  DiscoveryAnswers <- MCDiscoveryAnswers
  Resources <- MCResources
  GovAnswers <- MCGovAnswers
  LabelSets <- LabelMaps
  DNSConfigs <- MCDNSConfigs
  DNSPolicies <- MCDNSPolicies
  FinalizerLists <- MCFinalizerLists
  ClusterConfigs <- MCClusterConfigs
  Environments <- MCEnvironments
  KindAnswers <- MCKindAnswers
  Nil = Nil

SPECIFICATION Spec
INVARIANT PodReadinessReported
INVARIANT DiscoveryDistinguishesUnsupported
INVARIANT GoverningServiceSelectsPods
INVARIANT ClusterConfigFromHost
