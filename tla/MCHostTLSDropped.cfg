\* NewClusterConfig with TLS settings and a host given as "name:port".
CONSTANTS
  Pods <- MCPods
  DiscoveryAnswers <- MCDiscoveryAnswers
  Resources <- MCResources
  GovAnswers <- MCGovAnswers
  LabelSets <- LabelMaps
  DNSConfigs <- MCDNSConfigs
  DNSPolicies <- MCDNSPolicies
  FinalizerLists <- MCFinalizerLists
  ClusterConfigs <- MCClusterConfigs
  Environments <- MCEnvironments
  KindAnswers <- MCKindAnswers
  Nil = Nil

SPECIFICATION Spec

INVARIANT HostTLSKept
