\* NewClusterConfig with a kubeconfig path other than $KUBECONFIG.
CONSTANTS
  Pods <- MCPods
  DiscoveryAnswers <- MCDiscoveryAnswers
  Resources <- MCResources
  GovAnswers <- MCGovAnswers
  LabelSets <- LabelMaps
  DNSConfigs <- MCDNSConfigs
  DNSPolicies <- MCDNSPolicies
  FinalizerLists <- MCFinalizerLists
  ClusterConfigs <- MCClusterConfigs
  Environments <- MCEnvironments
  KindAnswers <- MCKindAnswers
  Nil = Nil

SPECIFICATION Spec

INVARIANT KubeconfigPathHonoured
