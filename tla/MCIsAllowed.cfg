\* IsAllowed against its abstract specification, with failing reviews.
CONSTANTS
  NsInputs <- MCNsInputs
  AttrInputs <- MCAttrInputs
  GrantUniverse <- MCGrantUniverse
  Errors = TRUE
  NamespaceAll = ""

SPECIFICATION Spec
PROPERTY PermissionCheckSpec
