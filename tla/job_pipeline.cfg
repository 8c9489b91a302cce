CONSTANTS
  Order <- MCOrder
  File <- MCFile
SPECIFICATION Spec
INVARIANT PipelineTypeOK
INVARIANT PodsAreTies
INVARIANT AfterIsKept
PROPERTY RenderingEnds
INVARIANT AddressesAreServed
INVARIANT PlacedApart
INVARIANT NamesAreUnique
INVARIANT ReferencesAreThere
