SPECIFICATION Spec
INVARIANT OffMeansOff
