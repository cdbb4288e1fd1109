CONSTANTS DB_CAPACITY = 8
MaxBatches = 3
Checksums = {1, 250}
SPECIFICATION Spec
INVARIANT TemperaturesIncrease
