SPECIFICATION Spec
CONSTANT Samples = {0, 250}
INVARIANT AverageOfFive
