CONSTANT WorkerCount = 3
SPECIFICATION Spec
INVARIANT IdleMeansNoneInside
