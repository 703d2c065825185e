SPECIFICATION Spec
CONSTANT IntBits = 6
INVARIANT QsortSorts
