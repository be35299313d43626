SPECIFICATION MessageSpec
CONSTANT Sizes = {0, 1, 2}
INVARIANT BodyIsSet
