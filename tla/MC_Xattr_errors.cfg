\* Violation run: a failed fgetxattr or flistxattr is replied as an empty value, and a length query as 0.
CONSTANTS
    Lengths = {0, 1, 2, 3, 4, 5, 6, 7, 8}
    Sizes = {0, 1, 2, 3, 4, 5, 6, 7, 8}
    NoAttr = NoAttr
SPECIFICATION Spec
INVARIANT RepliesMatch
