SPECIFICATION Spec
CONSTANT Colour = {0, 1, 2}
CHECK_DEADLOCK FALSE
INVARIANT TypeOK
INVARIANT ResultFits
INVARIANT WinsIfEqual
INVARIANT MarksOfGuess
