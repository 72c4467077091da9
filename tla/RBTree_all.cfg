CONSTANTS
    N = 6
    Locals = {l1}
SPECIFICATION Spec
INVARIANTS IsTheSetOfItsKeys RedBlack LinksAgree
PROPERTY OperationsEnd
