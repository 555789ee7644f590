SPECIFICATION Spec
CONSTANT MaxPdus = 3
PROPERTY WmInitIsCalled
CHECK_DEADLOCK FALSE
