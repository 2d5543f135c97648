CONSTANTS
    Bases = {0, 7, 170, 255}
SPECIFICATION Spec
CHECK_DEADLOCK FALSE
INVARIANTS FieldsArrive TagFound
PROPERTY IsidComesBack
