SPECIFICATION Spec
CONSTANT Scenarios <- DupHello
CHECK_DEADLOCK FALSE
PROPERTY DuplicateHelloIsIdempotent
