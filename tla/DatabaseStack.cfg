\* Two start/stop cycles and two client threads: a second allocation lets a
\* client's second read of stack_impl_ see a newer object than its test did.
CONSTANTS
    Clients = {c1, c2}
    Ports = {0, 8080}
    MaxAlloc = 2
SPECIFICATION Spec
INVARIANTS
    NoLeakedImpl
CHECK_DEADLOCK FALSE
