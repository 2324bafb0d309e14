SPECIFICATION Spec
CONSTANTS
    a = a  b = b
    Certs = {a, b}
    None = None
INVARIANTS
    VerifiedOrDown
    Ipv6AsWanted
PROPERTIES
    LoadsAgain
