CONSTANTS
    Names <- MCNames
    IpLiterals <- MCIpLiterals
    Self = "db1"
    Lookup <- MCLookup
    Text4 <- MCText4
    Text6 <- MCText6
    Ports = {7687, 10000}
    Reachable = {"ip4", "lo4", "lo6"}
    None = None
    Garbage = Garbage
INIT Init
NEXT Next
\* The exchange ends connected, failed, or with the node aborted.
CHECK_DEADLOCK FALSE

INVARIANT IpLiteralReturnedAsIs
