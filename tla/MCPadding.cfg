\* Plaintexts of up to seven bytes with every pattern of zeros, marks and other
\* bytes, in blocks of four; those of seven no longer fit the limit.
CONSTANTS
    Zero = zero
    Mark = mark
    Byte = {zero, mark, other}
    Block = 4
    Limit = 8
    MaxSize = 7
SPECIFICATION FairSpec
INVARIANTS
    IInv
    ScanStaysInPadding
    RoundTrip
PROPERTIES
    Returns
