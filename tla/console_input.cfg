\* A ring of four characters with 3-bit indices, so r, w and e wrap around
\* the uint32_t range (scaled to 8) every second turn of the ring; two
\* readers asking for one or three bytes, two ordinary characters so that
\* reordering would show.
CONSTANTS
    INPUT_BUF = 4
    W = 3
    Chars = {"a", "b"}
    Readers = {p1, p2}
    Lens = {1, 3}
SYMMETRY ReaderSymmetry
SPECIFICATION Spec
INVARIANT TypeOK
INVARIANT NoLostWakeup
PROPERTY LineSpec
INVARIANT CprintfMatchesReference
\* The helpers of the user library (UserLib), checked once.
INVARIANT AtoiMatchesReference
INVARIANT GetenvMatchesReference
INVARIANT ExitRunsInReverse
