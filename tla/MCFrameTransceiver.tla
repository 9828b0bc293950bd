------------------------- MODULE MCFrameTransceiver -------------------------
EXTENDS FrameTransceiver

\* An address with a byte that looks like a start.  The data, one byte of which
\* wraps, are sent as 202 and 22: the checksum and the end of this frame had it
\* no data, so that with its length turned into 0 it is another frame.
Answer == [address |-> <<1, 104, 0, 0, 0, 0>>, control |-> 145, data |-> <<151, 227>>]
Other  == [address |-> <<2, 0, 0, 0, 0, 0>>, control |-> 209, data |-> <<>>]

TwoFrames   == {Answer, Other}
SomeWakeups == {0, 1}
SomeStrays  == {0, FRAME_START}
=============================================================================
