------------------------------- MODULE MCPeer -------------------------------
(***************************************************************************)
(* Model-checking instances of Peer.  One model unit is 2^-8 s, so that    *)
(* BROADCAST_DELAY (ONE / 250) and packet precisions stay visible; the era *)
(* is 2^22 units (about 4.5 hours).                                        *)
(***************************************************************************)
EXTENDS FilterUnitTests

MCOne == 256
MCMaxDispersion == 16 * MCOne
MCMinDispersion == MCOne \div 65536

\* A peer created early in an era.
MCStartEarly == 1000
\* A peer created in the second half of the era (the era of 1968-2036).
MCStartLate == 2^(TimeBits - 1) + 1000

\* Packet precision 2^-8 s, one model unit.
MCPrecisionExps == {-8}

\* 5 units (20 ms) after the end of an era: the reply was sent after the
\* rollover, the server's reference time was set before it.
MCStartAfterWrap == 5

\* One poll interval of the system, 2^4 s.
MCSystemPolls == {16 * MCOne}

\* A server 60 s ahead of the local clock.
MCThetaAhead == 60 * MCOne

\* 20 s into the era: the peer's out_date (0) lies more than one minimum
\* poll interval in the past.
MCStartPastMinPoll == 20 * MCOne
=============================================================================
