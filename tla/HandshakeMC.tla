------------------------------ MODULE HandshakeMC ------------------------------
EXTENDS Handshake

TwoBoards == [reader |-> "reader", tag |-> "tag"]
OneBoard == [reader |-> "loopback_handshake", tag |-> "none"]

\* Two boards, in any order, with the loopback that config.h ships or without; one board.
MCSetups ==
  [main : {TwoBoards}, loopback : BOOLEAN, tag_first : BOOLEAN, faults : BOOLEAN]
    \cup [main : {OneBoard}, loopback : BOOLEAN, tag_first : {FALSE}, faults : BOOLEAN]

MCGarbage == {{}, Bits(32)}
=============================================================================
