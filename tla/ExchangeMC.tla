------------------------------ MODULE ExchangeMC ------------------------------
EXTENDS Exchange

\* 0, 1, 0x1234, 0x7813, 0x8000, 0xFD24 and 0xFFFF as numbers and handles; a field is
\* empty, full or something between.
MCNumbers ==
  {{}, {0}, {12, 9, 5, 4, 2}, {14, 13, 12, 11, 4, 1, 0}, {15},
   {15, 14, 13, 12, 11, 10, 8, 5, 2}, Bits(16)}
MCPairs == {{}, {1}, {0, 1}}

\* All fields alike, and two queries whose fields differ.
MCQueries ==
  {[dr |-> bit, m |-> two, trext |-> bit, sel |-> two, session |-> two, target |-> bit, q |-> q] :
     bit \in {{}, {0}}, two \in MCPairs, q \in {{}, {0, 2}, Bits(4)}}
  \cup {[dr |-> {0}, m |-> {1}, trext |-> {}, sel |-> {0}, session |-> {0, 1}, target |-> {}, q |-> {3}],
        [dr |-> {}, m |-> {0}, trext |-> {0}, sel |-> {0, 1}, session |-> {1}, target |-> {0}, q |-> {1}]}

\* A field of some width that is empty or full.
Fill(full, width) == IF full THEN Bits(width) ELSE {}

MCFields ==
  [rn |-> MCNumbers, session |-> MCPairs, updn |-> {{}, {0}, {0, 1, 2}}, query |-> MCQueries,
   kill |-> {[password |-> rn, rfu |-> Fill(f, 3), rn |-> rn, crc |-> Fill(f, 16)] :
               rn \in MCNumbers, f \in BOOLEAN},
   lock |-> {[payload |-> Fill(f, 20), rn |-> rn, crc |-> Fill(f, 16)] :
               rn \in MCNumbers, f \in BOOLEAN},
   read |-> {[mem_bank |-> Fill(f, 2), word_ptr |-> Fill(f, 8), word_count |-> Fill(f, 8),
              rn |-> rn, crc |-> Fill(f, 16)] : rn \in MCNumbers, f \in BOOLEAN},
   write |-> {[mem_bank |-> Fill(f, 2), word_ptr |-> Fill(f, 8), data |-> rn,
               rn |-> rn, crc |-> Fill(f, 16)] : rn \in MCNumbers, f \in BOOLEAN},
   select |-> {[target |-> Fill(f, 3), action |-> Fill(f, 3), mem_bank |-> Fill(f, 2),
                pointer |-> Fill(f, 8), length |-> Fill(f, 8), mask |-> Fill(f, 8),
                truncate |-> Fill(f, 1), crc |-> Fill(f, 16)] : f \in BOOLEAN}]

MCGarbage == {{}, Bits(32)}
MCMaxLeft == 1
MCDamaged == {"query", "req_rn", "rn_crc"}
=============================================================================
