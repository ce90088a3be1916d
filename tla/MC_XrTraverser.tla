---------------------------- MODULE MC_XrTraverser ----------------------------
(* XrTraverser for TLC: every chain of up to two blocks of every type and *)
(* length field 0..3, cut short, exact, or followed by a partial header,   *)
(* with the packet length field covering the buffer or one word less, and *)
(* with or without padding.                                                *)
EXTENDS XrTraverser

MC_Blocks ==
  [type : {"RRTR", "MEASUREMENT_INFO", "DELAY_METRICS", "QUEUE_METRICS", "UNKNOWN"},
   len_field : 0..3, sub : {0}]
  \cup [type : {"DLRR"}, len_field : 0..3, sub : 0..1]

MC_Chains == {<<>>} \cup {<<b>> : b \in MC_Blocks} \cup {<<b, c>> : b, c \in MC_Blocks}

ChainEnd(c) ==
  HeaderSize + SumFunctionOnSet([j \in 1..Len(c) |-> LenBytes(c[j].len_field)], 1..Len(c))

Sizes(c) == {ChainEnd(c) - 2, ChainEnd(c), ChainEnd(c) + 3}

LenFields(s) == {(s \div 4) - 1, (s \div 4) - 2} \ {-1}

MC_Packets ==
  LET xr(c, s, lf, pd, pl) ==
        [ptype |-> "XR", len_field |-> lf, padding |-> pd, payload |-> pl,
         chain |-> c, size |-> s]
  IN UNION {UNION {{xr(c, s, lf, FALSE, 0) : lf \in LenFields(s)}
                   \cup {xr(c, s, lf, TRUE, pl) : lf \in LenFields(s), pl \in {1, 4, 9}}
                   : s \in Sizes(c)}
            : c \in MC_Chains}
     \cup {[xr(<<>>, 8, 1, FALSE, 0) EXCEPT !.ptype = "SR"]}
====
