---------------------------- MODULE FecBlockStream ----------------------------
(***************************************************************************)
(* What the FEC block writer promises its downstream writer: the packets   *)
(* form a stream of blocks.  A block is numbered one more than the last    *)
(* (modulo the block-number width).  It carries the sizes last requested   *)
(* before its first packet.  Its source packets come in symbol order       *)
(* 0 .. sblen-1, then some of its repair packets in increasing symbol      *)
(* order.  Each write hands down one source packet and, when that packet   *)
(* completes the block, the block's repair packets after it.  A size       *)
(* request is valid: at least one source packet, and no more than          *)
(* MaxBlockLength packets.                                                 *)
(***************************************************************************)
EXTENDS Naturals, Sequences

CONSTANTS
  SbnMod,          \* 2^(width of the block number)
  MaxBlockLength,  \* the encoder's limit on sblen + rblen
  NULL             \* no packet yet

VARIABLES
  sizes,  \* <<sblen, rblen>> a new block will take
  last,   \* the last packet handed down, or NULL
  batch   \* the packets handed down by the last step

fbvars == <<sizes, last, batch>>

IsBlockStart(q) == q.kind = "source" /\ q.esi = 0

(* q may directly follow p in the stream. *)
Follows(p, q) ==
  /\ q.esi < q.blen
  /\ IF IsBlockStart(q)
     THEN \/ p = NULL
          \/ /\ q.sbn = (p.sbn + 1) % SbnMod
             /\ p.kind = "repair" \/ p.esi = p.sblen - 1
     ELSE /\ p # NULL
          /\ p.sbn = q.sbn /\ p.sblen = q.sblen /\ p.blen = q.blen
          /\ IF q.kind = "source"
             THEN p.kind = "source" /\ q.esi = p.esi + 1
             ELSE /\ q.esi > p.esi /\ q.esi >= q.sblen
                  /\ p.kind = "source" => p.esi = p.sblen - 1

Init ==
  /\ sizes \in Nat \X Nat
  /\ last = NULL
  /\ batch = << >>

(* A valid size request; the block in progress keeps its sizes. *)
Request(sblen, rblen) ==
  /\ sblen > 0 /\ sblen + rblen <= MaxBlockLength
  /\ sizes' = <<sblen, rblen>>
  /\ batch' = << >>
  /\ UNCHANGED last

(* A call that hands nothing down. *)
Idle ==
  /\ batch' = << >>
  /\ UNCHANGED <<sizes, last>>

(* A write: one source packet, then the block's repair packets if it is   *)
(* complete.                                                               *)
Send ==
  LET s == <<last>> \o batch'
  IN /\ batch' # << >>
     /\ batch'[1].kind = "source"
     /\ \A i \in 2 .. Len(batch') : batch'[i].kind = "repair"
     /\ \A i \in 1 .. Len(s) - 1 : Follows(s[i], s[i + 1])
     /\ IsBlockStart(batch'[1]) =>
          /\ batch'[1].sblen = sizes[1]
          /\ batch'[1].blen = sizes[1] + sizes[2]
     /\ last' = batch'[Len(batch')]
     /\ UNCHANGED sizes

Next ==
  \/ \E sb, rb \in 0 .. MaxBlockLength : Request(sb, rb)
  \/ Idle
  \/ Send

Spec == Init /\ [][Next]_fbvars

=============================================================================
