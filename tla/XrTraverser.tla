----------------------------- MODULE XrTraverser -----------------------------
(***************************************************************************)
(* rtcp::XrTraverser (roc_rtcp/xr_traverser.cpp): parse() of an RTCP XR   *)
(* packet and the Iterator that walks its report blocks.                   *)
(*                                                                         *)
(* The packet is a record: the header fields parse() reads, the chain of  *)
(* block headers laid back to back after the HeaderSize-byte packet       *)
(* header, and the size of the buffer.  A byte the model does not fix     *)
(* otherwise (inside a block body or the SSRC) has the value payload.     *)
(***************************************************************************)
EXTENDS Naturals, Sequences, FiniteSets, Functions

CONSTANTS
  HeaderSize,            \* sizeof(header::XrPacket)
  BlockHeaderSize,       \* sizeof(header::XrBlockHeader)
  RrtrSize,              \* sizeof(header::XrRrtrBlock)
  DlrrSize,              \* sizeof(header::XrDlrrBlock)
  DlrrSubblockSize,      \* sizeof(header::XrDlrrSubblock)
  MeasurementInfoSize,   \* sizeof(header::XrMeasurementInfoBlock)
  DelayMetricsSize,      \* sizeof(header::XrDelayMetricsBlock)
  QueueMetricsSize,      \* sizeof(header::XrQueueMetricsBlock)
  SizeBits,              \* width of size_t
  Packets                \* the buffers parse() may be given

KnownTypes == {"RRTR", "DLRR", "MEASUREMENT_INFO", "DELAY_METRICS", "QUEUE_METRICS"}

SizeMod == 2 ^ SizeBits

(* Mutant: the length field read as a byte count / 4 without the +1. *)
LenBytesNoWordAdjust(len_field) == len_field * 4

(* header::rtcp_length_2_size_t(): a length field counts 32-bit words      *)
(* minus one.                                                               *)
LenBytes(len_field) == (len_field + 1) * 4

VARIABLES
  pkt,           \* the buffer given to the constructor
  buf_size,      \* buf_.size()
  parsed,        \* parsed_
  blocks_count,  \* blocks_count_
  panicked,      \* a roc_panic was reached
  it,            \* the Iterator last returned by iter()
  iter_on,       \* iter() has been called
  returned,      \* <<cur_pos_, state_>> of each block it returned
  hung           \* a next_block_() call never returned

vars == <<pkt, buf_size, parsed, blocks_count, panicked, it, iter_on, returned, hung>>

-----------------------------------------------------------------------------
(* The buffer. *)

BlockStart(i) ==
  HeaderSize + SumFunctionOnSet([j \in 1..Len(pkt.chain) |-> LenBytes(pkt.chain[j].len_field)],
                                1..(i - 1))

(* The block header at byte offset pos (a block start). *)
HeaderAt(pos) == pkt.chain[CHOOSE i \in 1..Len(pkt.chain) : BlockStart(i) = pos]

(* buf_[k]: the low byte of a length field sits at offset 3 of the packet *)
(* header and of each block header.                                         *)
ByteAt(k) ==
  CASE k = 3 -> pkt.len_field % 256
    [] \E i \in 1..Len(pkt.chain) : BlockStart(i) + 3 = k ->
         HeaderAt(k - 3).len_field % 256
    [] OTHER -> pkt.payload

PacketLen == LenBytes(pkt.len_field)           \* xr->header().len_bytes()

-----------------------------------------------------------------------------
(* The bytes get_rrtr(), get_dlrr(), get_measurement_info(),              *)
(* get_delay_metrics() and get_queue_metrics() (lines 236-273) hand the    *)
(* caller: the block header cast to the type's struct, with, for DLRR, the *)
(* num_subblocks() sub-blocks that follow it.  Each getter panics unless    *)
(* state_ is its type.                                                      *)
StructSize(b) ==
  CASE b.type = "RRTR" -> RrtrSize
    [] b.type = "DLRR" -> DlrrSize + b.sub * DlrrSubblockSize
    [] b.type = "MEASUREMENT_INFO" -> MeasurementInfoSize
    [] b.type = "DELAY_METRICS" -> DelayMetricsSize
    [] b.type = "QUEUE_METRICS" -> QueueMetricsSize

(* Mutant: check_rrtr_() only asks for a block header. *)
CheckBlockRrtrHeaderOnly(b, len) ==
  CASE b.type = "RRTR" -> len >= BlockHeaderSize
    [] b.type = "DLRR" -> len >= DlrrSize + b.sub * DlrrSubblockSize
    [] b.type = "MEASUREMENT_INFO" -> len >= MeasurementInfoSize
    [] b.type = "DELAY_METRICS" -> len >= DelayMetricsSize
    [] b.type = "QUEUE_METRICS" -> len = QueueMetricsSize

(* The per-type checks, lines 194-235.  num_subblocks() is the block's sub. *)
CheckBlock(b, len) ==
  CASE b.type = "RRTR" -> len >= RrtrSize
    [] b.type = "DLRR" -> len >= DlrrSize + b.sub * DlrrSubblockSize
    [] b.type = "MEASUREMENT_INFO" -> len >= MeasurementInfoSize
    [] b.type = "DELAY_METRICS" -> len >= DelayMetricsSize
    [] b.type = "QUEUE_METRICS" -> len = QueueMetricsSize

(* Mutant: a skipped invalid block does not set error_. *)
RECURSIVE ScanNoError(_, _, _, _, _)
ScanNoError(pos, len, error, size, fuel) ==
  LET b == HeaderAt(pos)
      l == LenBytes(b.len_field)
      stop(ln, e) == [state |-> "END", pos |-> pos, len |-> ln, error |-> e]
  IN CASE fuel = 0 -> [state |-> "HANG", pos |-> pos, len |-> len, error |-> error]
       [] pos = size -> stop(len, error)
       [] pos + BlockHeaderSize > size -> stop(len, TRUE)
       [] pos + l > size -> stop(l, TRUE)
       [] b.type \in KnownTypes /\ CheckBlock(b, l) ->
            [state |-> b.type, pos |-> pos, len |-> l, error |-> error]
       [] OTHER ->
            ScanNoError(pos + l, l, error, size, fuel - 1)

(* The for (;;) loop of next_block_(), lines 117-191, from offset pos.  An *)
(* invalid known block sets error_ and is skipped; an unknown one is       *)
(* skipped.  fuel bounds the iterations, which the block lengths bound.    *)
RECURSIVE Scan(_, _, _, _, _)
Scan(pos, len, error, size, fuel) ==
  LET b == HeaderAt(pos)
      l == LenBytes(b.len_field)
      stop(ln, e) == [state |-> "END", pos |-> pos, len |-> ln, error |-> e]
  IN CASE fuel = 0 -> [state |-> "HANG", pos |-> pos, len |-> len, error |-> error]
       [] pos = size -> stop(len, error)
       [] pos + BlockHeaderSize > size -> stop(len, TRUE)
       [] pos + l > size -> stop(l, TRUE)
       [] b.type \in KnownTypes /\ CheckBlock(b, l) ->
            [state |-> b.type, pos |-> pos, len |-> l, error |-> error]
       [] OTHER ->
            Scan(pos + l, l, error \/ b.type \in KnownTypes, size, fuel - 1)

NewIterator == [state |-> "BEGIN", pos |-> 0, len |-> 0, error |-> FALSE]

(* Lines 101-115: skip the packet header at BEGIN, else the current block. *)
NextPos(itr) ==
  IF itr.state = "BEGIN" THEN itr.pos + HeaderSize ELSE itr.pos + itr.len

(* Iterator::next() / next_block_(), lines 87-192. *)
NextBlock(itr, size) ==
  CASE itr.state = "END" -> itr
    [] itr.state = "BEGIN" /\ NextPos(itr) > size ->
         [itr EXCEPT !.pos = NextPos(itr), !.state = "END", !.error = TRUE]
    [] OTHER -> Scan(NextPos(itr), itr.len, itr.error, size, Len(pkt.chain) + 1)

(* Mutant: the loop counts the END call too. *)
RECURSIVE CountFromEndCounted(_, _, _, _)
CountFromEndCounted(itr, size, n, fuel) ==
  LET nx == NextBlock(itr, size)
  IN CASE fuel = 0 \/ nx.state = "HANG" -> [n |-> n, hang |-> TRUE]
       [] nx.state = "END" -> [n |-> n + 1, hang |-> FALSE]
       [] OTHER -> CountFromEndCounted(nx, size, n + 1, fuel - 1)

(* Lines 50-53: count the blocks an iteration returns. *)
RECURSIVE CountFrom(_, _, _, _)
CountFrom(itr, size, n, fuel) ==
  LET nx == NextBlock(itr, size)
  IN CASE fuel = 0 \/ nx.state = "HANG" -> [n |-> n, hang |-> TRUE]
       [] nx.state = "END" -> [n |-> n, hang |-> FALSE]
       [] OTHER -> CountFrom(nx, size, n + 1, fuel - 1)

CountBlocks(size) == CountFrom(NewIterator, size, 0, Len(pkt.chain) + 2)

(* Mutant: the padding length is not bounded by the packet length. *)
PaddingAcceptedNoBound(pad) == pad >= 1

(* Lines 39-46: the padding check, with size_t arithmetic. *)
PaddingAccepted(pad) ==
  /\ pad >= 1
  /\ pad <= (PacketLen - HeaderSize) % SizeMod

(* parse(), lines 22-46: the buffer size after the checks, or a failure. *)
ParseOutcome ==
  LET pad == ByteAt(PacketLen - 1)
      cut == (PacketLen - pad) % SizeMod
  IN CASE pkt.size < HeaderSize \/ pkt.ptype # "XR" \/ PacketLen > pkt.size ->
            [ok |-> FALSE, panic |-> FALSE]
       [] ~pkt.padding -> [ok |-> TRUE, panic |-> FALSE, size |-> pkt.size]
       [] ~PaddingAccepted(pad) -> [ok |-> FALSE, panic |-> FALSE]
       [] cut > pkt.size -> [ok |-> FALSE, panic |-> TRUE]   \* Slice::subslice
       [] OTHER -> [ok |-> TRUE, panic |-> FALSE, size |-> cut]

-----------------------------------------------------------------------------
Init ==
  /\ pkt \in Packets
  /\ buf_size = pkt.size
  /\ parsed = FALSE
  /\ blocks_count = 0
  /\ panicked = FALSE
  /\ it = NewIterator
  /\ iter_on = FALSE
  /\ returned = <<>>
  /\ hung = FALSE

(* Mutant: the blocks are counted before the padding is cut off. *)
ParseCountsBeforeCut ==
  LET r == ParseOutcome
      c == CountBlocks(pkt.size)
  IN /\ ~parsed /\ ~panicked
     /\ CASE r.panic ->
               /\ panicked' = TRUE
               /\ UNCHANGED <<buf_size, parsed, blocks_count, hung>>
          [] ~r.ok -> UNCHANGED <<panicked, buf_size, parsed, blocks_count, hung>>
          [] OTHER ->
               /\ buf_size' = r.size
               /\ blocks_count' = c.n
               /\ hung' = c.hang
               /\ parsed' = TRUE
               /\ UNCHANGED panicked
     /\ UNCHANGED <<pkt, it, iter_on, returned>>

(* parse(); a second call panics (line 23), a caller error. *)
Parse ==
  LET r == ParseOutcome
      c == CountBlocks(r.size)
  IN /\ ~parsed /\ ~panicked
     /\ CASE r.panic ->
               /\ panicked' = TRUE
               /\ UNCHANGED <<buf_size, parsed, blocks_count, hung>>
          [] ~r.ok -> UNCHANGED <<panicked, buf_size, parsed, blocks_count, hung>>
          [] OTHER ->
               /\ buf_size' = r.size
               /\ blocks_count' = c.n
               /\ hung' = c.hang
               /\ parsed' = TRUE
               /\ UNCHANGED panicked
     /\ UNCHANGED <<pkt, it, iter_on, returned>>

(* iter(), lines 59-64, after parse(). *)
Iter ==
  /\ parsed
  /\ it' = NewIterator
  /\ iter_on' = TRUE
  /\ returned' = <<>>
  /\ UNCHANGED <<pkt, buf_size, parsed, blocks_count, panicked, hung>>

(* Iterator::next(). *)
IterNext ==
  LET nx == NextBlock(it, buf_size)
  IN /\ iter_on /\ ~hung
     /\ it' = nx
     /\ hung' = (nx.state = "HANG")
     /\ returned' = IF nx.state \in KnownTypes
                      THEN Append(returned, <<nx.pos, nx.state>>) ELSE returned
     /\ UNCHANGED <<pkt, buf_size, parsed, blocks_count, panicked, iter_on>>

Next == Parse \/ Iter \/ IterNext

Spec == Init /\ [][Next]_vars

-----------------------------------------------------------------------------
(* The block stream an iteration promises, over this packet's chain. *)
AbsChain ==
  [i \in 1..Len(pkt.chain) |->
     LET b == pkt.chain[i] IN
     [type |-> b.type, len |-> LenBytes(b.len_field), ok |-> b.type \in KnownTypes /\ CheckBlock(b, LenBytes(b.len_field))]]

XB == INSTANCE XrBlockStream WITH
        chain <- AbsChain,
        size <- buf_size,
        out <- returned,
        done <- iter_on /\ it.state = "END",
        err <- iter_on /\ it.error

-----------------------------------------------------------------------------
(* Properties. *)

TypeOK ==
  /\ pkt.chain \in Seq([type : STRING, len_field : Nat, sub : Nat])
  /\ buf_size \in 0..pkt.size
  /\ parsed \in BOOLEAN /\ panicked \in BOOLEAN /\ iter_on \in BOOLEAN /\ hung \in BOOLEAN
  /\ blocks_count \in 0..Len(pkt.chain)
  /\ it \in [state : {"BEGIN", "END", "HANG"} \cup KnownTypes, pos : Nat, len : Nat,
             error : BOOLEAN]
  /\ returned \in Seq(Nat \X KnownTypes)

(* parse() reads the padding length from the packet's last byte and cuts *)
(* the buffer at packet_len - padding_len (line 45).  Its bound check      *)
(* (line 42) computes packet_len - sizeof(XrPacket) in size_t, which wraps *)
(* for a packet shorter than its header; the cut must still never exceed  *)
(* the buffer, so no packet makes Slice::subslice panic.                   *)
NoPanic == ~panicked

(* Every next_block_() call returns: each turn of its loop moves past a    *)
(* block of at least one word, whatever lengths the packet claims.         *)
NextTerminates == ~hung

(* blocks_count() equals the number of blocks an iteration over the parsed *)
(* packet returns (lines 48-53).                                            *)
BlocksCountMatches == parsed => blocks_count = Len(XB!Expected)

(* Each Iterator::next() returns the next valid block of a known type in   *)
(* the chain, in order, with the error flag of the blocks it skipped, and  *)
(* END once the chain is walked: the iterator implements XrBlockStream.    *)
ImplementsBlockStream == XB!Spec

(* Whatever lengths the packet claims, every accessor of a parsed         *)
(* traverser reads inside buf_: packet() (lines 71-75) reads the XrPacket  *)
(* header, which the padding cut must leave whole, and the getter of the   *)
(* block next() just returned reads its whole struct, and DLRR's           *)
(* sub-blocks, before the end of the buffer.  That rests on next_block_()'s *)
(* bound on cur_pos_ + cur_blk_len_ and on each type's size check together. *)
AccessorsReadInBuffer ==
  /\ parsed => HeaderSize <= buf_size
  /\ iter_on /\ it.state \in KnownTypes =>
       it.pos + StructSize(HeaderAt(it.pos)) <= buf_size

(* A returned block lies inside the packet as its length field declares it *)
(* (less any padding): parse() checks packet_len against the buffer and    *)
(* reads the padding at packet_len - 1, treating packet_len as the packet's *)
(* end.                                                                     *)
BlocksWithinPacket ==
  \A k \in 1..Len(returned) :
    returned[k][1] + LenBytes(HeaderAt(returned[k][1]).len_field)
      <= PacketLen - (IF pkt.padding THEN ByteAt(PacketLen - 1) ELSE 0)

=============================================================================
