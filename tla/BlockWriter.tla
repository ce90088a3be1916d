----------------------------- MODULE BlockWriter -----------------------------
(***************************************************************************)
(* The FEC block writer of roc_fec (src/internal_modules/roc_fec/          *)
(* block_writer.cpp).  It groups source packets into blocks of sblen       *)
(* packets, drives an external block encoder, and after the sblen-th       *)
(* source packet emits the block's rblen repair packets downstream.        *)
(*                                                                         *)
(* The writer's fields are one record variable w (field names are the C++  *)
(* member names without the trailing underscore), so that one call of a   *)
(* public method, which runs several private helpers in sequence, is one   *)
(* action built by composing the helpers' effects with LET.                *)
(*                                                                         *)
(* Packets are records of the FEC header fields the writer fills in; the   *)
(* payload bytes are abstracted to a payload size.  The encoder, the       *)
(* packet factory, the composers and the downstream writer are external:   *)
(* the encoder's block state is kept in enc, allocation failures are       *)
(* nondeterministic, and compose / downstream write are assumed to succeed *)
(* (the code aborts the process when they do not).                         *)
(***************************************************************************)
EXTENDS Naturals, Integers, Sequences, FiniteSets

CONSTANTS
  ConfigSblen,        \* BlockWriterConfig.n_source_packets given to the constructor
  ConfigRblen,        \* BlockWriterConfig.n_repair_packets
  EncoderInitStatuses,\* what block_encoder_.init_status() may return
  MaxBlockLength,     \* block_encoder_.max_block_length()
  SblenInputs,        \* sblen arguments of resize() the caller may pass
  RblenInputs,        \* rblen arguments of resize()
  PayloadSizes,       \* payload sizes of the source packets the caller writes
  TsBits,             \* width of stream_timestamp_t (32 in the code)
  SbnBits,            \* width of blknum_t (16 in the code)
  SnBits,             \* width of seqnum_t (16 in the code)
  EncoderCanFail,     \* block_encoder_.begin_block() may fail at run time
  AllocCanFail,       \* the arena may fail to grow repair_block_
  RepairAllocCanFail, \* packet_factory_ / repair_composer_ may fail per repair packet
  InitSbns,           \* values fast_random_range() may give cur_sbn_
  InitSns,            \* values fast_random_range() may give cur_block_repair_sn_
  StreamTimestamps,   \* stream timestamps of the source packets the caller writes
  NULL

ASSUME Assumption ==
  /\ ConfigSblen \in Nat /\ ConfigRblen \in Nat
  /\ EncoderInitStatuses \subseteq {"OK", "Error"} /\ EncoderInitStatuses # {}
  /\ MaxBlockLength \in Nat \ {0}
  /\ SblenInputs \subseteq Nat /\ RblenInputs \subseteq Nat
  /\ PayloadSizes \subseteq Nat /\ PayloadSizes # {}
  /\ \A b \in {TsBits, SbnBits, SnBits} : b \in Nat \ {0}
  /\ InitSbns \subseteq 0 .. 2 ^ SbnBits - 1 /\ InitSbns # {}
  /\ InitSns \subseteq 0 .. 2 ^ SnBits - 1 /\ InitSns # {}
  /\ StreamTimestamps \subseteq 0 .. 2 ^ TsBits - 1 /\ StreamTimestamps # {}
  /\ \A f \in {EncoderCanFail, AllocCanFail, RepairAllocCanFail} : f \in BOOLEAN

TsMod  == 2 ^ TsBits
SbnMod == 2 ^ SbnBits
SnMod  == 2 ^ SnBits
Timestamps == 0 .. TsMod - 1

(* Mutant of StreamTimestampDiff: the difference taken unsigned. *)
StreamTimestampDiffUnsigned(a, b) == (a - b) % TsMod

(* packet::stream_timestamp_diff(a, b): (int32)(a - b) at width TsBits. *)
StreamTimestampDiff(a, b) ==
  LET d == (a - b) % TsMod
  IN  IF d >= TsMod \div 2 THEN d - TsMod ELSE d

(* Reference for the history variables: the signed span d from b to a, *)
(* the one value in -TsMod/2 .. TsMod/2 - 1 congruent to a - b.          *)
SignedSpan(a, b) ==
  CHOOSE d \in -(TsMod \div 2) .. TsMod \div 2 - 1 : (a - b - d) % TsMod = 0

VARIABLES
  w,        \* the BlockWriter object
  enc,      \* the block encoder's state as driven by the writer
  emitted,  \* packets handed to writer_.write() by the last step, in order
  lastOut,  \* the last packet handed downstream before that step (or NULL)
  lastBeginTs,       \* history: stream timestamp of the last block begin (or NULL)
  resizedSinceBegin, \* history: a resize() was accepted since that begin
  spansSeen,         \* history: non-negative spans between consecutive block begins
  spansSinceResize   \* history: the same, counting only begins since the last resize

vars == <<w, enc, emitted, lastOut, lastBeginTs, resizedSinceBegin,
          spansSeen, spansSinceResize>>

-----------------------------------------------------------------------------
(* resize(sblen, rblen), lines 78-116: the outcome for given next sizes. *)
ResizeOutcomeNoZeroCheck(nsb, nrb, sblen, rblen) ==
  CASE nsb = sblen /\ nrb = rblen   -> "same"
    [] sblen + rblen > MaxBlockLength -> "reject"
    [] OTHER                        -> "accept"

ResizeOutcome(nsb, nrb, sblen, rblen) ==
  CASE nsb = sblen /\ nrb = rblen   -> "same"
    [] sblen = 0                    -> "reject"
    [] sblen + rblen > MaxBlockLength -> "reject"
    [] OTHER                        -> "accept"

(* The constructor, lines 19-60: random sbn and repair sn, then resize()  *)
(* with the configured sizes while next_sblen_ = next_rblen_ = 0.          *)
Init ==
  \E status \in EncoderInitStatuses, sbn \in InitSbns, sn \in InitSns :
    LET outcome == ResizeOutcome(0, 0, ConfigSblen, ConfigRblen)
        ok      == status = "OK" /\ outcome # "reject"
    IN
    /\ w = [ init_status |-> IF status # "OK" THEN "Error"
                             ELSE IF ok THEN "OK" ELSE "NoMem",
             cur_sblen |-> 0, cur_rblen |-> 0,
             next_sblen |-> IF ok /\ outcome = "accept" THEN ConfigSblen ELSE 0,
             next_rblen |-> IF ok /\ outcome = "accept" THEN ConfigRblen ELSE 0,
             cur_payload_size |-> 0,
             repair_block |-> << >>,
             first_packet |-> TRUE,
             alive |-> TRUE,
             cur_packet |-> 0,
             cur_sbn |-> sbn,
             cur_block_repair_sn |-> sn,
             prev_block_timestamp_valid |-> FALSE,
             prev_block_timestamp |-> 0,
             block_max_duration |-> 0 ]
    /\ enc = [open |-> FALSE, sblen |-> 0, rblen |-> 0, bufs |-> {}]
    /\ emitted = << >>
    /\ lastOut = NULL
    /\ lastBeginTs = NULL
    /\ resizedSinceBegin = FALSE
    /\ spansSeen = {}
    /\ spansSinceResize = {}

-----------------------------------------------------------------------------
(* resize(sblen, rblen), lines 78-116. *)
Resize(sblen, rblen) ==
  /\ w.init_status = "OK"
  /\ LET outcome == ResizeOutcome(w.next_sblen, w.next_rblen, sblen, rblen) IN
     IF outcome = "accept"
     THEN /\ w' = [w EXCEPT !.next_sblen = sblen, !.next_rblen = rblen,
                            !.prev_block_timestamp_valid = FALSE]
          /\ resizedSinceBegin' = TRUE
          /\ spansSinceResize' = {}
          /\ UNCHANGED <<enc, lastOut, lastBeginTs, spansSeen>>
     ELSE UNCHANGED <<w, enc, lastOut, lastBeginTs, resizedSinceBegin,
                      spansSeen, spansSinceResize>>
  /\ emitted' = << >>

(* update_block_duration_(), lines 369-385. *)
UpdateBlockDuration(s, ts) ==
  LET block_dur == IF s.prev_block_timestamp_valid
                   THEN StreamTimestampDiff(ts, s.prev_block_timestamp) ELSE 0
  IN  IF block_dur < 0
      THEN [s EXCEPT !.prev_block_timestamp_valid = FALSE]
      ELSE [s EXCEPT !.block_max_duration =
                       IF block_dur > @ THEN block_dur ELSE @,
                     !.prev_block_timestamp = ts,
                     !.prev_block_timestamp_valid = TRUE]

(* repair_block_.resize(n): grows with NULL slots, shrinks by truncation. *)
ResizedRepairBlock(rb, n) ==
  [i \in 1 .. n |-> IF i <= Len(rb) THEN rb[i] ELSE NULL]

(* fill_packet_fec_fields_(), lines 321-329, on a fresh packet. *)
FecFields(s, kind, esi) ==
  [kind |-> kind, esi |-> esi % SnMod, sbn |-> s.cur_sbn,
   sblen |-> s.cur_sblen, blen |-> s.cur_sblen + s.cur_rblen]

(* Mutant of MakeRepairPacket: repair ids counted from sblen + 1. *)
MakeRepairPacketOffByOne(s, k) == FecFields(s, "repair", s.cur_sblen + k + 1)

(* make_repair_packet_(), lines 269-276, for slot k (0-based). *)
MakeRepairPacket(s, k) == FecFields(s, "repair", s.cur_sblen + k)

(* Mutant of NextBlock: the block number is kept wider than blknum_t. *)
NextBlockWideSbn(s) ==
  [s EXCEPT !.cur_block_repair_sn = (@ + s.cur_rblen) % SnMod,
            !.cur_sbn = @ + 1,
            !.cur_packet = 0]

(* Mutant of NextBlock: cur_packet_ is not reset. *)
NextBlockNoReset(s) ==
  [s EXCEPT !.cur_block_repair_sn = (@ + s.cur_rblen) % SnMod,
            !.cur_sbn = (@ + 1) % SbnMod]

(* next_block_(), lines 191-195. *)
NextBlock(s) ==
  [s EXCEPT !.cur_block_repair_sn = (@ + s.cur_rblen) % SnMod,
            !.cur_sbn = (@ + 1) % SbnMod,
            !.cur_packet = 0]

(* The history variables kept at each block begin. *)
RecordBegin(ts) ==
  LET span == IF lastBeginTs = NULL THEN -1 ELSE SignedSpan(ts, lastBeginTs)
  IN  /\ lastBeginTs' = ts
      /\ resizedSinceBegin' = FALSE
      /\ spansSeen' = IF span >= 0 THEN spansSeen \cup {span} ELSE spansSeen
      /\ spansSinceResize' = IF span >= 0 /\ ~resizedSinceBegin
                             THEN spansSinceResize \cup {span} ELSE spansSinceResize

NoBegin == UNCHANGED <<lastBeginTs, resizedSinceBegin, spansSeen, spansSinceResize>>

(* Hand a sequence of packets to writer_.write(), in order. *)
Emit(seq) ==
  /\ emitted' = seq
  /\ lastOut' = IF seq = << >> THEN lastOut ELSE seq[Len(seq)]

(* apply_sizes_(), lines 197-218: the possible results, each whether it *)
(* succeeded and the writer state after it.                                *)
ApplySizes(s, ps) ==
  LET dead == [s EXCEPT !.alive = FALSE]
  IN  IF ps = 0 THEN {[ok |-> FALSE, s |-> dead]}
      ELSE (IF AllocCanFail /\ Len(s.repair_block) < s.next_rblen
            THEN {[ok |-> FALSE, s |-> dead]} ELSE {})
           \cup
           {[ok |-> TRUE,
             s |-> [s EXCEPT !.repair_block = ResizedRepairBlock(@, s.next_rblen),
                             !.cur_sblen = s.next_sblen,
                             !.cur_rblen = s.next_rblen,
                             !.cur_payload_size = ps]]}

(* The encoder's answers to begin_block(sblen, rblen, payload_size). *)
EncoderBeginResults(sblen, rblen) ==
  IF sblen + rblen > MaxBlockLength THEN {FALSE}
  ELSE IF EncoderCanFail THEN BOOLEAN ELSE {TRUE}

(* begin_block_(), lines 159-180: the possible results, each the writer  *)
(* state after it, whether the block was begun, and the encoder state.    *)
BeginBlock(s, ps, ts) ==
  LET applied == ApplySizes(UpdateBlockDuration(s, ts), ps)
  IN  {[ok |-> FALSE, s |-> a.s, enc |-> enc] : a \in {a \in applied : ~a.ok}}
      \cup
      UNION {{[ok |-> ok,
               s |-> IF ok THEN a.s ELSE [a.s EXCEPT !.alive = FALSE],
               enc |-> IF ok THEN [open |-> TRUE, sblen |-> a.s.cur_sblen,
                                   rblen |-> a.s.cur_rblen, bufs |-> {}]
                       ELSE enc] :
              ok \in EncoderBeginResults(a.s.cur_sblen, a.s.cur_rblen)} :
             a \in {a \in applied : a.ok}}

(* Mutant of WrittenRepairBlock: slots are not cleared after writing. *)
WrittenRepairBlockKeep(rb) == rb

(* write_repair_packets_(), lines 304-319: every slot that was written is *)
(* cleared.                                                                *)
WrittenRepairBlock(rb) == [i \in DOMAIN rb |-> NULL]

(* make_repair_packets_(), lines 234-242: slot i gets a fresh repair     *)
(* packet unless making it failed, in which case the slot is left as is.   *)
MadeRepairBlock(s, failed) ==
  [i \in DOMAIN s.repair_block |->
     IF i - 1 \in failed THEN s.repair_block[i] ELSE MakeRepairPacket(s, i - 1)]

(* encode_repair_packets_(), lines 279-287: the encoder buffers set for   *)
(* the non-empty slots.                                                    *)
RepairBufs(s, rb) == {s.cur_sblen + i - 1 : i \in {i \in DOMAIN rb : rb[i] # NULL}}

(* end_block_() then next_block_(), lines 182-189: repair packets are     *)
(* made, encoded, composed and written in slot order, then the encoder's  *)
(* block is ended.                                                         *)
EndBlock(s, e, src, failed) ==
  LET made == MadeRepairBlock(s, failed)
  IN  /\ w' = NextBlock([s EXCEPT !.repair_block = WrittenRepairBlock(made)])
      /\ enc' = [e EXCEPT !.bufs = @ \cup RepairBufs(s, made), !.open = FALSE]
      /\ Emit(<<src>> \o SelectSeq(made, LAMBDA p : p # NULL))

(* The repair slots whose make_repair_packet_() fails at lines 245-268. *)
RepairFailures(s) ==
  IF RepairAllocCanFail THEN SUBSET (0 .. s.cur_rblen - 1) ELSE {{}}

(* validate_source_packet_(), lines 353-367. *)
ValidSourcePacket(s, ps) == ps = s.cur_payload_size

(* write_source_packet_(), lines 220-232: the composed source packet. *)
SourcePacket(s) == FecFields(s, "source", s.cur_packet)

(* Mutant of BlockFull: compared with the pending block length. *)
BlockFullNext(s) == s.cur_packet = s.next_sblen

(* The block-complete test of write(), line 151. *)
BlockFull(s) == s.cur_packet = s.cur_sblen

(* cur_packet_ never reaches the encoder's maximum block length in a      *)
(* correct run; this cap only keeps broken configurations finite.          *)
CurPacketCap == MaxBlockLength

(* The rest of write(), lines 140-156, for a begun block. *)
WriteSource(s, e, ps) ==
  \/ /\ ~ValidSourcePacket(s, ps)
     /\ w' = [s EXCEPT !.alive = FALSE]
     /\ enc' = e
     /\ Emit(<< >>)
  \/ /\ ValidSourcePacket(s, ps)
     /\ LET s1 == [s EXCEPT !.cur_packet = @ + 1]
            e1 == [e EXCEPT !.bufs = @ \cup {s.cur_packet}]
        IN  IF BlockFull(s1)
            THEN \E failed \in RepairFailures(s1) :
                   EndBlock(s1, e1, SourcePacket(s), failed)
            ELSE /\ w' = s1
                 /\ enc' = e1
                 /\ Emit(<<SourcePacket(s)>>)

(* write(pp) on a live writer, lines 118-157. *)
Write(ps, ts) ==
  /\ w.init_status = "OK"
  /\ w.alive
  /\ w.cur_packet <= CurPacketCap
  /\ LET s0 == [w EXCEPT !.first_packet = FALSE] IN
     \/ /\ s0.cur_packet = 0
        /\ RecordBegin(ts)
        /\ \E r \in BeginBlock(s0, ps, ts) :
             IF r.ok THEN WriteSource(r.s, r.enc, ps)
             ELSE /\ w' = r.s
                  /\ enc' = r.enc
                  /\ Emit(<< >>)
     \/ /\ s0.cur_packet # 0
        /\ NoBegin
        /\ WriteSource(s0, enc, ps)

(* write(pp) on a dead writer returns StatusOK and does nothing, l. 122-125. *)
WriteDead ==
  /\ w.init_status = "OK"
  /\ ~w.alive
  /\ Emit(<< >>)
  /\ UNCHANGED <<w, enc, lastBeginTs, resizedSinceBegin, spansSeen, spansSinceResize>>

WriteAny == \E ps \in PayloadSizes, ts \in StreamTimestamps : Write(ps, ts)

Next ==
  \/ WriteAny
  \/ WriteDead
  \/ \E sb \in SblenInputs, rb \in RblenInputs : Resize(sb, rb)

(* The pipeline keeps writing packets; resize() is the caller's choice.   *)
Spec == Init /\ [][Next]_vars /\ WF_vars(WriteAny)

-----------------------------------------------------------------------------
(***************************************************************************)
(* Properties.                                                             *)
(***************************************************************************)
Packets == [kind : {"source", "repair"}, esi : 0 .. SnMod - 1, sbn : 0 .. SbnMod - 1,
            sblen : Nat, blen : Nat]

TypeOK ==
  /\ w.init_status \in {"OK", "NoMem", "Error"}
  /\ {w.cur_sblen, w.next_sblen, w.cur_rblen, w.next_rblen, w.cur_payload_size,
      w.cur_packet, w.block_max_duration} \subseteq Nat
  /\ w.repair_block \in Seq(Packets \cup {NULL})
  /\ {w.first_packet, w.alive, w.prev_block_timestamp_valid} \subseteq BOOLEAN
  /\ w.cur_sbn \in 0 .. SbnMod - 1 /\ w.cur_block_repair_sn \in 0 .. SnMod - 1
  /\ w.prev_block_timestamp \in Timestamps
  /\ enc \in [open : BOOLEAN, sblen : Nat, rblen : Nat, bufs : SUBSET Nat]
  /\ emitted \in Seq(Packets) /\ lastOut \in Packets \cup {NULL}

(* While the writer is alive, the encoder has a block open exactly when   *)
(* the writer is in the middle of one, that block has the writer's current *)
(* sizes, and the encoder holds a buffer for exactly the source packets    *)
(* written so far: begin_block_/set_buffer/end_block calls stay in step    *)
(* with cur_packet_ across resize() calls and block boundaries.           *)
EncoderInSync ==
  (w.init_status = "OK" /\ w.alive) =>
    /\ enc.open <=> w.cur_packet > 0
    /\ enc.open => /\ enc.sblen = w.cur_sblen
                   /\ enc.rblen = w.cur_rblen
                   /\ enc.bufs = 0 .. w.cur_packet - 1

(* Every encoding symbol id the writer uses, in an emitted packet or in a *)
(* set_buffer() call to the encoder, is a position inside its block       *)
(* (0 .. sblen+rblen-1), as the FEC scheme requires.                      *)
SymbolIdsInBlock ==
  /\ \A i \in 1 .. Len(emitted) : emitted[i].esi < emitted[i].blen
  /\ \A b \in enc.bufs : b < enc.sblen + enc.rblen

(* The writer seen from downstream: the abstract block stream, whose     *)
(* sizes for the next block are the writer's next_sblen_/next_rblen_, and  *)
(* whose stream is what the writer hands to writer_.write().              *)
FBS == INSTANCE FecBlockStream
         WITH sizes <- <<w.next_sblen, w.next_rblen>>,
              last  <- lastOut,
              batch <- emitted

(* Whatever the caller's resize() calls, payload sizes and allocation     *)
(* failures, write() and resize() implement the abstract block stream:    *)
(* every resize() that changes the sizes is a valid request, every block  *)
(* begins with the sizes of the last accepted resize() before its first   *)
(* packet (a resize() inside a block is deferred), and the packets handed *)
(* to writer_.write() are well-formed blocks: none out of order, skipped  *)
(* within the source part, repeated, or with another block's sbn or       *)
(* lengths, one source packet per write() and the repair packets right    *)
(* after the block's last source packet.                                  *)
ImplementsFecBlockStream == FBS!Spec

(* max_block_duration(), lines 72-76: block_max_duration_, a signed     *)
(* difference, returned cast to the unsigned stream_timestamp_t.          *)
MaxBlockDuration(s) == s.block_max_duration % TsMod

(* max_block_duration() is always 0 or the span between two consecutive   *)
(* block begins that the stream really had (stream timestamps compared    *)
(* with wrap-around): a regression or a wrap never shows up as a huge     *)
(* duration and a span over a skipped begin is never reported.            *)
MaxDurationObserved ==
  MaxBlockDuration(w) \in spansSeen \cup {0}

(* The comment at lines 111-112 says that max_block_duration() reports the *)
(* maximum since the last resize(): it is 0 or a span between consecutive  *)
(* block begins that both happened after the last accepted resize().      *)
MaxDurationSinceResize ==
  MaxBlockDuration(w) \in spansSinceResize \cup {0}

(* If the pipeline keeps writing, every block the writer begins is closed *)
(* (its repair packets emitted) unless the writer dies.                   *)
BlockCompletes ==
  (w.cur_packet > 0) ~> (w.cur_packet = 0 \/ ~w.alive)

=============================================================================
