------------------------------ MODULE Resampler ------------------------------
(***************************************************************************)
(* The windowed-sinc resampler of roc_audio (src/modules/roc_audio/        *)
(* resampler.cpp).  Its state is the fixed-point phase qt_sample_ inside   *)
(* the current frame, the output position out_frame_i_, the phase step     *)
(* qt_dt_, and the window parameters that set_scaling() recomputes.        *)
(*                                                                         *)
(* fixedpoint_t is a Q(IntBits.FractBits) unsigned word, Q12.20 in the     *)
(* code; the model keeps the code's masks, shifts and wrap-around at a     *)
(* smaller width, with check_config_()'s bound channel_len <= 2^IntBits-1 *)
(* scaled with it.  Floats (scaling, cutoff) are exact rationals <<n, d>>; *)
(* float_to_fixedpoint() truncates their product with 2^FractBits.        *)
(* Sample values are abstracted away: resample_() is modelled by the      *)
(* frame and sinc-table positions it reads, which is what decides whether *)
(* it stays inside the three frames and the table.                         *)
(***************************************************************************)
EXTENDS Naturals, Integers, FiniteSets, Sequences

CONSTANTS
  FractBits,     \* FRACT_BIT_COUNT (20 in the code)
  IntBits,       \* integer bits of fixedpoint_t (12 in the code)
  ChannelsNum,   \* packet::num_channels(channel_mask_)
  FrameSize,     \* ResamplerConfig.frame_size (samples of all channels)
  WindowLen,     \* ResamplerConfig.window_size
  WindowInterp,  \* ResamplerConfig.window_interp
  OutSize,       \* out.size() of the frames the caller resamples into
  Scalings,      \* arguments of set_scaling(), as rationals <<n, d>>
  InitSincSteps, \* what qt_sinc_step_ may hold before set_scaling() sets it
  ScalingFirst   \* the caller calls set_scaling() before renew_buffers()

ASSUME Assumption ==
  /\ FractBits \in Nat \ {0} /\ IntBits \in Nat \ {0}
  /\ ChannelsNum \in Nat \ {0} /\ FrameSize \in Nat \ {0}
  /\ WindowLen \in Nat \ {0} /\ WindowInterp \in Nat \ {0}
  /\ OutSize \in Nat \ {0} /\ OutSize % ChannelsNum = 0
  /\ Scalings \subseteq (Nat \ {0}) \X (Nat \ {0})
  /\ InitSincSteps \subseteq 0..(2 ^ (FractBits + IntBits) - 1)
  /\ ScalingFirst \in BOOLEAN

WordMod == 2 ^ (FractBits + IntBits)
QtOne == 2 ^ FractBits

(* The helpers of lines 20-72, on words of width FractBits + IntBits.    *)
FixedpointToSize(t) == t \div QtOne
QFloor(x) == x - (x % QtOne)
QCeil(x) == IF x % QtOne = 0 THEN x ELSE (QFloor(x) + QtOne) % WordMod
FloatToFixedpoint(r) == (r[1] * QtOne) \div r[2]
Signed(x) == IF x >= WordMod \div 2 THEN x - WordMod ELSE x
RECURSIVE CalcBits(_, _)
CalcBits(n, c) == IF n % 2 = 0 /\ n > 0 THEN CalcBits(n \div 2, c + 1) ELSE c

(* Rationals. *)
RMul(a, b) == <<a[1] * b[1], a[2] * b[2]>>
RDiv(a, b) == <<a[1] * b[2], a[2] * b[1]>>
RLess(a, b) == a[1] * b[2] < b[1] * a[2]
One == <<1, 1>>
CutoffFreq == <<9, 10>>                    \* cutoff_freq_(0.9f)
Nat2R(n) == <<n, 1>>

(* The constant fields set by the constructor, lines 76-109. *)
ChannelLen == FrameSize \div ChannelsNum
WindowInterpBits == CalcBits(WindowInterp, 0)
QtWindowSize == (ChannelLen * QtOne) % WordMod
QtEpsilon == (5 * QtOne) \div 100000000    \* float_to_fixedpoint(5e-8f)
SincTableSizeNoGuard == WindowLen * WindowInterp
SincTableSize == WindowLen * WindowInterp + 2

(* check_config_(), lines 188-217. *)
ConfigValid ==
  /\ ChannelsNum >= 1
  /\ ChannelLen <= (WordMod - 1) \div QtOne
  /\ FrameSize = ChannelLen * ChannelsNum
  /\ 2 ^ WindowInterpBits = WindowInterp

(* Resampler::channelize_index(): sample i of channel ch_offset in an     *)
(* interleaved frame.                                                      *)
ChannelizeIndex(i, off) == i * ChannelsNum + off

VARIABLES
  qt_sample,          \* qt_sample_
  out_frame_i,        \* out_frame_i_
  qt_dt,              \* qt_dt_
  scaling,            \* scaling_
  qt_half_window_len, \* qt_half_window_len_
  qt_sinc_step,       \* qt_sinc_step_
  frames_set,         \* prev_frame_, curr_frame_, next_frame_ are non-NULL
  sinc_step_written,  \* set_scaling() has written qt_sinc_step_
  reads,              \* positions read by the last resample_buff() call
  ref_phase,          \* history: the phase in the current frame, in exact arithmetic
  out_log,            \* history: out_frame_i_ of every sample of the current out frame
  last_result         \* history: what the last resample_buff() returned

vars == <<qt_sample, out_frame_i, qt_dt, scaling, qt_half_window_len,
          qt_sinc_step, frames_set, sinc_step_written, reads, ref_phase, out_log,
          last_result>>

-----------------------------------------------------------------------------
(* The constructor, lines 76-109: scaling_ 1.0, qt_sample_ and qt_dt_ 0,   *)
(* no frames yet.  qt_sinc_step_ is not in the initialiser list: until     *)
(* set_scaling() writes it, it holds whatever the allocation held.         *)
Init ==
  /\ ConfigValid
  /\ qt_sample = 0
  /\ out_frame_i = 0
  /\ qt_dt = 0
  /\ scaling = One
  /\ qt_half_window_len = FloatToFixedpoint(RDiv(Nat2R(WindowLen), One))
  /\ qt_sinc_step \in InitSincSteps
  /\ frames_set = FALSE
  /\ sinc_step_written = FALSE
  /\ reads = {}
  /\ ref_phase = 0
  /\ out_log = <<>>
  /\ last_result = "none"

SetScalingOutcome(s) ==
  LET newHalf == FloatToFixedpoint(RMul(RDiv(Nat2R(WindowLen), CutoffFreq), s))
      outOfBounds ==
        \/ FixedpointToSize(QCeil((QtWindowSize - newHalf) % WordMod)) > ChannelLen
        \/ FixedpointToSize(QFloor(newHalf)) + 1 > ChannelLen
  IN CASE ~RLess(RMul(Nat2R(WindowLen), s), Nat2R(ChannelLen)) -> [ok |-> FALSE]
       [] RLess(One, s) /\ outOfBounds -> [ok |-> FALSE]
       [] RLess(One, s) ->
            [ok |-> TRUE, step |-> FloatToFixedpoint(RDiv(CutoffFreq, s)),
             half |-> newHalf]
       [] OTHER ->
            [ok |-> TRUE, step |-> FloatToFixedpoint(CutoffFreq),
             half |-> FloatToFixedpoint(RDiv(Nat2R(WindowLen), CutoffFreq))]

SetScaling(s) ==
  LET r == SetScalingOutcome(s) IN
  /\ r.ok
  /\ qt_sinc_step' = r.step
  /\ qt_half_window_len' = r.half
  /\ scaling' = s
  /\ sinc_step_written' = TRUE
  /\ UNCHANGED <<qt_sample, out_frame_i, qt_dt, frames_set, reads, ref_phase,
                 out_log, last_result>>

(* A rejected set_scaling() returns false and changes nothing. *)
SetScalingRejected(s) ==
  /\ ~SetScalingOutcome(s).ok
  /\ UNCHANGED vars

(* renew_buffers(), lines 219-237: the phase moves back by one frame when  *)
(* it has passed the end of the current one; qt_dt_ takes the scaling.     *)
RenewedSampleNoBack(qs) == qs
RenewedSample(qs) == IF qs >= QtWindowSize THEN (qs - QtWindowSize) % WordMod ELSE qs

RenewBuffers ==
  /\ ScalingFirst => sinc_step_written
  /\ RLess(RMul(Nat2R(WindowLen), scaling), Nat2R(ChannelLen))
  /\ qt_sample' = RenewedSample(qt_sample)
  /\ qt_dt' = FloatToFixedpoint(scaling)
  /\ frames_set' = TRUE
  /\ ref_phase' = IF ref_phase >= ChannelLen * QtOne
                  THEN ref_phase - ChannelLen * QtOne ELSE ref_phase
  /\ UNCHANGED <<out_frame_i, scaling, qt_half_window_len, qt_sinc_step,
                 sinc_step_written, reads, out_log, last_result>>

(* resample_(), lines 283-319: the bounds of the window in the previous,   *)
(* current and next frames, as channelized indices.                       *)
ResampleBounds(qs, half, off) ==
  LET minus == (qs - half) % WordMod
      plus == (qs + half) % WordMod
      behind == Signed(minus) >= 0
      spills == plus > QtWindowSize
  IN [prevBegin |-> ChannelizeIndex(
                      IF behind THEN ChannelLen
                      ELSE FixedpointToSize(QCeil((minus + QtWindowSize) % WordMod)), off),
      prevEnd   |-> ChannelizeIndex(ChannelLen, off),
      curBegin  |-> ChannelizeIndex(IF behind THEN FixedpointToSize(QCeil(minus)) ELSE 0, off),
      curEnd    |-> ChannelizeIndex(
                      IF spills THEN ChannelLen - 1 ELSE FixedpointToSize(QFloor(plus)), off),
      nextBegin |-> ChannelizeIndex(0, off),
      nextEnd   |-> ChannelizeIndex(
                      IF spills
                      THEN FixedpointToSize(QFloor((plus - QtWindowSize) % WordMod)) + 1
                      ELSE 0, off)]

(* resample_(), lines 321-337: the sinc table positions at the ends and    *)
(* the index of the centre sample of the current frame.                    *)
SincAnchors(qs, half, step, b) ==
  LET qtPos == (QtWindowSize + qs - QCeil((QtWindowSize + qs - half) % WordMod)) % WordMod
      prevEnd == ((qtPos * step) \div QtOne) % WordMod
      center == prevEnd % step
      curEnd == (prevEnd - (((b.prevEnd - b.prevBegin) % WordMod) \div ChannelsNum) * step)
                % WordMod
  IN [center |-> center,
      curCenter |-> b.curBegin + ((((curEnd - center) % WordMod) * ChannelsNum) \div step)]

(* sinc_(), lines 271-280: the two table entries read for position x. *)
SincReads(x) ==
  LET index == x \div 2 ^ (FractBits - WindowInterpBits)
  IN {<<"sinc", index>>, <<"sinc", index + 1>>}

(* resample_(), lines 339-384: the four loops, for window bounds b.  A    *)
(* loop whose '!=' bound is never met runs off through memory; it is      *)
(* recorded as "runaway".                                                 *)
WindowReads(qs, half, step, off, b) ==
  LET a == SincAnchors(qs, half, step, b)
      C == ChannelsNum
      Pos(start, k) == (start + k * step) % WordMod
      left == a.curCenter >= b.curBegin /\ (a.curCenter - b.curBegin) % C = 0
      back == b.prevEnd >= b.prevBegin /\ (b.prevEnd - b.prevBegin) % C = 0
      n1 == (a.curCenter - b.curBegin) \div C
      n2 == (b.prevEnd - b.prevBegin) \div C
      right == (step - a.center) % WordMod
      n3 == IF b.curEnd >= a.curCenter + C THEN (b.curEnd - a.curCenter - C) \div C + 1 ELSE 0
      n4 == IF b.nextEnd > b.nextBegin THEN (b.nextEnd - b.nextBegin + C - 1) \div C ELSE 0
  IN IF ~left \/ ~back THEN {<<"runaway", off>>} ELSE
     {<<"curr", a.curCenter - k * C>> : k \in 0..n1}
     \cup {<<"prev", b.prevEnd - k * C>> : k \in 0..n2}
     \cup {<<"curr", a.curCenter + k * C>> : k \in 1..n3}
     \cup {<<"next", b.nextBegin + k * C>> : k \in 0..(n4 - 1)}
     \cup UNION {SincReads(Pos(a.center, k)) : k \in 0..(n1 + n2)}
     \cup UNION {SincReads(Pos(right, k)) : k \in 0..(n3 + n4 - 1)}

(* resample_(), lines 283-384: what one output sample of channel off      *)
(* reads.  qt_sinc_step_ divides at line 337; the bounds are bound as a   *)
(* value so the loops evaluate them once.                                 *)
ResampleReads(qs, half, step, off) ==
  IF step = 0 THEN {<<"div_by_zero", off>>}
  ELSE UNION {WindowReads(qs, half, step, off, b) : b \in {ResampleBounds(qs, half, off)}}

(* The phase snap of lines 172-177. *)
Snap(q) ==
  CASE q % QtOne < QtEpsilon -> QFloor(q)
    [] QtOne - (q % QtOne) < QtEpsilon -> (QFloor(q) + QtOne) % WordMod
    [] OTHER -> q

(* qt_sample_ += qt_dt_, line 182. *)
AdvancePhase(q, dt) == (q + dt) % WordMod

(* The loop bound of line 167. *)
FrameDoneOffByOne(oi) == oi > OutSize
FrameDone(oi) == oi >= OutSize

(* The loop of resample_buff(), lines 167-185, over the state st of one  *)
(* call: it stops at the end of the out frame or the end of the window.   *)
(* Each iteration's state nx is bound as a value ({.. : x \in {nx}}), so  *)
(* the next iteration evaluates it once.                                  *)
RECURSIVE ResampleLoop(_)
ResampleLoop(st) ==
  IF FrameDone(st.oi) THEN [st EXCEPT !.oi = 0, !.result = "complete"]
  ELSE IF st.qs >= QtWindowSize THEN [st EXCEPT !.result = "more"]
  ELSE LET q  == Snap(st.qs)
           nx == [st EXCEPT
                    !.qs = AdvancePhase(q, qt_dt),
                    !.oi = st.oi + ChannelsNum,
                    !.ref = st.ref + qt_dt,
                    !.log = Append(st.log, st.oi),
                    !.rd = st.rd \cup UNION {ResampleReads(q, qt_half_window_len, qt_sinc_step, ch)
                                             : ch \in 0..(ChannelsNum - 1)}]
       IN CHOOSE r \in {ResampleLoop(x) : x \in {nx}} : TRUE

ResampleBuffRestart ==
  /\ frames_set
  /\ \E r \in {ResampleLoop([qs |-> qt_sample, oi |-> 0, ref |-> ref_phase,
                             log |-> IF last_result = "more" THEN out_log ELSE <<>>,
                             rd |-> {}, result |-> "none"])} :
     /\ qt_sample' = r.qs /\ out_frame_i' = r.oi /\ ref_phase' = r.ref
     /\ out_log' = r.log /\ reads' = r.rd /\ last_result' = r.result
     /\ UNCHANGED <<qt_dt, scaling, qt_half_window_len, qt_sinc_step, frames_set,
                    sinc_step_written>>

(* resample_buff(), lines 162-186; it panics without frames. *)
ResampleBuff ==
  /\ frames_set
  /\ \E r \in {ResampleLoop([qs |-> qt_sample, oi |-> out_frame_i, ref |-> ref_phase,
                             log |-> IF last_result = "more" THEN out_log ELSE <<>>,
                             rd |-> {}, result |-> "none"])} :
     /\ qt_sample' = r.qs
     /\ out_frame_i' = r.oi
     /\ ref_phase' = r.ref
     /\ out_log' = r.log
     /\ reads' = r.rd
     /\ last_result' = r.result
     /\ UNCHANGED <<qt_dt, scaling, qt_half_window_len, qt_sinc_step, frames_set,
                    sinc_step_written>>

Next ==
  \/ \E s \in Scalings : SetScaling(s) \/ SetScalingRejected(s)
  \/ RenewBuffers
  \/ ResampleBuff

Spec == Init /\ [][Next]_vars

(* The caller (spec.md; not in this tree) keeps pulling output: it calls *)
(* resample_buff() per out frame and, when that returns false,          *)
(* renew_buffers() with the next input frame.  set_scaling() is the     *)
(* caller's choice and stays unfair.                                    *)
FairSpec == Spec /\ WF_vars(ResampleBuff) /\ WF_vars(RenewBuffers)

-----------------------------------------------------------------------------
TypeOK ==
  /\ qt_sample \in 0..(WordMod - 1)
  /\ out_frame_i \in 0..(OutSize - ChannelsNum)
  /\ qt_dt \in 0..(WordMod - 1)
  /\ scaling \in Scalings \cup {One}
  /\ qt_half_window_len \in 0..(WordMod - 1)
  /\ qt_sinc_step \in 0..(WordMod - 1)
  /\ frames_set \in BOOLEAN
  /\ sinc_step_written \in BOOLEAN
  /\ ref_phase \in Nat
  /\ last_result \in {"none", "more", "complete"}

ReadsOf(buf) == {r[2] : r \in {x \in reads : x[1] = buf}}

(* resample_() reads the previous frame only inside it: the index of      *)
(* every prev_frame_[i] of lines 362-366 is below frame_size.              *)
PrevReadsInFrame == \A i \in ReadsOf("prev") : i < FrameSize

(* resample_() reads curr_frame_ and next_frame_ only inside them (lines   *)
(* 355-381), each of its '!=' loops reaches its bound, and it never        *)
(* divides by a zero qt_sinc_step_ (lines 329, 337).                       *)
CurrNextReadsInFrame ==
  /\ \A i \in ReadsOf("curr") \cup ReadsOf("next") : i < FrameSize
  /\ ReadsOf("runaway") = {} /\ ReadsOf("div_by_zero") = {}

(* sinc_() reads sinc_table_[index] and [index + 1] (lines 272-275) only  *)
(* inside the window_len * window_interp + 2 entries fill_sinc_() made.    *)
SincReadsInTable == \A i \in ReadsOf("sinc") : i < SincTableSize

(* Phase continuity: resample_buff() advances qt_sample_ by qt_dt_ per     *)
(* sample and renew_buffers() moves it back by exactly one frame, so       *)
(* qt_sample_ always equals the exact phase within the current frame: the *)
(* 32-bit (here FractBits+IntBits) word never wraps and renew never loses  *)
(* the fractional part.                                                   *)
PhaseContinuity == qt_sample = ref_phase

(* A call that returns false keeps out_frame_i_, so the calls that fill    *)
(* one out frame write its positions 0, C, 2C, ... once each, in order,    *)
(* and the call that returns true has written all of them.                 *)
OutputResumes ==
  /\ out_log = [k \in 1..Len(out_log) |-> (k - 1) * ChannelsNum]
  /\ last_result = "complete" => Len(out_log) = OutSize \div ChannelsNum

(* Under that reader, once the caller has set a scaling, resample_buff()  *)
(* keeps completing out frames: every renew_buffers() moves the phase back *)
(* into the new current frame, so the next resample_buff() produces at     *)
(* least one sample, and out_frame_i_ persists across calls that return   *)
(* "more input needed", whatever the accepted scalings and however the    *)
(* calls interleave.                                                       *)
FramesKeepCompleting == <>sinc_step_written => []<>(last_result = "complete")

=============================================================================
