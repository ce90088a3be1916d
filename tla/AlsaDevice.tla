------------------------------ MODULE AlsaDevice ------------------------------
(***************************************************************************)
(* AlsaDevice::open() of roc_sndio (target_alsa/roc_sndio/alsa_device.cpp) *)
(* negotiating hardware and software parameters with libasound.           *)
(*                                                                         *)
(* The device is abstract: the sets of access modes, formats, rates,       *)
(* channel counts, period counts, period sizes and buffer sizes it         *)
(* supports.  A snd_pcm_hw_params_test_*() call succeeds for a supported   *)
(* value, *_near() picks the nearest supported value, and get_*() succeeds *)
(* when the configuration space leaves a single value.  Any call named in  *)
(* the set F chosen for one open() returns an error.                       *)
(***************************************************************************)
EXTENDS Naturals, Integers, FiniteSets

CONSTANTS
  DeviceTypes,       \* DeviceType_Sink / DeviceType_Source
  ConfigRate,        \* config_.sample_spec.sample_rate()
  ConfigChannels,    \* config_.sample_spec.num_channels()
  LatencyNs,         \* config_.latency, in nanoseconds
  Devices,           \* the devices open() may meet, as records of supported sets
  FailingCalls       \* the libasound calls that may return an error

ASSUME Assumption ==
  /\ DeviceTypes \subseteq {"Sink", "Source"} /\ DeviceTypes # {}
  /\ ConfigRate \in Nat /\ ConfigChannels \in Nat /\ LatencyNs \in Nat
  /\ Devices # {}

RequestedAccess == "RW_INTERLEAVED"     \* line 579
RequestedFormat == "FLOAT"              \* line 582
RequestedPeriods == 2                   \* line 591

AbsDiff(a, b) == IF a >= b THEN a - b ELSE b - a

(* snd_pcm_hw_params_set_*_near(): the supported value nearest to v. *)
Nearest(S, v) == CHOOSE x \in S : \A y \in S : AbsDiff(x, v) <= AbsDiff(y, v)

(* SampleSpec::num_channels(): the number of bits set in a channel mask. *)
RECURSIVE NumChannels(_)
NumChannels(mask) == IF mask = 0 THEN 0 ELSE (mask % 2) + NumChannels(mask \div 2)

VARIABLES
  pcm,         \* pcm_: "none" (NULL) or "open"
  result,      \* what open() returned: "none" before the call, "ok" or "failed"
  panicked,    \* the call reached a roc_panic
  config,      \* config_: [rate, mask, latency_ns]
  frame_size,  \* frame_size_
  query,       \* the AlsaQuery of the call
  dev,         \* the device met
  failing      \* the calls that failed in this open()

vars == <<pcm, result, panicked, config, frame_size, query, dev, failing>>

-----------------------------------------------------------------------------
(* alsa_negotiate_access() and alsa_negotiate_format(), lines 50-136: set *)
(* the requested value if the device tests it, then read the selection.   *)
NegotiateFixed(req, S, setCall, getCall, F) ==
  LET tested == req \in S
  IN CASE tested /\ setCall \in F -> [ok |-> FALSE]
       [] getCall \in F -> [ok |-> FALSE]
       [] tested -> [ok |-> TRUE, val |-> req]
       [] Cardinality(S) = 1 -> [ok |-> TRUE, val |-> CHOOSE x \in S : TRUE]
       [] OTHER -> [ok |-> FALSE]

(* The rate, channels and periods negotiations, lines 138-344: the exact  *)
(* value first, then the nearest one; a failing *_near() is not an error. *)
NegotiateNearExactOnly(req, S, setCall, nearCall, getCall, F) ==
  NegotiateFixed(req, S, setCall, getCall, F)

(* Mutant of NegotiateNear: after a successful *_near() call the requested *)
(* value is kept instead of the one snd_pcm_hw_params_get_*() reads back.  *)
NegotiateNearRequested(req, S, setCall, nearCall, getCall, F) ==
  LET tested == req \in S
      near == ~tested /\ nearCall \notin F /\ S # {}
  IN CASE tested /\ setCall \in F -> [ok |-> FALSE]
       [] getCall \in F -> [ok |-> FALSE]
       [] tested \/ near -> [ok |-> TRUE, val |-> req]
       [] Cardinality(S) = 1 -> [ok |-> TRUE, val |-> CHOOSE x \in S : TRUE]
       [] OTHER -> [ok |-> FALSE]

NegotiateNear(req, S, setCall, nearCall, getCall, F) ==
  LET tested == req \in S
      near == ~tested /\ nearCall \notin F /\ S # {}
  IN CASE tested /\ setCall \in F -> [ok |-> FALSE]
       [] getCall \in F -> [ok |-> FALSE]
       [] tested -> [ok |-> TRUE, val |-> req]
       [] near -> [ok |-> TRUE, val |-> Nearest(S, req)]
       [] Cardinality(S) = 1 -> [ok |-> TRUE, val |-> CHOOSE x \in S : TRUE]
       [] OTHER -> [ok |-> FALSE]

(* query.requested_latency_us, line 594: config_.latency divided by     *)
(* core::Microsecond, truncated to whole microseconds.                   *)
RequestedLatencyUs == LatencyNs \div 1000

(* Lines 360-370: the buffer size for the requested latency, rounded up  *)
(* to a multiple of periods * channels.                                    *)
RoundedBufferSizeUnrounded(q) == (RequestedLatencyUs * q.rate) \div 1000000

RoundedBufferSize(q) ==
  LET size == (RequestedLatencyUs * q.rate) \div 1000000
      multiple == q.periods * q.channels
  IN IF size % multiple # 0 THEN size + (multiple - (size % multiple)) ELSE size

(* alsa_negotiate_latency(), lines 346-424. *)
NegotiateLatency(q, d, F) ==
  LET buffer == RoundedBufferSize(q)
      period == Nearest(d.period_sizes, buffer \div q.periods)
      bufferSize == Nearest(d.buffer_sizes, period * q.periods)
  IN CASE RequestedLatencyUs = 0 \/ q.rate = 0 \/ q.channels = 0 \/ q.periods = 0
            -> [ok |-> FALSE, panic |-> TRUE]
       [] buffer % q.periods # 0 \/ buffer % q.channels # 0
            -> [ok |-> FALSE, panic |-> TRUE]
       [] "set_period_size_near" \in F -> [ok |-> FALSE, panic |-> FALSE]
       [] "set_buffer_size_near" \in F -> [ok |-> FALSE, panic |-> FALSE]
       [] "get_buffer_time" \in F -> [ok |-> FALSE, panic |-> FALSE]
       [] OTHER -> [ok |-> TRUE, panic |-> FALSE,
                    q |-> [q EXCEPT !.period_size = period, !.buffer_size = bufferSize,
                                    !.latency_us = (bufferSize * 1000000) \div q.rate]]

(* alsa_set_hw_params(), lines 426-471: the negotiations in order, each   *)
(* ending the call on failure, then snd_pcm_hw_params().                   *)
SetHwParams(d, F) ==
  LET acc == NegotiateFixed(RequestedAccess, d.access, "set_access", "get_access", F)
      fmt == NegotiateFixed(RequestedFormat, d.formats, "set_format", "get_format", F)
      rate == NegotiateNear(ConfigRate, d.rates, "set_rate", "set_rate_near", "get_rate", F)
      ch == NegotiateNear(ConfigChannels, d.channels, "set_channels",
                          "set_channels_near", "get_channels", F)
      per == NegotiateNear(RequestedPeriods, d.periods, "set_periods",
                           "set_periods_near", "get_periods", F)
      q == [rate |-> rate.val, channels |-> ch.val, periods |-> per.val,
            period_size |-> 0, buffer_size |-> 0, latency_us |-> 0]
      lat == NegotiateLatency(q, d, F)
  IN CASE "hw_any" \in F \/ ~acc.ok \/ ~fmt.ok -> [ok |-> FALSE, panic |-> FALSE]
       [] "set_rate_resample" \in F \/ ~rate.ok -> [ok |-> FALSE, panic |-> FALSE]
       [] ~ch.ok \/ ~per.ok -> [ok |-> FALSE, panic |-> FALSE]
       [] ~lat.ok -> [ok |-> FALSE, panic |-> lat.panic]
       [] "hw_params" \in F -> [ok |-> FALSE, panic |-> FALSE]
       [] OTHER -> lat

(* alsa_set_sw_params(), lines 473-532: start threshold (sink only) and   *)
(* avail_min.                                                              *)
SetSwParams(type, q, F) ==
  CASE q.buffer_size = 0 \/ q.period_size = 0 -> [ok |-> FALSE, panic |-> TRUE]
    [] "sw_current" \in F -> [ok |-> FALSE, panic |-> FALSE]
    [] type = "Sink" /\ "set_start_threshold" \in F -> [ok |-> FALSE, panic |-> FALSE]
    [] "set_avail_min" \in F -> [ok |-> FALSE, panic |-> FALSE]
    [] "sw_params" \in F -> [ok |-> FALSE, panic |-> FALSE]
    [] OTHER -> [ok |-> TRUE, panic |-> FALSE]

(* The channel mask open() stores, line 605. *)
ChannelMask(channels) == 2 ^ (channels + 1) - 1

(* AlsaQuery(), lines 22-46: every field zeroed by memset. *)
EmptyQuery == [rate |-> 0, channels |-> 0, periods |-> 0, period_size |-> 0,
               buffer_size |-> 0, latency_us |-> 0]

(* alsa_open(), lines 535-547: snd_pcm_open() in playback mode for a sink, *)
(* capture mode for a source; it fails when that call returns an error.    *)
AlsaOpen(F) == "pcm_open" \notin F

(* config_ as the constructor copies it (line 552). *)
ConfiguredSpec == [rate |-> ConfigRate, mask |-> 2 ^ ConfigChannels - 1,
                   latency_ns |-> LatencyNs]

(* Lines 603-609: config_ and frame_size_ from the negotiated query. *)
StoreNegotiated(q) ==
  /\ config' = [rate |-> q.rate, mask |-> ChannelMask(q.channels),
                latency_ns |-> q.latency_us * 1000]
  /\ frame_size' = q.period_size * NumChannels(ChannelMask(q.channels))

(* Mutant of FailedOpenUpdate: config_ taken from the hw params before    *)
(* alsa_set_sw_params() has succeeded.                                    *)
FailedOpenUpdateEarly(hw) ==
  IF hw.ok THEN StoreNegotiated(hw.q) ELSE UNCHANGED <<config, frame_size>>

(* Lines 596-601: a failed alsa_set_hw_params() or alsa_set_sw_params()   *)
(* returns before lines 603-609, so config_ and frame_size_ are kept.     *)
FailedOpenUpdate(hw) == UNCHANGED <<config, frame_size>>

Init ==
  /\ pcm = "none"
  /\ result = "none"
  /\ panicked = FALSE
  /\ config = ConfiguredSpec
  /\ frame_size = 0
  /\ query = EmptyQuery
  /\ dev \in Devices
  /\ failing = {}

(* AlsaDevice::open(), lines 565-612, of a device of type type.  A second  *)
(* open() once pcm_ is set panics (line 567), a caller error: the action    *)
(* is enabled only while pcm_ is NULL.  A failed snd_pcm_open() leaves it   *)
(* NULL, so open() may be called again; any later failure leaves it set.    *)
Open(type, F) ==
  LET hw == SetHwParams(dev, F)
      sw == SetSwParams(type, hw.q, F)
  IN /\ pcm = "none"
     /\ ~panicked
     /\ failing' = F
     /\ CASE ~AlsaOpen(F) ->
               /\ result' = "failed"
               /\ UNCHANGED <<pcm, panicked, config, frame_size, query>>
          [] ~hw.ok \/ ~sw.ok ->
               /\ pcm' = "open"
               /\ result' = "failed"
               /\ panicked' = (hw.panic \/ (hw.ok /\ sw.panic))
               /\ query' = IF hw.ok THEN hw.q ELSE query
               /\ FailedOpenUpdate(hw)
          [] OTHER ->
               /\ pcm' = "open"
               /\ result' = "ok"
               /\ UNCHANGED panicked
               /\ query' = hw.q
               /\ StoreNegotiated(hw.q)
     /\ UNCHANGED dev

Next == \E type \in DeviceTypes, F \in SUBSET FailingCalls : Open(type, F)

Spec == Init /\ [][Next]_vars

-----------------------------------------------------------------------------
(* Properties. *)

(* The type of the state.  Each selected_* field of the query is 0, as     *)
(* AlsaQuery() leaves it, or a value the device supports: open() takes     *)
(* every negotiated value from snd_pcm_hw_params_get_*() or the value a    *)
(* *_near() call wrote back, never from the request alone.                 *)
TypeOK ==
  /\ pcm \in {"none", "open"}
  /\ result \in {"none", "ok", "failed"}
  /\ panicked \in BOOLEAN
  /\ config \in [rate : Nat, mask : Nat, latency_ns : Nat]
  /\ frame_size \in Nat
  /\ query \in [rate : dev.rates \cup {0}, channels : dev.channels \cup {0},
                periods : dev.periods \cup {0}, period_size : dev.period_sizes \cup {0},
                buffer_size : dev.buffer_sizes \cup {0}, latency_us : Nat]
  /\ dev \in Devices
  /\ failing \subseteq FailingCalls

(* alsa_negotiate_latency() rounds the buffer size up to a multiple of    *)
(* periods * channels (lines 367-370) before the roc_panic_if checks of    *)
(* lines 372-373, and every negotiated value it and alsa_set_sw_params()  *)
(* check for zero comes from the device: no open() of any device, with any *)
(* libasound call failing, reaches a panic.                                *)
NoPanic == ~panicked

(* open() updates config_ and frame_size_ (lines 603-609) only after both *)
(* alsa_set_hw_params() and alsa_set_sw_params() succeeded.  An open()     *)
(* that fails at any stage, even after snd_pcm_hw_params() has committed   *)
(* the negotiated rate and channels to the device, leaves the sample spec, *)
(* latency and frame size the object reports as configured, so they never *)
(* describe a half-opened device.                                          *)
FailedOpenKeepsConfig ==
  result = "failed" => config = ConfiguredSpec /\ frame_size = 0

(* A device offers the requested access mode and format, or leaves only   *)
(* one: snd_pcm_hw_params_get_access()/get_format() then succeed.          *)
Negotiable(d) ==
  /\ RequestedAccess \in d.access \/ Cardinality(d.access) = 1
  /\ RequestedFormat \in d.formats \/ Cardinality(d.formats) = 1

(* The *_near() fallbacks of the rate, channels and periods negotiations  *)
(* (lines 174-190, 239-256, 306-323) accept any device: open() fails only  *)
(* when a libasound call returned an error, or when the device offers      *)
(* neither the requested access mode or format nor a single one.           *)
OpenFailsOnlyForCause ==
  result = "failed" => failing # {} \/ ~Negotiable(dev)

(* open() stores the negotiated channel count in config_ as a channel mask *)
(* (line 605) and sizes frames by the mask's channel count (line 609): the *)
(* mask must hold exactly the channels the device was opened with.        *)
ChannelMaskMatches ==
  result = "ok" =>
    /\ NumChannels(config.mask) = query.channels
    /\ frame_size = query.period_size * query.channels

=============================================================================
