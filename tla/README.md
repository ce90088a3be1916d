# TLA+ models of roc-toolkit components

This directory holds TLA+ specifications of parts of roc-toolkit (the sources are
under `src/src/`), the TLC configurations that check them, and `PROJECT.json`.
`PROJECT.json` lists, in machine-readable form:
- every component;
- every run, with the mutant that shows each checked property can fail;
- the source lines each definition models;
- the findings and the hazards.

Run a check with `tlc -workers 2 -config <cfg> <MC module>` in this directory.

## 1. Inventory

The tree is a sample of roc-toolkit files. Four of them hold stateful logic worth
checking; the rest are glue, formatting or declarations.

| Component | Source | State | Operations | Interacts with |
|---|---|---|---|---|
| FEC block writer | `roc_fec/block_writer.cpp` | cur/next sblen and rblen, payload size, cur_packet, sbn, repair sn, repair_block_ slots, alive_, duration tracker (prev ts, valid flag, max) | constructor, `resize`, `write` (→ `begin_block_`, `apply_sizes_`, `update_block_duration_`, `write_source_packet_`, `end_block_` = make/encode/compose/write repair packets, `next_block_`), `is_alive`, `max_block_duration` | block encoder (begin_block/set_buffer/fill_buffers/end_block), packet factory, composers, downstream writer |
| Resampler | `roc_audio/resampler.cpp` | qt_sample_ (Q12.20 phase), qt_dt_, scaling_, qt_half_window_len_, qt_sinc_step_, out_frame_i_, the three frame pointers | constructor (`check_config_`, `fill_sinc_`), `set_scaling`, `renew_buffers`, `resample_buff` (→ `resample_`, `sinc_`) | the caller (resampler reader), which supplies prev/cur/next frames and scalings |
| Sinc table | `resampler.cpp` `fill_sinc_`/`sinc_` | a float table of window_len*window_interp+2 entries | build once, look up two entries | Resampler |
| ALSA device | `roc_sndio/.../alsa_device.cpp` | pcm_, config_ (sample spec, latency), frame_size_ | `open` = negotiate access, format, rate, channels, periods and latency, then set sw params; `state`, `pause`, `resume`, `restart`, `sample_spec`, `latency`, `request` and the destructor are TODO stubs with no body | libasound |
| RTCP XR traverser | `roc_rtcp/xr_traverser.cpp` | buf_, parsed_, blocks_count_; iterator: state_, cur_pos_, cur_blk_len_, error_ | `parse`, `iter`, `Iterator::next` and the per-type checks | RTCP packet bytes |
| SDP media description, sample-spec formatting, allocation policies, headers, tests | various | — | string setters, formatting, declarations | — |

The hard behaviours are these. There is no concurrency: every modelled component
is single-threaded. The difficulty is in long call sequences and at numeric
edges.

Block writer:
- resize() requests are deferred to the next block boundary. They interleave
  with an open block.
- One block of packets can partly fail: a repair packet allocation can fail per
  slot, and the repair_block_ arena can fail to grow.
- The writer can die silently: an encoder rejection or a payload change makes it
  dead.
- The stream timestamp wraps and can regress.
- sbn and repair sn wrap.

Resampler:
- Q12.20 fixed-point arithmetic wraps at 32 bits.
- Casts between signed and unsigned values.
- The window bounds at frame edges.
- A call can return "more input needed" and must resume later.
- set_scaling() takes effect partly at once and partly at the next renew_buffers().
- qt_sinc_step_ is not initialised until set_scaling() writes it.

The properties each component needs:
- **Block writer:**
  - the encoder's block follows the writer's block;
  - every emitted packet's encoding-symbol id lies in its block;
  - the output stream is ordered block by block (source ids 0..sblen-1, then repair ids sblen.., then the next sbn), and each block has the sizes of the last valid resize before it;
  - a begun block completes;
  - max_block_duration is a span really observed (since the last resize, per the comment).
- **Resampler:**
  - every frame and sinc-table read is in bounds;
  - phase continuity across frames, with no wrap and no loss of the fraction;
  - output resumes where it stopped;
  - set_scaling rejections.
- **ALSA:**
  - the negotiated channel mask matches the channel count;
  - open() never panics;
  - a failed open() leaves config_ and frame_size_ as configured;
  - a failed open can be retried.
- **XR traverser:**
  - a returned block lies inside the buffer;
  - iteration terminates;
  - blocks_count equals the number of blocks a later iterator returns;
  - an iteration returns exactly the valid known blocks of the chain, with the right error flag.

## 2. Plan

1. `BlockWriter` (done): the whole writer with the encoder and factory as
   nondeterministic results.
2. `Resampler` (done): the fixed-point state machine, with `resample_()` as
   the set of indices it reads.
3. `AlsaDevice` (done): `open()` as one action against an abstract device,
   given as sets of supported rates, channel counts, periods, period and buffer
   sizes, and a set of calls that may fail. Properties:
   - the channel mask matches the channel count (violated, line 605);
   - no panic;
   - open() fails only for a cause;
   - a failed open() leaves config_ and frame_size_ untouched.

   A retry after a failed open is not stated as a property, because the header
   gives no contract for it (see hazards).
4. `XrTraverser` (done): `parse()` and the iterator over an abstract buffer, a
   sequence of block headers with lengths. The header struct sizes become
   constants, because `headers.h` is not in this tree. Properties:
   - returned blocks lie in bounds;
   - termination, as a liveness property;
   - blocks_count agrees with a later iteration;
   - the iterator refines an abstract block-stream contract, `XrBlockStream`.
5. `FecBlockStream` (done): the abstract stream of FEC blocks seen downstream.
   `BlockWriter` is shown to implement it through a refinement mapping from
   `w.next_sblen`/`w.next_rblen`, `lastOut` and `emitted`. This replaced the
   earlier `StreamOrder` action property.

The modules do not compose: the writer and the resampler sit in different
pipelines (network sender and audio receiver) and do not call each other.

## 3. Modules

### BlockWriter.tla / MC_BlockWriter.tla

The writer's fields form one record `w` with the C++ member names. A public method
is one action, built by composing its private helpers as operators on that
record. The actions are:
- `Init`: the constructor;
- `Resize(sblen, rblen)`;
- `Write(ps, ts)`, on a live writer, for a packet with payload size `ps` and stream timestamp `ts`;
- `WriteDead`, a write on a dead writer.

Helpers map one to one onto the C++ functions (`ApplySizes` is
`apply_sizes_`, `UpdateBlockDuration` is `update_block_duration_`, `EndBlock` is
`end_block_`, `NextBlock` is `next_block_`, and so on; see `map`). A helper that
can fail returns the set of its possible results.

`enc` records the encoder's view: whether a block is open, its sizes, and which
buffer indices were set.

`emitted` is the sequence of packets the last call forwarded downstream.
`lastOut` is the last packet ever forwarded. Each packet is a record of the FEC
fields (esi, sbn, sblen, blen) and its kind.

The history variables `lastBeginTs`, `spansSeen` and `spansSinceResize` record
the block-start timestamps. The spans are computed by `SignedSpan`, an
independent reference for the signed difference, so a wrong
`StreamTimestampDiff` is caught.

`FecBlockStream.tla` is what the writer promises downstream, without the
encoder, the slots or the failures. Its state is the sizes a new block will
take, the last packet handed down and the packets of the last step. Its
actions are `Request` (a valid size request), `Send` (one source packet, then
the block's repair packets if it completes the block, all in stream order,
and a block-start packet carrying the requested sizes) and `Idle`. `FBS` in
`BlockWriter` maps `sizes` to `<<w.next_sblen, w.next_rblen>>`, `last` to
`lastOut` and `batch` to `emitted`. An accepted `resize()` is a `Request`. A
rejected or unchanged one, a failed write and a dead write are `Idle`. A
write that emits is a `Send`.

`MaxBlockDuration` is `max_block_duration()`: `block_max_duration_` cast to
the unsigned `stream_timestamp_t`. The duration properties are stated over it,
the value a caller sees.

`packet::stream_timestamp_diff` is not in this tree. It is modelled from the
spec as the signed difference modulo 2^TsBits.

### Resampler.tla / MC_Resampler.tla

`fixedpoint_t` is a word of `FractBits + IntBits` bits, with the code's
operations: mask, shift, wrap, and the `int32_t` cast (`Signed`). The code's
word is 32 bits (Q12.20). TLC integers are 32-bit signed, so the model uses a
smaller width, 8 fractional bits, and 5 integer bits (3 in the wrap run).
check_config_'s bound `channel_len <= (2^W-1) >> F` scales with it, so the
relation between the frame length and the word is the one the code has.

Floats (`scaling`, `cutoff_freq_` = 0.9) are exact rationals. `float_to_fixedpoint`
truncates the rational times 2^FractBits, as the float-to-uint32 cast does;
float rounding itself is abstracted away.

The actions are:
- `Init`: the constructor, with `qt_sinc_step_` left at a value from `InitSincSteps`;
- `SetScaling`, `SetScalingRejected`;
- `RenewBuffers`;
- `ResampleBuff`: the whole call. `ResampleLoop` is the `for` loop, RECURSIVE
  over output positions.

For each sample and channel, `ResampleReads` computes the indices that
`resample_()`'s four loops read from `prev_frame_`, `curr_frame_`, `next_frame_`
and the sinc table (`sinc_` reads `index` and `index+1`). It also records a loop
that never meets its `!=` bound ("runaway") and a division by a zero
`qt_sinc_step_`. Sample values are not modelled. `WindowReads` is the four
loops for one set of bounds; `ResampleReads` adds the zero-step check.

The recursion and the actions bind the loop state and its result through a
one-element set (`CHOOSE r \in {ResampleLoop(x) : x \in {nx}} : TRUE`). This
means the same thing as passing it directly. It makes TLC evaluate the value
once, which matters inside the `ENABLED` that weak fairness needs.

`FairSpec` is `Spec` with weak fairness on `ResampleBuff` and `RenewBuffers`.

`channelize_index(i, off)` is not in this tree. It is modelled as `i*channels+off`,
the interleaved layout that `frame_size = channel_len*channels` implies.

The history variables are:
- `ref_phase`: the phase in exact arithmetic;
- `out_log`: the out_frame_i_ of every sample of the current out frame;
- `last_result`: what the last resample_buff() returned.

### AlsaDevice.tla / MC_AlsaDevice.tla

The device is a record of the sets of values it supports: `access`, `formats`,
`rates`, `channels`, `periods`, `period_sizes` and `buffer_sizes`. libasound is
modelled by its results, as follows:
- a `test_*` call succeeds for a supported value;
- `set_*_near` picks the nearest supported value (`Nearest`);
- `get_*` succeeds when the value is set, or when the device leaves a single value;
- any call named in the set `F` of one `open()` returns an error.

`Open(type, F)` is the whole of `AlsaDevice::open()`. The helpers follow the C
functions:
- `NegotiateFixed` is `alsa_negotiate_access` and `alsa_negotiate_format`;
- `NegotiateNear` is the rate, channels and periods negotiations, an exact value first and then `*_near`;
- `NegotiateLatency` and `RoundedBufferSize` are `alsa_negotiate_latency`;
- `SetHwParams` and `SetSwParams` are `alsa_set_hw_params` and `alsa_set_sw_params`;
- `ChannelMask` is line 605;
- `EmptyQuery` is the zeroed `AlsaQuery`, and `AlsaOpen` is `alsa_open`;
- `RequestedLatencyUs` is line 594: `config_.latency`, in nanoseconds
  (`LatencyNs`), truncated to whole microseconds;
- `ConfiguredSpec` is `config_` as the constructor copies it;
- `StoreNegotiated` is lines 603-609, which write the negotiated rate, mask,
  latency and frame size;
- `FailedOpenUpdate` is the early returns of lines 596-601, which skip them.

`panicked` records a `roc_panic_if` that is reached.

`open()` panics if `pcm_` is already set. That is a caller error, so the action
is enabled only while `pcm_` is NULL. This still explores a second `open()`
after a failed `snd_pcm_open()`.

`SampleSpec::num_channels()` is not in this tree. It is modelled from its
documented meaning, the population count of the mask (`NumChannels`, RECURSIVE).

### XrBlockStream.tla / XrTraverser.tla / MC_XrTraverser.tla

The packet is a record: header type, length field, padding bit, padding
payload byte, buffer size, and a chain of blocks. Each block has a type, a
length field and, for DLRR, a sub-block count. `ByteAt(k)` gives the buffer
byte the code reads at offset k. At k = 3 it is the low byte of the packet
length field; at a block header's offset + 3 it is that block's length byte;
otherwise it is the payload byte. That keeps the correlations the code's
pointer reads have. The struct sizes of `headers.h` are constants, because
`headers.h` is not in this tree. The MC values keep the RFC 3611 sizes where they
are small (RRTR 12, DLRR header 4, DLRR sub-block 12). The measurement-info,
delay-metrics and queue-metrics sizes are scaled down to 8, 12 and 8 bytes, so
length fields 0..3 reach both their failing and their passing checks. `size_t` arithmetic wraps at `SizeBits` bits.

The actions are:
- `Init`: the constructor, over `Packets`;
- `Parse`: the whole of `parse()`, including the padding cut and the
  `blocks_count_` loop (`CountBlocks`, an iteration of `NextBlock`);
- `Iter`: `iter()`, a fresh iterator;
- `IterNext`: one `Iterator::next()`.

`Scan` is the loop in `next()`, RECURSIVE over blocks. It has a fuel bound;
running out of fuel is state `"HANG"`, which models a loop that does not
advance. `CheckBlock` is the per-type size check.
`StructSize` is the number of bytes an accessor (`get_rrtr()`, `get_dlrr()` and
the others, lines 236-273) reads from the current block's offset.

`XrBlockStream.tla` is the contract, stated over the chain instead of byte
offsets:
- the walked prefix of blocks;
- the indices of the valid known blocks, returned in order (`Expected`);
- the error flag: a bad known block before the one returned, and at the end
  any bad block or a chain that does not end exactly at the buffer end.

`XB` maps the concrete state onto it: `chain` is the packet's chain with `ok`
computed by `CheckBlock`, `size` is `buf_size`, `out` is `returned`, and
`done`/`err` come from the live iterator.

## 4. Runs

| Run | Expect | What it shows |
|---|---|---|
| blockwriter_structure | pass | Writes, resizes (accepted, rejected, same), dead writes, with encoder, arena and per-repair-packet allocation failures, for sblen/rblen in 0..2 and a max block length of 3. Properties: `TypeOK`, `EncoderInSync`, `SymbolIdsInBlock`, `ImplementsFecBlockStream` (refinement of `FecBlockStream`), `BlockCompletes` (liveness) and `MaxDurationObserved`: the reported maximum is always a span that was really observed. Stream timestamps 0 and 6 of a 3-bit clock give forward spans, a regression and a wrap. About 200k states, 75 seconds. |
| blockwriter_zero_config | violation | `SymbolIdsInBlock` fails: constructing with 0/0 succeeds (line 81), and packet esi 0 lands in a block of length 0. |
| blockwriter_resize_max | violation | `MaxDurationSinceResize` fails: after an accepted resize, the maximum from before it is still reported (line 113). |
| resampler_core | pass | All orders of set_scaling (1/2, 1, 3/2, 2 accepted; 29/10 rejected by the upsampling check; 3 rejected by the window check), renew_buffers and resample_buff, after a first set_scaling, on a two-channel stream. Properties: `CurrNextReadsInFrame`, `SincReadsInTable`, `OutputResumes`, and `FramesKeepCompleting` (liveness under `FairSpec`): once set_scaling has succeeded, out frames keep completing. About 5k states, 60 seconds. `PhaseContinuity` is not checked here: with 5 integer bits and a frame of 6 the word cannot wrap and the snap never fires, so it could not fail. It is checked where it can, in resampler_phase_wrap. |
| resampler_prev_overread | violation | `PrevReadsInFrame` fails at the first sample: `prev_frame_[channel_len*channels+ch]` is read (lines 288, 362-366). |
| resampler_unscaled_overread | violation | Without a set_scaling first, half = window_len exactly; when qt_sample_+half equals the window, `curr_frame_[channel_len]` is read (line 309). |
| resampler_sign_cast | violation | With IntBits = 3, a frame of 7 and a window of 4, the half window (4.4 samples) exceeds half the signed word's range. The `(signed_fixedpoint_t)` test of line 298 then takes a negative `qt_sample_ - half` as positive, and `curr_frame_` is read past its end. At 32 bits this needs a half window above 2^11 samples, which check_config_ accepts. |
| resampler_phase_wrap | violation | With channel_len = 2^IntBits-1 and scaling 3/2, the phase word overflows (lines 182, 195). |
| alsa_open | pass | `open()` as sink and as source against 486 devices, with every subset of five failing calls. Properties: `TypeOK` (every negotiated query field is 0 or a value the device supports, so no value is taken from the request without reading it back), `NoPanic` (the latency rounding keeps every panic check unreachable), `OpenFailsOnlyForCause` (the `*_near` fallbacks accept any device) and `FailedOpenKeepsConfig` (an open() that fails, even after `snd_pcm_hw_params()` committed the values to the device, leaves `config_` and `frame_size_` as configured). About 16k states. |
| alsa_channel_mask | violation | `ChannelMaskMatches` fails: a mono device gets mask 0b11 and a frame size of twice the period (line 605). |
| xr_iteration | pass | parse() and repeated iterations over about 14.6k packets. The chains have up to two blocks of every type, with length fields 0..3 and DLRR sub-block counts 0..1. The buffer is cut short, exact or longer than the chain, with or without padding. Properties: `NoPanic`, `NextTerminates`, `BlocksCountMatches`, `AccessorsReadInBuffer` (the accessor of the block the iterator stops on reads only bytes inside the buffer) and `ImplementsBlockStream` (refinement of `XrBlockStream`, error flag included). About 79k states, 30 seconds. |
| xr_packet_bounds | violation | `BlocksWithinPacket` fails: without padding, parse() keeps the whole buffer (line 40), so blocks after the packet's declared length are returned. |

## 5. Bounds

Block writer:
- sblen and rblen in 0..2, and MaxBlockLength 3, give blocks with zero, one and
  two repair packets, and a resize that exceeds the maximum.
- The 2-bit sbn/sn, started at 3, wrap in the first block.
- The 3-bit timestamp has both a positive and a negative half. The stream
  timestamps 0 and 6 give a span of 6 that is a regression (-2) when read as
  signed, a forward span of 2 across the wrap, and zero spans.

Resampler:
- A frame of 6 samples with a window of 2 and interp 4 gives half windows of 2
  to 4.4 samples. That reaches all three frames and the rejection paths.
- Two channels, so every read index carries a channel offset and the loops
  step by the channel count. A frame of 12 samples is 6 per channel.
- OutSize 8 (4 samples per channel) makes calls end both with "complete" and
  with "more".
- The violation runs keep one channel. Their counterexamples do not depend on
  the channel count.

ALSA:
- The devices combine the following, so every negotiation takes each of its paths: exact, near, single-value get, and failure.
  - access and format: the requested value, another single value, or two other values;
  - rates: 44100 exactly, 48000 only, or {32000, 48000};
  - channels: {1}, {2} or {4, 6};
  - periods: {2}, {3} or {3, 4}.
- Latency 20.0007 ms: the conversion to microseconds drops its last 700 ns.
  20000 us at 44100 Hz gives 882 frames. That is not a multiple of 4 or 8, so the rounding matters.
- The five failing calls cover each stage: `snd_pcm_open`, a `*_near` call, a `get_*` call, `snd_pcm_hw_params` and the sink-only start threshold.

XR traverser:
- Two blocks are enough for a block after a skipped or failed one, which is
  where the error flag and the count can go wrong.
- The buffer sizes are the chain end -2, exact and +3. Those give a cut
  header, a cut body, a clean end and trailing bytes.
- The packet length fields are the buffer's words minus 1 and minus 2. That
  gives a packet equal to the buffer and one shorter than it.
- The padding bytes are 1, 4 and 9: smaller, equal and larger than what
  follows the header in short packets, so the padding bound check matters.

## 6. Fairness

`BlockWriter`'s `Spec` has weak fairness on `WriteAny`, meaning the pipeline
keeps writing packets. That is how the sender uses the writer: one write per
packet, forever. Resize is left unfair because it is the caller's choice.

`Resampler`'s `FairSpec` has weak fairness on `ResampleBuff` and
`RenewBuffers`. The resampler's caller is not in this tree. spec.md describes
it: the caller refills the buffers when resample_buff() asks for more input and
then resumes, for as long as audio flows. The fairness is that caller. set_scaling() is left unfair, because it is the
caller's choice. `FramesKeepCompleting` is therefore conditioned on the first
set_scaling that sets `qt_sinc_step_`.

The ALSA and XR runs check only safety, so no fairness is assumed.

The ALSA runs turn off deadlock checking. `open()` is the only `AlsaDevice`
method with a body, so a device legitimately stops after it.

## 7. Findings

See `findings` in PROJECT.json. In short:
- `BlockWriter` accepts a zero-length block configuration.
- `BlockWriter` does not reset the maximum duration on resize.
- `resample_()` reads one past the previous frame on every sample.
- `resample_()` reads one past the current frame when qt_sample_ + half equals the window.
- The phase word can overflow within check_config_'s limits.
- `resample_()` misreads the sign of `qt_sample_ - half` for half windows above 2^11 samples and reads past the current frame.
- `AlsaDevice::open()` stores a channel mask with one channel too many.
- `XrTraverser::parse()` does not cut the buffer to the packet length when there
  is no padding, so bytes past the packet are returned as blocks.

## 8. Not modelled

- The downstream-write and compose failures: the code panics, so there is no recovery to check.
- The packet flag checks of `validate_fec_packet_`: preconditions that panic.
- The sinc table's float values.
- The ALSA TODO stubs (`state`, `pause`, `resume`, `restart`, `sample_spec`,
  `latency`, `request`, closing in the destructor): they have no body. The
  value-returning ones fall off the end, which is undefined behaviour and is
  listed as a hazard. The actual values libasound picks inside a configuration space are abstracted to `Nearest`.
- The formatting, SDP, allocation-policy and header-only files: nothing there changes state in a way a property could be about.
- The phase snap (lines 172-177) is modelled, but its epsilon truncates to 0 at
  20 fractional bits, so it never fires. This is recorded as a hazard, not a property.
- Out frames whose size is not a multiple of the channel count. `Resampler`
  assumes it is a multiple (the frame factory and `SampleSpec` are not in this
  tree). The write past the frame that would follow is listed as a hazard.
- The `XrTraverser` getters `blocks_count()` and `packet()`, and the
  `BlockWriter` getter `is_alive()`: they only return a field, and panic before
  `parse()` or after a failed constructor, which is a caller error. The
  properties read the fields directly.
