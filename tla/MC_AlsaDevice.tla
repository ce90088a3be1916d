---------------------------- MODULE MC_AlsaDevice ----------------------------
(* AlsaDevice for TLC: every device built from a few choices for each     *)
(* parameter the hardware constrains.                                      *)
EXTENDS AlsaDevice

MC_Devices ==
  [access : {{"RW_INTERLEAVED"}, {"MMAP_INTERLEAVED"},
             {"MMAP_INTERLEAVED", "RW_NONINTERLEAVED"}},
   formats : {{"FLOAT"}, {"S16_LE"}, {"S16_LE", "S32_LE"}},
   rates : {{44100}, {48000}, {32000, 48000}},
   channels : {{1}, {2}, {4, 6}},
   periods : {{2}, {3}, {3, 4}},
   period_sizes : {{256}, {441, 512}},
   buffer_sizes : {{882, 1024}}]

MC_FailingCalls == {"pcm_open", "set_rate_near", "get_channels", "hw_params",
                    "set_start_threshold"}
====
