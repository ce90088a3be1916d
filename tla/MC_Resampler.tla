---------------------------- MODULE MC_Resampler ----------------------------
EXTENDS Resampler

\* set_scaling() arguments: downsampling, identity, upsampling, one that is
\* rejected by the upsampling bounds check and one that does not fit.
MC_Scalings == {<<1, 2>>, <<1, 1>>, <<3, 2>>, <<2, 1>>, <<29, 10>>, <<3, 1>>}

\* qt_sinc_step_ as set_scaling() leaves it for scaling <= 1.
MC_SincStepSet == {FloatToFixedpoint(CutoffFreq)}
\* Upsampling by 3/2: qt_dt_ exceeds one sample.
MC_WrapScalings == {<<3, 2>>}
\* Identity scaling: the half window, 4/0.9 samples, exceeds half the range
\* of the signed word at IntBits = 3.
MC_SignScalings == {<<1, 1>>}
=============================================================================
