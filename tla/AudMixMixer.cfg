CONSTANTS
  Client = {c1}
  NumMixBuffers = 3
  Stamp = {s0, s1}
  Zero = s0
  NoClient = NoClient
SPECIFICATION MixerSpec
INVARIANTS MixerTypeOK SoundOK StampNotAhead StampExact
