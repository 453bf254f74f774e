SPECIFICATION Spec
CONSTANTS
  card0 = card0
  dac1 = dac1
  dac2 = dac2
  dac3 = dac3
  PCM = PCM
  Speaker = Speaker
  NoCard = NoCard
  NoPlayer = NoPlayer
  NoControl = NoControl
  Unknown = Unknown
  Players = {mpd}
  Internal = card0
  Dacs <- MCDacs
  Preference <- MCPreference
  Elems <- MCElems
  FullVolume = 1
  Requests = {r1}
  MaxChanges = 2
INVARIANTS
  TypeOK
  
  PublishedFits

  
  
