\* Two messages of a session, in any overlap, and two failures or delays, or up
\* to four before the second message comes, so that the fallback fails, too.
CONSTANTS
  Session = {a}
  Turn <- TwoTurns
  NoSession = NoSession
  MaxFaults = 2
  MaxAlone = 4
SPECIFICATION FairSpec
INVARIANTS
  TypeOK
  SilentAfterEnd
  OneVoice
  NoFiller
PROPERTIES
  EveryTurnEnds
CHECK_DEADLOCK FALSE
