\* Two messages, two sessions, one change of the session: a stream strays.
CONSTANTS
  Session = {a, b}
  Turn <- TwoTurns
  NoSession = NoSession
  NoStream = NoStream
  MaxFaults = 1
  MaxAlone = 1
  MaxSwitches = 1
SPECIFICATION ChatSpec
INVARIANTS
  StreamsFollowSession
CHECK_DEADLOCK FALSE
