CONSTANTS
  Inboxes = {i1, i2}
  Incoming <- MCIncoming
  AgentMsgs <- MCAgentMsgs
  Threads = {t1, t2}
  Configurer = cf
  LidKnown = TRUE
  MaxParts = 1
  MaxCalls = 1
  MaxRedeliveries = 1
  MaxConfigs = 2
  MaxFailures = 1
  MaxResolved = 1
  None = None
SPECIFICATION Spec
SYMMETRY Symm
INVARIANTS PostedOnce OnlyAgentsSpeak EchoSuppressed MappingsSound
CHECK_DEADLOCK FALSE
