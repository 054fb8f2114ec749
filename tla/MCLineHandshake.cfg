SPECIFICATION Spec
CONSTANTS
  Lower = Lower
  Upper = Upper
  MaxJobs = 2
  MaxChannels = 1
  MaxFaults = 1
INVARIANTS TypeOK OpenLinesCurrent ChannelsOfLine QuietAgreement
PROPERTIES AgreementLasts BegunLinked HandshakeCompletes WaitingServed
CHECK_DEADLOCK FALSE
