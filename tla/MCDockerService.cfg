SPECIFICATION FairSpec
CONSTANTS
  Names = {kafka, kafka_broker, kafka_ui}
  MaxFaults = 3
PROPERTIES
  RestartsKeepSucceeding
