CONSTANTS
  None = None
  Time = {1, 2, 3}
  maximum_integration_step = 1
  imu_history_duration = 2
  imu_ingress_capacity = 1
  maximum_correction_age = 1
  publish_period = 1
  MaxSequence = 2
  MaxGeneration = 1
SPECIFICATION OdometrySpec
INVARIANTS PublishedIsFresh SleepsOnlyWhenIdle
PROPERTIES PublishesAppliedCorrection SupersededNotRepeated
CHECK_DEADLOCK FALSE
