CONSTANTS
    Time = {1, 2, 3, 4}
    maximum_imu_samples = 3
    maximum_lidar_scans = 1
    maximum_imu_gap = 1
    MaxScanDuration = 1
    PriorSources = {"zero"}
    minimum_imu_samples = 1
    topic_wait_timeout = 1
    maximum_topic_prior_age = 0
    maximum_recoverable_imu_gap = 2
    maximum_initial_map_registration_failures = 1
    lost_after_registration_failures = 2
    recovery_confirmation_updates = 2
    MaxGeneration = 0
SPECIFICATION FairSpec
PROPERTY ScanDecided
CHECK_DEADLOCK FALSE
