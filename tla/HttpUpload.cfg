CONSTANTS
    MixerLimits <- SmallMixers
    CHANNELS = 2
    StreamDataLimit = 4
SPECIFICATION UploadSpec
INVARIANT UploadsWithoutLastLine
CHECK_DEADLOCK FALSE
