CONSTANT BufferCount = 3
SPECIFICATION FairSpec
PROPERTY ShutdownIsSafe
