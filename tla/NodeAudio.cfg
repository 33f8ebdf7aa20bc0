CONSTANT BufferCount = 3
SPECIFICATION FairSpec
INVARIANT BuffersAccountedFor
INVARIANT PlaysWhatWasRendered
INVARIANT OwnerIsAlone
PROPERTY GateIsKept
PROPERTY StopEmptiesTheGate
PROPERTY MixerLockComesBack
