\* The entity layer (every create, call and Participant.close of Entities)
\* together with the WaitSet and GuardCondition operations: the WaitSet
\* mirrors against the native waitset, and Participant.close's teardown.
CONSTANTS
    MaxHandles <- MCMaxHandles
SPECIFICATION WSpec
INVARIANT WTypeOK
INVARIANT MirrorMatchesNative
INVARIANT NoOrphans
INVARIANT DestroyedOnce
INVARIANT NoCallOnDestroyed
\* A caller may stop at any point, and with every handle spent and every
\* object closed nothing is enabled.
CHECK_DEADLOCK FALSE
