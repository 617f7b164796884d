SPECIFICATION Spec
CONSTANT Configs <- Small
INVARIANTS TypeOK RecoversPrefix NothingLost AckedIsDurable
