CONSTANT Programs <- MCPrograms
SPECIFICATION Spec
INVARIANTS TypeOK AcceptedIsTyped CoercionIsLeast PoisonIsReportedOnce ValuesHaveTheirTypes CompilesExactlyIfSupported CrashNeedsBoolean
CHECK_DEADLOCK FALSE
