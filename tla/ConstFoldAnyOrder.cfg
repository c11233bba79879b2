SPECIFICATION Spec
CONSTANT Families <- LoadsFirstFamily
INVARIANT CertifiedIsEquivalent
