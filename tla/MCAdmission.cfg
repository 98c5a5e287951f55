CONSTANTS
  Kinds <- AllKinds
  Versions = {"", "9.4", "9.5"}
SPECIFICATION AdmissionSpec
INVARIANTS Defaulted DefaultsSuffice
