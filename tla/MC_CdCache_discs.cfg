SPECIFICATION Spec
CONSTANTS
  N = 2
  Workers = {w1}
  Places = {p1}
  Discs <- MC_Discs
  Uses <- MC_Uses
INVARIANTS CallbackHasItsFrame ImagesGivenBack DetectsWhatIsThere
PROPERTY CallsReturn
CHECK_DEADLOCK FALSE
