\* The black list is edited patiently, the white one at any time; the white file may be missing.
SPECIFICATION FairSpec
CONSTANTS
  c1 = c1  c2 = c2
  Callsigns <- OneCallsign
  Contents <- SmallFiles
  Patient <- Black
  MayMiss <- White
  MaxTime = 2
  Nobody = Nobody
INVARIANT BarredStaysOut
PROPERTIES ImplementsAccess AnswerComes PatientEditsTakeEffect
